------------------------------- MODULE HttpApp -------------------------------
(***************************************************************************)
(* http_app: static files over HTTP.  A worker answers a request in steps, *)
(* each with one look at the file system, while the operator deploys other *)
(* editions of the file; the body goes out block by block, the next one    *)
(* when the client has taken the last.  The client keeps what it got and   *)
(* asks whether it is still good.                                          *)
(***************************************************************************)
EXTENDS Naturals, Sequences

CONSTANTS
    None,
    FileSizes,  \* sizes of a file or a listing, in blocks of 1,024,000 bytes
    MaxEditions \* bound: editions of the file

ASSUME HttpAssumption ==
    /\ FileSizes \subseteq Nat
    /\ None \notin Nat /\ None \notin [of : Nat, pos : Nat]

VARIABLES
    listing,    \* blocks of the listing if the URL names a directory, else 0
    path,       \* the inode the URL names, 0 if there is none
    inodes,     \* inode -> the edition of the file in it
    editions,   \* history: the second each edition was written in, its blocks
    phase,      \* where the worker is in the handler
    request,    \* the conditions the client sent
    stamp,      \* now_etag and now_last_modify_date
    handle,     \* ctx.ptr: what is read from, and how much of it has been
    reply,      \* status, validators and blocks of the answer
    cache,      \* what the client keeps
    seen,       \* history: the edition a 304 was given for
    torn        \* history: the open file was overwritten

files == <<listing, path, inodes, editions, torn>>
httpVars == <<files, phase, request, stamp, handle, reply, cache, seen>>

Blocks(n) == [i \in 1..n |-> i]
Body(e) == [i \in 1..editions[e].blocks |-> <<e, i>>]

\* ETag is made of the second and the size, Last-Modified is the second.
Validators(e) ==
    [etag |-> <<editions[e].second, editions[e].blocks>>,
     date |-> editions[e].second]

NoValidators == [etag |-> None, date |-> None]

Reply(status) == [status |-> status, validators |-> NoValidators,
                  body |-> <<>>, ended |-> TRUE]

-----------------------------------------------------------------------------
(* The operator *)

NewEdition(blocks, later) ==
    LET last == IF editions = <<>> THEN 0 ELSE editions[Len(editions)].second
    IN  [second |-> last + later, blocks |-> blocks]

Written(e) ==
    /\ listing = 0
    /\ Len(editions) < MaxEditions
    /\ editions' = Append(editions, e)
    /\ UNCHANGED <<listing, phase, request, stamp, handle, reply, cache, seen>>

\* A new file takes the name: what was opened before stays as it was.
Replace(e) ==
    /\ Written(e)
    /\ inodes' = Append(inodes, Len(editions) + 1)
    /\ path' = Len(inodes) + 1
    /\ UNCHANGED torn

\* The file itself is written anew.
Overwrite(e) ==
    /\ path # 0
    /\ Written(e)
    /\ inodes' = [inodes EXCEPT ![path] = Len(editions) + 1]
    /\ torn' = (torn \/ (handle # None /\ handle.of = path))
    /\ UNCHANGED path

Delete ==
    /\ path # 0
    /\ path' = 0
    /\ UNCHANGED <<listing, inodes, editions, torn, phase, request, stamp, handle,
                   reply, cache, seen>>

-----------------------------------------------------------------------------
(* The client *)

\* What a client that has kept an answer may send with a request.
Conditions ==
    {NoValidators} \cup
    (IF cache = None THEN {}
     ELSE {cache.validators, [cache.validators EXCEPT !.etag = None],
           [cache.validators EXCEPT !.date = None]})

Get ==
    /\ phase = "idle"
    /\ phase' = "url"
    /\ \E c \in Conditions, n \in BOOLEAN :
          request' = [validators |-> c, nocache |-> n]
    /\ UNCHANGED <<files, stamp, handle, reply, cache, seen>>

NoRequest == [validators |-> NoValidators, nocache |-> FALSE]

\* The request is over: destory_callback, and nothing is left of it.
Forget ==
    /\ phase' = "idle"
    /\ request' = NoRequest
    /\ stamp' = NoValidators
    /\ handle' = None
    /\ reply' = Reply(None)
    /\ seen' = None
    /\ torn' = FALSE
    /\ UNCHANGED <<listing, path, inodes, editions>>

\* The answer is complete: a body that came to its end is kept.
Keep ==
    /\ phase = "sent" /\ reply.ended
    /\ Forget
    /\ cache' = IF reply.status = 200 /\ reply.validators # NoValidators
                THEN [validators |-> reply.validators, body |-> reply.body]
                ELSE cache

\* Or the client goes away in the middle of it.
Abort ==
    /\ phase = "sent" /\ ~reply.ended
    /\ Forget
    /\ UNCHANGED cache

-----------------------------------------------------------------------------
(* process_callback *)

Return(status) ==
    /\ reply' = Reply(status)
    /\ phase' = "sent"

\* return_404 and return_500 for a URL that cannot be unescaped or taken
\* apart, or with ".." in it.
RefuseUrl ==
    /\ phase = "url"
    /\ \E status \in {404, 500} : Return(status)
    /\ UNCHANGED <<files, request, stamp, handle, cache, seen>>

\* fs::exists, fs::is_regular_file, fs::is_directory
Find ==
    /\ phase = "url"
    /\ \/ listing = 0 /\ path = 0 /\ Return(404)
       \/ listing # 0 /\ phase' = "list" /\ UNCHANGED reply
       \/ path # 0 /\ phase' = "stat" /\ UNCHANGED reply
    /\ UNCHANGED <<files, request, stamp, handle, cache, seen>>

\* generate_etag_for_regular_file; a file that has gone leaves them empty.
Stat ==
    /\ phase = "stat"
    /\ phase' = "compare"
    /\ stamp' = IF path = 0 THEN NoValidators ELSE Validators(inodes[path])
    /\ seen' = IF path = 0 THEN None ELSE inodes[path]
    /\ UNCHANGED <<files, request, handle, reply, cache>>

\* Either of the two validators is enough.
Fresh ==
    /\ ~request.nocache
    /\ \/ stamp.etag # None /\ stamp.etag = request.validators.etag
       \/ stamp.date # None /\ stamp.date = request.validators.date

Compare ==
    /\ phase = "compare"
    /\ IF Fresh THEN Return(304) ELSE phase' = "open" /\ UNCHANGED reply
    /\ UNCHANGED <<files, request, stamp, handle, cache, seen>>

Open ==
    /\ phase = "open"
    /\ IF path = 0
         THEN Return(500) /\ UNCHANGED handle
         ELSE /\ phase' = "head"
              /\ handle' = [of |-> path, pos |-> 0]
              /\ UNCHANGED reply
    /\ torn' = FALSE
    /\ UNCHANGED <<listing, path, inodes, editions, request, stamp, cache, seen>>

\* (faulty variant: the validators are taken when the head is written)
HeadLate ==
    /\ phase = "head"
    /\ phase' = "sent"
    /\ reply' = [status |-> 200, body |-> <<>>, ended |-> FALSE,
                 validators |-> IF path = 0 THEN NoValidators
                                ELSE Validators(inodes[path])]
    /\ UNCHANGED <<files, request, stamp, handle, cache, seen>>

Head200 ==
    /\ phase = "head"
    /\ phase' = "sent"
    /\ reply' = [status |-> 200, validators |-> stamp, body |-> <<>>, ended |-> FALSE]
    /\ UNCHANGED <<files, request, stamp, handle, cache, seen>>

\* (faulty variant: a block that is not full is taken for the end)
WriteShort ==
    /\ phase = "sent" /\ ~reply.ended /\ listing = 0
    /\ LET file == Body(inodes[handle.of])
           n == handle.pos + 1
       IN  IF n < Len(file)
             THEN /\ reply' = [reply EXCEPT !.body = Append(@, file[n])]
                  /\ handle' = [handle EXCEPT !.pos = n]
             ELSE reply' = [reply EXCEPT !.ended = TRUE] /\ UNCHANGED handle
    /\ UNCHANGED <<files, phase, request, stamp, cache, seen>>

\* write_end_callback, called once at first and then whenever the send buffer
\* is empty: a block as one chunk, or the last chunk and the end.
WriteFile ==
    /\ phase = "sent" /\ ~reply.ended /\ listing = 0
    /\ LET file == Body(inodes[handle.of])
           n == handle.pos + 1
       IN  IF n <= Len(file)
             THEN /\ reply' = [reply EXCEPT !.body = Append(@, file[n])]
                  /\ handle' = [handle EXCEPT !.pos = n]
             ELSE reply' = [reply EXCEPT !.ended = TRUE] /\ UNCHANGED handle
    /\ UNCHANGED <<files, phase, request, stamp, cache, seen>>

ListHead ==
    /\ phase = "list"
    /\ phase' = "sent"
    /\ reply' = [Reply(200) EXCEPT !.ended = FALSE]
    /\ handle' = [of |-> 0, pos |-> 0]
    /\ UNCHANGED <<files, request, stamp, cache, seen>>

\* The same for a listing, which is kept as a string: every block is taken
\* from its beginning.
WriteListing ==
    /\ phase = "sent" /\ ~reply.ended /\ listing # 0
    /\ IF handle.pos < listing
         THEN /\ reply' = [reply EXCEPT !.body = Append(@, 1)]
              /\ handle' = [handle EXCEPT !.pos = @ + 1]
         ELSE reply' = [reply EXCEPT !.ended = TRUE] /\ UNCHANGED handle
    /\ UNCHANGED <<files, phase, request, stamp, cache, seen>>

NoRequestYet(blocks) ==
    /\ listing = blocks
    /\ path = 0
    /\ inodes = <<>> /\ editions = <<>>
    /\ phase = "idle"
    /\ request = NoRequest
    /\ stamp = NoValidators
    /\ handle = None
    /\ reply = Reply(None)
    /\ cache = None
    /\ seen = None
    /\ torn = FALSE

HttpInit == \E blocks \in FileSizes : NoRequestYet(blocks)

HttpNext ==
    \/ \E blocks \in FileSizes, later \in {0, 1} :
          LET e == NewEdition(blocks, later) IN Replace(e) \/ Overwrite(e)
    \/ Delete
    \/ Get
    \/ Keep
    \/ Abort
    \/ RefuseUrl
    \/ Find
    \/ Stat
    \/ Compare
    \/ Open
    \/ Head200
    \/ WriteFile
    \/ ListHead
    \/ WriteListing

HttpSpec == HttpInit /\ [][HttpNext]_httpVars

-----------------------------------------------------------------------------
(* Properties *)

Answered(status) == phase = "sent" /\ reply.ended /\ reply.status = status

\* However long the client takes over a body and whatever takes the file's
\* name meanwhile, an answer that comes to its end holds every block of one
\* edition, each once and in order.  (Unless that very file is overwritten;
\* and of a listing longer than a block only the first block is right.)
BodyIsTheFile ==
    Answered(200) =>
        IF listing # 0
          THEN Len(reply.body) = listing /\ (listing = 1 => reply.body = Blocks(1))
          ELSE torn \/ reply.body = Body(inodes[handle.of])

\* Every edition can be told from the others by what the client sent.
ToldApart ==
    \A d, e \in DOMAIN editions : d # e =>
        IF request.validators.date = None
          THEN Validators(d).etag # Validators(e).etag
          ELSE Validators(d).date # Validators(e).date

\* A 304 is true: what the client has kept is what the file held at that
\* moment, though the file may have changed during any earlier answer, and
\* between the look at its time and its opening.
NotModifiedIsTrue ==
    Answered(304) /\ ToldApart => cache.body = Body(seen)
=============================================================================
