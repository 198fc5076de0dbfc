----------------------------- MODULE MCTaskTypes -----------------------------
(* Small instances of TaskTypes for TLC. *)
EXTENDS TaskTypes

\* Frames one behind the other; bytes(f) is the length of frame f.
Starts(fs, bytes(_)) ==
    LET start[k \in 1..(Len(fs) + 1)] ==
          IF k = 1 THEN 0 ELSE start[k - 1] + bytes(fs[k - 1])
    IN  start

\* Stream frames <<size, parses>>.  The limit is 20 bytes: a wire with a
\* package at the limit, one with garbage, one with an empty package, one with
\* a package too large, and one that stalls on garbage until more has come
\* than the buffer may hold.
StreamWire(fs) ==
    LET start == Starts(fs, LAMBDA f : HeadSize + f[1])
    IN  [k \in DOMAIN fs |-> Frame(start[k], fs[k][1], fs[k][2])]

StreamWires ==
    {StreamWire(fs) : fs \in {
        <<<<3, TRUE>>, <<20, TRUE>>, <<1, TRUE>>>>,
        <<<<2, TRUE>>, <<4, FALSE>>, <<3, TRUE>>>>,
        <<<<0, TRUE>>, <<2, TRUE>>, <<5, TRUE>>>>,
        <<<<21, TRUE>>, <<3, TRUE>>>>,
        <<<<1, FALSE>>, <<1, FALSE>>, <<20, TRUE>>, <<20, TRUE>>, <<20, TRUE>>>>}}

StreamCuts ==
    {1, 7, 8, 9, 10, 11, 12, 18, 19, 22, 26, 29, 31, 33, 38, 39, 40, 47, 48, 66,
     84, 99}

\* WebSocket frames <<size, data, fin, parses>>, all masked.  The limit is 205
\* bytes: a fragmented message between whole ones, one with garbage between
\* good ones, a ping, a message too large in fragments, and in bytes.
\* (The frames do not depend on the constants of the instance.)
Frames == INSTANCE WebSocketApp
          WITH Wires <- {}, Cuts <- {}, ReadMax <- 0, Sizes <- {}

WsWire(fs) ==
    LET frame(start, f) == Frames!WsFrame(start, f[1], TRUE, f[2], f[3], f[4])
        start == Starts(fs, LAMBDA f : frame(0, f).bytes)
    IN  [k \in DOMAIN fs |-> frame(start[k], fs[k])]

Whole1(n) == <<n, TRUE, TRUE, TRUE>>
Part(n) == <<n, TRUE, FALSE, TRUE>>

WebSocketWires ==
    {WsWire(fs) : fs \in {
        <<Whole1(3), Part(130), Part(0), Whole1(5), Whole1(2)>>,
        <<Part(2), <<4, TRUE, TRUE, FALSE>>, Whole1(3)>>,
        <<Whole1(2), <<0, FALSE, TRUE, TRUE>>, Whole1(5)>>,
        <<Part(3), Whole1(200), Whole1(199)>>,
        <<Part(130), Part(130), Whole1(3)>>}}

WebSocketCuts ==
    {1, 2, 6, 8, 9, 10, 14, 15, 17, 18, 25, 27, 138, 146, 147, 148, 153, 163,
     164, 172, 216, 217, 218, 276, 285, 424}

ASSUME \A w \in StreamWires \cup WebSocketWires : Contiguous(w)

BreakableFiles == {"FSRoomLogic", "FSRoomMgrLogic", "TimeMgrLogic", "MapSvr"}
=============================================================================
