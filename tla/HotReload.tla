----------------------------- MODULE HotReload -----------------------------
(***************************************************************************)
(* The Lua virtual machines of the server and how they take up edited      *)
(* files.  lua_plugin hosts one VM in the main thread, one in every worker *)
(* and one in the other thread; any Lua error that reaches it ends the     *)
(* process.  SIGUSR1 makes the main thread set a flag per VM, one after    *)
(* another, and each thread reloads at its next tick.  Only the other VM   *)
(* has code to load: Other.OnReload requires MapSvr again, MapSvr.OnReload *)
(* the rest of the list, and a module that cannot be loaded is logged and  *)
(* left out.  A module's functions live in a table that is never replaced, *)
(* so whoever holds it sees the new functions.                             *)
(***************************************************************************)
EXTENDS Naturals, FiniteSets

CONSTANTS
    Workers,        \* worker indexes
    Breakable,      \* files an edit may break
    MaxBroken,      \* bound: files broken at the same time
    MaxEdits,       \* bound: times the files are edited
    MaxRequests     \* bound: reloads asked for

VARIABLES
    disk,       \* the files: their edition, which are broken, and how
    jit,        \* built with LuaJIT, else with Lua 5.4
    alive,      \* no ASSERT_LOG_EXIT has failed
    vm,         \* VM -> "none", "running" or "stopped"
    flag,       \* VM -> lua_state_be_reload and its like
    doing,      \* VM -> what its thread does
    setting,    \* the VMs whose flag reload() has still to set
    loaded,     \* the modules in package.loaded of the other VM
    failed,     \* the modules LuaJIT has marked there: they ran and failed
    code,       \* module -> edition of its functions
    dispatch,   \* MsgFromUDP-, MsgFromOther- and MsgFromClientCmd2Func
    asked,      \* history: VM -> edition of the files its flag was set for
    tookUp,     \* history: VM -> edition of the files its last reload read
    requests    \* history: reloads asked for

process == <<alive, vm, flag, doing, setting>>
lua == <<loaded, failed, code, dispatch>>
hotReloadVars == <<disk, jit, process, lua, asked, tookUp, requests>>

VMs == {"main", "other"} \cup Workers

-----------------------------------------------------------------------------
(* The modules of the other VM *)

Rooms == {"FSRoomPlayerLogic", "FSRoomPlayerSkillLogic", "FSRoomSyncLogic",
          "FSRoomMapLogic", "FSRoomLogic", "FSRoomMgrLogic"}
Handlers == {"MsgHandlerFromUDPLogic", "MsgHandlerFromOtherLogic",
             "MsgHandlerFromClientLogic"}
Components == {"PlayerCmptInfoLogic", "PlayerCmptBagLogic",
               "PlayerCmptMapLogic", "PlayerCmptMap3DLogic",
               "PlayerCmptFSRoomLogic"}

Others == {"DebugLogic", "PlayerLogic", "PlayerMgrLogic", "PlayerCmptBaseLogic",
           "MapLogic", "MapMgrLogic", "Map3DLogic", "Map3DMgrLogic",
           "MsgHandlerLogic", "ConfigTableMgrLogic", "TimeMgrLogic"}

\* (faulty variant: a module is missing in the list)
ShortList == Rooms \cup Handlers \cup Components \cup (Others \ {"Map3DLogic"})

\* reloadList of MapSvr.OnReload
ReloadList == Rooms \cup Handlers \cup Components \cup Others

Modules == Rooms \cup Handlers \cup Components \cup Others \cup {"MapSvr"}

\* The modules a file requires before it defines anything, among those that
\* are reloaded.
Requires == [m \in Modules |->
    CASE m \in {"FSRoomPlayerLogic", "FSRoomSyncLogic", "MapLogic", "Map3DLogic"}
           -> {"TimeMgrLogic"}
      [] m = "FSRoomMgrLogic" -> {"FSRoomLogic", "TimeMgrLogic"}
      [] m = "MapMgrLogic" -> {"MapLogic"}
      [] m = "Map3DMgrLogic" -> {"Map3DLogic"}
      [] m \in {"PlayerCmptInfoLogic", "PlayerCmptBagLogic"}
           -> {"PlayerCmptBaseLogic"}
      [] m = "PlayerCmptFSRoomLogic" -> {"PlayerCmptBaseLogic", "TimeMgrLogic"}
      [] m = "PlayerCmptMapLogic"
           -> {"PlayerCmptBaseLogic", "TimeMgrLogic", "MapMgrLogic"}
      [] m = "PlayerCmptMap3DLogic"
           -> {"PlayerCmptBaseLogic", "TimeMgrLogic", "Map3DMgrLogic"}
      [] m = "PlayerLogic" -> Components \cup {"ConfigTableMgrLogic"}
      [] m = "PlayerMgrLogic" -> {"PlayerLogic"}
      [] m = "MsgHandlerFromUDPLogic" -> {"MsgHandlerLogic", "MapSvr"}
      [] m = "MsgHandlerFromOtherLogic"
           -> {"MsgHandlerLogic", "MapSvr", "DebugLogic"}
      [] m = "MsgHandlerFromClientLogic"
           -> {"PlayerMgrLogic", "MsgHandlerLogic", "MapSvr"}
      [] m = "MapSvr"
           -> {"MsgHandlerLogic", "PlayerMgrLogic", "MapMgrLogic",
               "FSRoomMgrLogic", "Map3DMgrLogic", "TimeMgrLogic"}
      [] OTHER -> {}]

\* The modules functions require when they run.
RequiredLater ==
    {"PlayerMgrLogic", "TimeMgrLogic", "MsgHandlerLogic", "ConfigTableMgrLogic"}

\* What is left of an edition is a table with functions of two of them.
Mixed == MaxEdits + 1

\* The modules whose require succeeds, given package.loaded and the files.
Loadable(ld, bad) ==
    LET loads[m \in Modules] ==
          \/ m \in ld
          \/ /\ m \notin bad \cup disk.broken
             /\ \A d \in Requires[m] : loads[d]
    IN  {m \in Modules : loads[m]}

\* What requiring MapSvr may load.
MapSvrReach ==
    LET reach[m \in Modules] == {m} \cup UNION {reach[d] : d \in Requires[m]}
    IN  {m \in Modules : m \in reach["MapSvr"]}

\* The functions once the modules tried were required and those of good could
\* be: a file that fails when it runs has replaced some functions by then.
CodeAfter(cd, tried, good) ==
    [m \in Modules |->
        CASE m \in tried \cap good -> disk.edition
          [] /\ m \in (tried \ good) \cap disk.broken /\ disk.how = "runtime"
             /\ Requires[m] \subseteq good -> Mixed
          [] OTHER -> cd[m]]

-----------------------------------------------------------------------------
(* The operator edits files and asks for reloads *)

Files(e) ==
    {[edition |-> e, broken |-> b, how |-> h] :
        b \in {s \in SUBSET Breakable : Cardinality(s) <= MaxBroken},
        h \in {"syntax", "runtime"}}

Edit ==
    /\ alive
    /\ disk.edition < MaxEdits
    /\ disk' \in Files(disk.edition + 1)
    /\ UNCHANGED <<jit, process, lua, asked, tookUp, requests>>

\* SIGUSR1 and on_cmd_reload: the main thread enters reload().
Request ==
    /\ alive
    /\ vm["main"] = "running" /\ doing["main"] = "tick"
    /\ setting = {}
    /\ requests < MaxRequests
    /\ requests' = requests + 1
    /\ setting' = VMs
    /\ asked' = [v \in VMs |-> disk.edition]
    /\ UNCHANGED <<disk, jit, alive, vm, flag, doing, lua, tookUp>>

\* The flags are set in this order: main, the workers, other.
SetFlag(v) ==
    /\ alive
    /\ v \in setting
    /\ v # "main" => "main" \notin setting
    /\ v = "other" => setting = {"other"}
    /\ flag' = [flag EXCEPT ![v] = TRUE]
    /\ setting' = setting \ {v}
    /\ UNCHANGED <<disk, jit, alive, vm, doing, lua, asked, tookUp, requests>>

-----------------------------------------------------------------------------
(* The threads *)

\* exe_On*: an error that Lua code does not catch ends the process.
Call(ok) == alive' = ok

\* Of the modules that failed, those whose file could be compiled: LuaJIT sets
\* its mark before it runs a file, and none for a file it cannot compile.
Ran(bad) == {m \in bad : m \in disk.broken => disk.how = "runtime"}

\* Other.OnReload: MapSvr alone first.  When that fails the message is put
\* together with one argument too few, an error in turn.  Then
\* MapSvr.OnReload with the whole list, and at last MsgHandler, the maps and
\* the rooms require what they need to go on.
OtherOnReload ==
    LET before == loaded \ {"MapSvr"}
        kept == (loaded \cup MapSvrReach) \ ReloadList
    IN  \E first \in {Loadable(before, failed \ {"MapSvr"})},
           good \in {Loadable(kept, {})} :
          IF "MapSvr" \notin first
            THEN /\ Call(FALSE)
                 /\ UNCHANGED lua
            ELSE /\ loaded' = kept \cup good
                 /\ failed' = IF jit THEN Ran(ReloadList \ good) ELSE {}
                 /\ code' = CodeAfter(
                              CodeAfter(code, MapSvrReach \ before, first),
                              ReloadList, good)
                 /\ dispatch' = [m \in Handlers |-> code'[m]]
                 /\ Call(Handlers \cup {"ConfigTableMgrLogic"} \subseteq good)

\* Main.OnReload and Worker.OnReload only log.
OnReload(v) ==
    /\ tookUp' = [tookUp EXCEPT ![v] = disk.edition]
    /\ IF v = "other" THEN OtherOnReload ELSE UNCHANGED <<alive, lua>>

Ready(v) == alive /\ (v = "main" => setting = {})

\* on_main_init, on_worker_init and on_other_init run Init.lua and On*Init,
\* which for the other VM ends in Other.OnReload.
VMInit(v) ==
    /\ Ready(v)
    /\ vm[v] = "none"
    /\ v # "main" => vm["main"] = "running"
    /\ vm' = [vm EXCEPT ![v] = "running"]
    /\ OnReload(v)
    /\ UNCHANGED <<disk, jit, flag, doing, setting, asked, requests>>

\* on_main_tick, on_worker_tick, on_other_tick: the flag is cleared first,
\* and this tick's On*Tick is left out.
ReloadTick(v) ==
    /\ Ready(v)
    /\ vm[v] = "running" /\ doing[v] = "tick"
    /\ flag[v]
    /\ flag' = [flag EXCEPT ![v] = FALSE]
    /\ doing' = [doing EXCEPT ![v] = "reload"]
    /\ OnReload(v)
    /\ UNCHANGED <<disk, jit, vm, setting, asked, requests>>

\* (faulty variant: the flag is cleared when the reload is done)
ReloadDoneClearing(v) ==
    /\ Ready(v)
    /\ doing[v] = "reload"
    /\ doing' = [doing EXCEPT ![v] = "tick"]
    /\ flag' = [flag EXCEPT ![v] = FALSE]
    /\ UNCHANGED <<disk, jit, alive, vm, setting, lua, asked, tookUp, requests>>

ReloadDone(v) ==
    /\ Ready(v)
    /\ doing[v] = "reload"
    /\ doing' = [doing EXCEPT ![v] = "tick"]
    /\ UNCHANGED <<disk, jit, alive, vm, flag, setting, lua, asked, tookUp, requests>>

\* on_main_stop, on_worker_stop, on_other_stop
VMStop(v) ==
    /\ Ready(v)
    /\ vm[v] = "running" /\ doing[v] = "tick"
    /\ \A u \in VMs : vm[u] # "none"
    /\ v = "main" => \A u \in VMs \ {v} : vm[u] = "stopped"
    /\ vm' = [vm EXCEPT ![v] = "stopped"]
    /\ UNCHANGED <<disk, jit, alive, flag, doing, setting, lua, asked, tookUp, requests>>

Stopped(d, j) ==
    /\ disk = d
    /\ jit = j
    /\ alive = TRUE
    /\ vm = [v \in VMs |-> "none"]
    /\ flag = [v \in VMs |-> FALSE]
    /\ doing = [v \in VMs |-> "tick"]
    /\ setting = {}
    /\ loaded = {}
    /\ failed = {}
    /\ code = [m \in Modules |-> Mixed]
    /\ dispatch = [m \in Handlers |-> Mixed]
    /\ asked = [v \in VMs |-> 0]
    /\ tookUp = [v \in VMs |-> 0]
    /\ requests = 0

HotReloadInit == \E d \in Files(0), j \in BOOLEAN : Stopped(d, j)

HotReloadNext ==
    \/ Edit
    \/ Request
    \/ \E v \in VMs : \/ SetFlag(v)
                      \/ VMInit(v)
                      \/ ReloadTick(v)
                      \/ ReloadDone(v)
                      \/ VMStop(v)

HotReloadSpec == HotReloadInit /\ [][HotReloadNext]_hotReloadVars

-----------------------------------------------------------------------------
(* Properties *)

\* A reload that was asked for is not lost, also when it is asked for in the
\* middle of the reload before: a VM whose functions are older than the files
\* of that moment has its flag set, or reload() has still to set it.
NoReloadIsLost ==
    \A v \in VMs :
        alive /\ vm[v] = "running" /\ tookUp[v] < asked[v]
          => flag[v] \/ v \in setting

\* A server that goes on after a reload runs one edition: the handlers in
\* MsgHandler's tables and every module they reach have the functions of the
\* files read last, and what functions require when they run is loaded.  No
\* broken file outside the rooms (which no handler reaches) is survived.
HandlersAreCurrent ==
    alive /\ vm["other"] = "running" =>
        /\ \A m \in Modules \ Rooms : code[m] = tookUp["other"]
        /\ \A m \in Handlers : dispatch[m] = tookUp["other"]
        /\ RequiredLater \subseteq loaded
=============================================================================
