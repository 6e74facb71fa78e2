---------------------------- MODULE SampleServer ----------------------------
(***************************************************************************)
(* mginit, the sample window server: the programs it starts, the clients   *)
(* that connect to it, the keys its event hook handles, the layers it      *)
(* creates and the transition between layers that it puts in place of the  *)
(* fallback compositor's.  Processes end at any time, their ids are used   *)
(* again, and SIGCHLD arrives once however many children have ended.       *)
(***************************************************************************)
EXTENDS Integers, Sequences, FiniteSets, SequencesExt

CONSTANTS
  Pid,       \* process ids
  Cli,       \* indices of mgClients
  Slot,      \* indices of my_layers: F9, F10, F11, F12
  Argument   \* the first argument: "auto", "none", "" or a "command"

ASSUME ServerAssumption ==
  /\ Pid \subseteq Nat \ {0} /\ IsFiniteSet(Pid)
  /\ Cli \subseteq Nat /\ "default" \notin Slot
  /\ Argument \subseteq {"auto", "none", "", "command"}

VARIABLES
  phase,                              \* "startup", "loop" or "ended"
  nr_clients, pid_dynamic, pid_welcome, exe_cmd,
  my_layers,                          \* the slots that are not NULL
  my_tooltip_win,
  mgLayers, mgTopmostLayer,           \* of the window server: newest first
  prog,                               \* what runs as a process id, or "none"
  zombies, sigchld, interrupted,      \* ended; SIGCHLD pending; got SIGINT
  mgClients, hungup,                  \* pid of a client; its socket is closed
  closed,                             \* the welcome program, once it closed its socket
  lost,                               \* pid_dynamic is not the wallpaper's any more
  dropped                             \* the command could not be started
                                      \*   (closed, lost, dropped: not in the code)
server  == <<phase, nr_clients, pid_dynamic, pid_welcome, exe_cmd>>
screen  == <<my_layers, my_tooltip_win, mgLayers, mgTopmostLayer>>
kernel  == <<prog, zombies, sigchld, interrupted>>
sockets == <<mgClients, hungup, closed>>
history == <<lost, dropped>>
vars    == <<server, screen, kernel, sockets, history>>

Free == {p \in Pid : prog[p] = "none"}
Alive(p) == prog[p] # "none" /\ p \notin zombies
Runs(name) == {p \in Pid : Alive(p) /\ prog[p] = name}
Child(p) == prog[p] \notin {"none", "stranger"}
Connected == {c \in Cli : mgClients[c] # 0}

-----------------------------------------------------------------------------
(* exec_app: vfork fails, or a process with an unused id runs the program. *)
(* (A program that execl cannot start is one that ends at once.)           *)
exec_app(table, name) ==
  {[pid |-> -1, prog |-> table]} \cup
  {[pid |-> p, prog |-> [table EXCEPT ![p] = name]] : p \in {q \in Pid : table[q] = "none"}}

Init ==
  /\ phase = "startup"
  /\ nr_clients = 0 /\ pid_dynamic = 0 /\ pid_welcome = 0 /\ exe_cmd = FALSE
  /\ my_layers = {} /\ my_tooltip_win = FALSE
  /\ mgLayers = <<"default">> /\ mgTopmostLayer = "default"
  /\ prog = [p \in Pid |-> "none"]
  /\ zombies = {} /\ sigchld = FALSE /\ interrupted = {}
  /\ mgClients = [c \in Cli |-> 0] /\ hungup = {} /\ closed = {}
  /\ lost = FALSE /\ dropped = FALSE

(* MiniGUIMain up to its message loop.                                     *)
StartupFails ==
  /\ phase = "startup"
  /\ phase' = "ended"
  /\ UNCHANGED <<nr_clients, pid_dynamic, pid_welcome, exe_cmd, screen, kernel, sockets, history>>

StartAuto ==
  \E d \in exec_app(prog, "dynamic") : \E s \in exec_app(d.prog, "app") :
  \E e \in exec_app(s.prog, "app") : \E v \in exec_app(e.prog, "app") :
    /\ pid_dynamic' = d.pid
    /\ prog' = v.prog
    /\ lost' = (d.pid = -1)
    /\ UNCHANGED <<pid_welcome, exe_cmd>>

StartNone == UNCHANGED <<pid_dynamic, pid_welcome, exe_cmd, prog, lost>>

StartWelcome(arg) ==
  \E w \in exec_app(prog, "welcome") :
    /\ pid_welcome' = w.pid
    /\ prog' = w.prog
    /\ exe_cmd' = (arg # "")
    /\ UNCHANGED <<pid_dynamic, lost>>

MiniGUIMain(arg) ==
  /\ phase = "startup"
  /\ phase' = "loop"
  /\ \/ arg = "auto" /\ StartAuto
     \/ arg = "none" /\ StartNone
     \/ arg \notin {"auto", "none"} /\ StartWelcome(arg)
  /\ UNCHANGED <<nr_clients, screen, zombies, sigchld, interrupted, sockets, dropped>>

(* on_new_del_client: the server accepts a connection, or finds that a     *)
(* client's socket was closed.                                             *)
FirstFree == CHOOSE c \in Cli : mgClients[c] = 0 /\ \A d \in Cli : mgClients[d] = 0 => c <= d

NewClient(c, p) ==
  /\ phase = "loop"
  /\ Connected # Cli /\ c = FirstFree
  /\ Alive(p) /\ \A d \in Cli \ hungup : mgClients[d] # p
  /\ mgClients' = [mgClients EXCEPT ![c] = p]
  /\ nr_clients' = nr_clients + 1
  /\ UNCHANGED <<phase, pid_dynamic, pid_welcome, exe_cmd, screen, kernel, hungup, closed,
                 history>>

NotTheLast(c) == pid_welcome = mgClients[c] /\ nr_clients > 1  \* mutant: returns
                                                  \*   early without any client
AnyLeaves(c) == c \in hungup      \* mutant: does not look at who left
WelcomeLeaves(c) == pid_welcome = mgClients[c]

DelClient(c) ==
  /\ phase = "loop"
  /\ c \in hungup
  /\ mgClients' = [mgClients EXCEPT ![c] = 0]
  /\ hungup' = hungup \ {c}
  /\ nr_clients' = nr_clients - 1
  /\ IF WelcomeLeaves(c)
     THEN /\ pid_welcome' = 0
          /\ exe_cmd' = FALSE
          /\ IF exe_cmd
             THEN \E e \in exec_app(prog, "command") : prog' = e.prog /\ dropped' = (e.pid = -1)
             ELSE UNCHANGED <<prog, dropped>>
     ELSE UNCHANGED <<pid_welcome, exe_cmd, prog, dropped>>
  /\ UNCHANGED <<phase, pid_dynamic, screen, zombies, sigchld, interrupted, closed, lost>>

-----------------------------------------------------------------------------
(* my_event_hook.  kill(-1, ...) reaches every process but the server.     *)
Reached(pid) == {p \in Pid : Alive(p) /\ pid \in {p, -1}}

EndSession ==
  /\ nr_clients = 0
  /\ phase' = "ended"
  /\ my_tooltip_win' = FALSE
  /\ UNCHANGED <<nr_clients, pid_dynamic, pid_welcome, exe_cmd, my_layers,
                 mgLayers, mgTopmostLayer, kernel, sockets, history>>

KeptPid == pid_dynamic     \* mutant: pid_dynamic keeps its value
ClearedPid == 0

InterruptWallpaper ==
  /\ nr_clients = 1 /\ pid_dynamic # 0
  /\ interrupted' = interrupted \cup Reached(pid_dynamic)
  /\ pid_dynamic' = ClearedPid
  /\ lost' = FALSE
  /\ UNCHANGED <<phase, nr_clients, pid_welcome, exe_cmd, screen, prog, zombies,
                 sigchld, sockets, dropped>>

StartsTwice == pid_dynamic = 0         \* mutant: only one of the two is looked at
MayStart == pid_welcome = 0 /\ pid_dynamic = 0

StartWallpaper ==
  /\ MayStart
  /\ \E d \in exec_app(prog, "dynamic") :
       /\ pid_dynamic' = d.pid
       /\ prog' = d.prog
       /\ lost' = (d.pid = -1)
  /\ UNCHANGED <<phase, nr_clients, pid_welcome, exe_cmd, screen, zombies,
                 sigchld, interrupted, sockets, dropped>>

StartApp ==
  /\ \E a \in exec_app(prog, "app") : prog' = a.prog
  /\ UNCHANGED <<server, screen, zombies, sigchld, interrupted, sockets, history>>

(* my_transit_to_layer: the two layers from left to right and the share of *)
(* the left one at the start and at the end.  In even seconds, when no     *)
(* animation can be made, or for layers not in the list, there is none.    *)
Place(l) == CHOOSE i \in DOMAIN mgLayers : mgLayers[i] = l

NewestLeft(a, b) == Place(a) < Place(b)  \* mutant
LeftOf(a, b) == Len(mgLayers) - Place(a) < Len(mgLayers) - Place(b)

NotAnimated == [left |-> "", right |-> "", from |-> 0, to |-> 0]
Animated(top, to) ==
  IF to = top \/ ~({to, top} \subseteq Range(mgLayers)) THEN NotAnimated
  ELSE IF LeftOf(top, to) THEN [left |-> top, right |-> to, from |-> 95, to |-> 5]
  ELSE [left |-> to, right |-> top, from |-> 5, to |-> 95]

(* ServerSetTopmostLayer shows the transition, which keeps no state.       *)
ServerSetTopmostLayer(l) == mgTopmostLayer' = l

(* create_or_switch_layer, for F9 to F12.                                  *)
SwitchLayer(s) ==
  /\ s \in my_layers
  /\ ServerSetTopmostLayer(s)
  /\ UNCHANGED <<server, my_layers, my_tooltip_win, mgLayers, kernel, sockets, history>>

CreateLayer(s) ==
  /\ s \notin my_layers
  /\ my_layers' = my_layers \cup {s}
  /\ mgLayers' = <<s>> \o mgLayers
  /\ my_tooltip_win' = TRUE
  /\ UNCHANGED <<server, mgTopmostLayer, kernel, sockets, history>>

(* F8: the default layer, which always exists.                             *)
DefaultLayer ==
  /\ ServerSetTopmostLayer("default")
  /\ UNCHANGED <<server, my_layers, my_tooltip_win, mgLayers, kernel, sockets, history>>

KeyDown ==
  /\ phase = "loop"
  /\ \/ EndSession \/ InterruptWallpaper \/ StartWallpaper \/ StartApp
     \/ DefaultLayer
     \/ \E s \in Slot : SwitchLayer(s) \/ CreateLayer(s)

(* child_wait, the handler of SIGCHLD, interrupts the server at any point. *)
OneZombie == {S \in SUBSET zombies : Cardinality(S) = 1}   \* mutant: if, not while
Reaped == {zombies}

child_wait ==
  /\ sigchld
  /\ sigchld' = FALSE
  /\ \E S \in Reaped :
       /\ prog' = [p \in Pid |-> IF p \in S THEN "none" ELSE prog[p]]
       /\ zombies' = zombies \ S
       /\ lost' = (lost \/ pid_dynamic \in S \ interrupted)
       /\ interrupted' = interrupted \ S
  /\ UNCHANGED <<server, screen, sockets, dropped>>

-----------------------------------------------------------------------------
(* The kernel: a process closes its connection and runs on, or ends, which *)
(* closes what it still has open; a child becomes a zombie and SIGCHLD is  *)
(* raised, or stays raised.  Processes that mginit did not start come and  *)
(* go, and may be clients as well.                                         *)
Close(c) ==
  /\ c \in Connected \ hungup
  /\ hungup' = hungup \cup {c}
  /\ closed' = closed \cup ({mgClients[c]} \cap Runs("welcome"))
  /\ UNCHANGED <<server, screen, kernel, mgClients, history>>

Exit(p) ==
  /\ Alive(p)
  /\ hungup' = hungup \cup {c \in Cli : mgClients[c] = p}
  /\ closed' = closed \ {p}
  /\ IF Child(p)
     THEN /\ zombies' = zombies \cup {p}
          /\ sigchld' = TRUE
          /\ UNCHANGED <<prog, interrupted>>
     ELSE /\ prog' = [prog EXCEPT ![p] = "none"]
          /\ interrupted' = interrupted \ {p}
          /\ UNCHANGED <<zombies, sigchld>>
  /\ UNCHANGED <<server, screen, mgClients, history>>

Stranger(p) ==
  /\ prog[p] = "none"
  /\ prog' = [prog EXCEPT ![p] = "stranger"]
  /\ UNCHANGED <<server, screen, zombies, sigchld, interrupted, sockets, history>>

Next ==
  \/ StartupFails
  \/ \E arg \in Argument : MiniGUIMain(arg)
  \/ \E c \in Cli, p \in Pid : NewClient(c, p)
  \/ \E c \in Cli : DelClient(c)
  \/ KeyDown
  \/ phase # "ended" /\ (child_wait \/ \E p \in Pid : Exit(p) \/ Stranger(p))
  \/ phase # "ended" /\ \E c \in Cli : Close(c)

Spec == Init /\ [][Next]_vars

(* The server's loop finds the sockets that were closed, and the kernel    *)
(* delivers the signals that are pending.                                  *)
FairSpec ==
  /\ Spec
  /\ \A c \in Cli : WF_vars(DelClient(c))
  /\ WF_vars(child_wait)

-----------------------------------------------------------------------------
(* A child that has ended is reaped although signals do not queue: as long *)
(* as there is one, SIGCHLD is pending (the loop of child_wait).           *)
NoZombieForgotten == phase # "ended" /\ zombies # {} => sigchld

(* Only a wallpaper gets SIGINT, unless the one that pid_dynamic stood for *)
(* was reaped without having been interrupted, or was never started        *)
(* (my_event_hook, SCANCODE_ESCAPE).                                       *)
SignalHitsWallpaper ==
  [][\A p \in interrupted' \ interrupted : prog[p] = "dynamic" \/ lost]_vars

(* No wallpaper starts beside a wallpaper that was not told to end, nor    *)
(* beside a welcome program that has not closed its connection: pid_welcome *)
(* is cleared when the connection is gone, and the program may still run   *)
(* (my_event_hook, SCANCODE_SPACE).                                        *)
Starts(name) == \E p \in Pid : prog[p] # name /\ prog'[p] = name
OneWallpaper ==
  [][Starts("dynamic") =>
       Runs("welcome") \subseteq closed /\ Runs("dynamic") \subseteq interrupted]_vars

(* The command given to mginit does not start before the welcome program   *)
(* has closed its connection, whatever clients leave and whatever process  *)
(* has its id by then (on_new_del_client).                                 *)
CommandAlone == [][Starts("command") => Runs("welcome") \subseteq closed]_vars

(* Once the welcome program's connection is closed the command is started, *)
(* unless vfork fails then: the command is freed all the same, and dropped *)
(* (on_new_del_client).                                                    *)
CommandFollows ==
  (phase = "loop" /\ exe_cmd /\ \E c \in hungup : mgClients[c] = pid_welcome)
    ~> (Runs("command") # {} \/ dropped)

(* A transition from the topmost layer to the one asked for ends with the  *)
(* larger share at the latter; of the two layers the older is on the left, *)
(* and the way back is the same picture reversed (my_transit_to_layer).    *)
Reversed(a) == [left |-> a.left, right |-> a.right, from |-> a.to, to |-> a.from]
TransitionShowsTarget ==
  [][LET there == Animated(mgTopmostLayer, mgTopmostLayer')
         back  == Animated(mgTopmostLayer', mgTopmostLayer)
         share(l) == IF l = there.left THEN there.to ELSE 100 - there.to
     IN  mgTopmostLayer' # mgTopmostLayer =>
           /\ share(mgTopmostLayer') > share(mgTopmostLayer)
           /\ Place(there.left) > Place(there.right)
           /\ back = Reversed(there)]_vars
=============================================================================
