------------------------- MODULE SampleServer_proofs -------------------------
(***************************************************************************)
(* Proofs about mginit, for any number of process ids, clients and layers: *)
(* children are reaped, signals reach the wallpaper only, wallpapers do    *)
(* not run twice, and a transition ends at the layer asked for.            *)
(***************************************************************************)
EXTENDS SampleServer, WellFoundedInduction, TLAPS

Program == {"none", "stranger", "dynamic", "app", "welcome", "command"}
ExecPid == Pid \cup {0, -1}

TypeOK ==
  /\ phase \in {"startup", "loop", "ended"}
  /\ pid_dynamic \in ExecPid /\ pid_welcome \in ExecPid
  /\ my_layers \subseteq Slot
  /\ prog \in [Pid -> Program]
  /\ zombies \subseteq Pid /\ interrupted \subseteq Pid
  /\ sigchld \in BOOLEAN /\ lost \in BOOLEAN
  /\ mgClients \in [Cli -> Pid \cup {0}]
  /\ hungup \subseteq Cli /\ closed \subseteq Pid

(* Before the loop nothing was started and nobody is connected.            *)
Fresh ==
  phase = "startup" =>
    /\ \A p \in Pid : prog[p] \in {"none", "stranger"}
    /\ pid_dynamic = 0 /\ zombies = {} /\ interrupted = {} /\ hungup = {}
    /\ \A c \in Cli : mgClients[c] = 0

(* Only children become zombies; a signal is remembered of what runs.      *)
Processes ==
  /\ \A p \in zombies : prog[p] \notin {"none", "stranger"}
  /\ \A p \in interrupted : prog[p] # "none"

(* What pid_dynamic stands for, and which wallpapers it does not.          *)
Wallpaper ==
  /\ ~lost /\ pid_dynamic # 0 =>
       pid_dynamic \in Pid \ interrupted /\ prog[pid_dynamic] = "dynamic"
  /\ \A p \in Pid : prog[p] = "dynamic" /\ p \notin zombies =>
       p \in interrupted \/ p = pid_dynamic

(* The welcome program is known by its id until it closes its connection.  *)
Welcome ==
  /\ \A p \in Pid : prog[p] = "welcome" /\ p \notin zombies => p = pid_welcome \/ p \in closed
  /\ \A c \in hungup :
       /\ mgClients[c] \in Pid
       /\ prog[mgClients[c]] = "welcome" => mgClients[c] \in zombies \cup closed

(* The layers of the server are the default one and those of the slots,    *)
(* each once.                                                              *)
Layers ==
  /\ mgLayers \in Seq(Slot \cup {"default"})
  /\ \A l : l \in my_layers \cup {"default"} <=> \E i \in 1 .. Len(mgLayers) : mgLayers[i] = l
  /\ \A i, j \in 1 .. Len(mgLayers) : mgLayers[i] = mgLayers[j] => i = j
  /\ mgTopmostLayer \in my_layers \cup {"default"}

IInv ==
  TypeOK /\ Fresh /\ Processes /\ Wallpaper /\ Welcome /\ Layers /\ NoZombieForgotten

-----------------------------------------------------------------------------
(* What exec_app returns: -1 and the processes as they are, or the id of a *)
(* new one.                                                                *)
LEMMA ExecTypes ==
  ASSUME NEW t \in [Pid -> Program], NEW name \in Program, NEW e \in exec_app(t, name)
  PROVE  /\ e.pid \in ExecPid \ {0} /\ e.prog \in [Pid -> Program]
         /\ \/ e.pid = -1 /\ e.prog = t
            \/ /\ e.pid \in Pid /\ t[e.pid] = "none"
               /\ e.prog = [t EXCEPT ![e.pid] = name]
PROOF
  <1>1. CASE e = [pid |-> -1, prog |-> t]
    <2>1. e.pid = -1 /\ e.prog = t
      BY <1>1
    <2>2. -1 \in ExecPid \ {0}
      BY DEF ExecPid
    <2> QED
      BY <2>1, <2>2
  <1>2. ASSUME NEW p \in Pid, t[p] = "none", e = [pid |-> p, prog |-> [t EXCEPT ![p] = name]]
        PROVE  /\ e.pid \in Pid /\ t[e.pid] = "none" /\ e.pid # 0
               /\ e.prog = [t EXCEPT ![e.pid] = name] /\ e.prog \in [Pid -> Program]
    <2>1. e.pid = p
      BY <1>2
    <2>2. e.prog = [t EXCEPT ![p] = name]
      BY <1>2
    <2>3. p # 0
      BY ServerAssumption
    <2>4. [t EXCEPT ![p] = name] \in [Pid -> Program]
      OBVIOUS
    <2> QED
      BY <1>2, <2>1, <2>2, <2>3, <2>4
  <1>3. e = [pid |-> -1, prog |-> t] \/
        \E p \in Pid : t[p] = "none" /\ e = [pid |-> p, prog |-> [t EXCEPT ![p] = name]]
    BY Zenon DEF exec_app
  <1>4. CASE \E p \in Pid : t[p] = "none" /\ e = [pid |-> p, prog |-> [t EXCEPT ![p] = name]]
    BY <1>2, <1>4 DEF ExecPid
  <1> QED
    BY <1>1, <1>3, <1>4

(* Processes that run go on, and new ones run one of the programs.         *)
Started(t, u, programs) ==
  /\ u \in [Pid -> Program]
  /\ \A p \in Pid : u[p] = t[p] \/ (t[p] = "none" /\ u[p] \in programs)

LEMMA ExecStarts ==
  ASSUME NEW t \in [Pid -> Program], NEW name \in Program, NEW e \in exec_app(t, name)
  PROVE  Started(t, e.prog, {name})
PROOF
  <1>1. /\ e.prog \in [Pid -> Program]
        /\ \/ e.prog = t
           \/ /\ e.pid \in Pid /\ t[e.pid] = "none"
              /\ e.prog = [t EXCEPT ![e.pid] = name]
    BY ExecTypes
  <1> QED
    BY <1>1 DEF Started

(* Starting a program that is neither the wallpaper nor the welcome one.   *)
LEMMA StartKeeps ==
  ASSUME IInv, NEW programs \in SUBSET {"app", "command", "stranger"}, Started(prog, prog', programs),
         phase # "startup" \/ programs = {"stranger"},
         UNCHANGED <<phase, pid_dynamic, pid_welcome, screen, zombies, sigchld, interrupted, sockets, lost>>
  PROVE  IInv'
PROOF
  <1>1. /\ UNCHANGED <<my_layers, mgLayers, mgTopmostLayer, mgClients, hungup, closed>>
        /\ \A p \in Pid : prog[p] # "none" => prog'[p] = prog[p]
        /\ \A p \in Pid : prog[p] = "none" => prog'[p] \in {"none", "app", "command", "stranger"}
        /\ prog' \in [Pid -> Program]
    BY DEF screen, sockets, Started
  <1>2. TypeOK'
    BY <1>1 DEF IInv, TypeOK
  <1>3. Fresh'
    BY DEF IInv, Fresh, Started, sockets
  <1>4. Processes' /\ Wallpaper'
    BY <1>1 DEF IInv, TypeOK, Processes, Wallpaper
  <1>5. Welcome'
    BY <1>1 DEF IInv, TypeOK, Processes, Welcome
  <1>6. Layers' /\ NoZombieForgotten'
    BY <1>1 DEF IInv, Layers, NoZombieForgotten
  <1> QED
    BY <1>2, <1>3, <1>4, <1>5, <1>6 DEF IInv

-----------------------------------------------------------------------------
LEMMA InitHolds == Init => IInv
PROOF
  <1> SUFFICES ASSUME Init PROVE IInv
    OBVIOUS
  <1>1. TypeOK
    BY DEF Init, TypeOK, Program, ExecPid
  <1>2. Fresh /\ Processes /\ Welcome /\ NoZombieForgotten
    BY DEF Init, Fresh, Processes, Welcome, NoZombieForgotten
  <1>3. Wallpaper
    BY DEF Init, Wallpaper
  <1>4. Layers
    BY DEF Init, Layers
  <1> QED
    BY <1>1, <1>2, <1>3, <1>4 DEF IInv

(* The start of the server.                                                *)

LEMMA AutoStarts ==
  ASSUME IInv, phase = "startup", StartAuto
  PROVE  /\ prog' \in [Pid -> Program] /\ pid_dynamic' \in ExecPid
         /\ \A p \in Pid : prog'[p] = prog[p] \/ (prog[p] = "none" /\ prog'[p] \in {"dynamic", "app"})
         /\ \A p \in Pid : prog'[p] = "dynamic" => p = pid_dynamic'
         /\ ~lost' => pid_dynamic' \in Pid /\ prog'[pid_dynamic'] = "dynamic"
         /\ lost' \in BOOLEAN
         /\ UNCHANGED pid_welcome
PROOF
  <1>1. PICK d \in exec_app(prog, "dynamic") : \E s \in exec_app(d.prog, "app") :
          \E e \in exec_app(s.prog, "app") : \E v \in exec_app(e.prog, "app") :
            /\ pid_dynamic' = d.pid /\ prog' = v.prog /\ lost' = (d.pid = -1)
            /\ UNCHANGED <<pid_welcome, exe_cmd>>
    BY DEF StartAuto
  <1>2. PICK s \in exec_app(d.prog, "app") :
          \E e \in exec_app(s.prog, "app") : \E v \in exec_app(e.prog, "app") :
            /\ pid_dynamic' = d.pid /\ prog' = v.prog /\ lost' = (d.pid = -1)
            /\ UNCHANGED <<pid_welcome, exe_cmd>>
    BY <1>1
  <1>3. PICK e \in exec_app(s.prog, "app") : \E v \in exec_app(e.prog, "app") :
          /\ pid_dynamic' = d.pid /\ prog' = v.prog /\ lost' = (d.pid = -1)
          /\ UNCHANGED <<pid_welcome, exe_cmd>>
    BY <1>2
  <1>4. PICK v \in exec_app(e.prog, "app") :
          /\ pid_dynamic' = d.pid /\ prog' = v.prog /\ lost' = (d.pid = -1)
          /\ UNCHANGED <<pid_welcome, exe_cmd>>
    BY <1>3
  <1>5. prog \in [Pid -> Program] /\ "dynamic" \in Program /\ "app" \in Program
    BY DEF IInv, TypeOK, Program
  <1>6. /\ d.pid \in ExecPid \ {0} /\ d.prog \in [Pid -> Program]
        /\ \/ d.pid = -1 /\ d.prog = prog
           \/ /\ d.pid \in Pid /\ prog[d.pid] = "none"
              /\ d.prog = [prog EXCEPT ![d.pid] = "dynamic"]
    BY <1>5, ExecTypes
  <1>7. Started(d.prog, s.prog, {"app"})
    BY <1>5, <1>6, ExecStarts
  <1>8. Started(s.prog, e.prog, {"app"})
    BY <1>5, <1>7, ExecStarts DEF Started
  <1>9. Started(e.prog, v.prog, {"app"})
    BY <1>5, <1>8, ExecStarts DEF Started
  <1>10. Started(d.prog, v.prog, {"app"})
    BY <1>7, <1>8, <1>9 DEF Started
  <1>11. \A p \in Pid : prog[p] \in {"none", "stranger"}
    BY DEF IInv, Fresh
  <1> HIDE DEF Started
  <1>12. v.prog \in [Pid -> Program]
    BY <1>10 DEF Started
  <1>13. \A p \in Pid : v.prog[p] = d.prog[p] \/ (d.prog[p] = "none" /\ v.prog[p] = "app")
    BY <1>10 DEF Started
  <1>14. \A p \in Pid : d.prog[p] = prog[p] \/ (p = d.pid /\ prog[p] = "none" /\ d.prog[p] = "dynamic")
    BY <1>5, <1>6
  <1>15. /\ \A p \in Pid : v.prog[p] = prog[p] \/ (prog[p] = "none" /\ v.prog[p] \in {"dynamic", "app"})
         /\ \A p \in Pid : v.prog[p] = "dynamic" => p = d.pid
    BY <1>11, <1>13, <1>14
  <1>16. d.pid # -1 => d.pid \in Pid /\ v.prog[d.pid] = "dynamic"
    <2>1. d.pid # -1 => d.pid \in Pid /\ d.prog[d.pid] = "dynamic"
      BY <1>5, <1>6
    <2> QED
      BY <1>13, <2>1
  <1> QED
    BY <1>4, <1>6, <1>12, <1>15, <1>16

LEMMA MainPreserves ==
  ASSUME IInv, NEW arg, MiniGUIMain(arg)
  PROVE  IInv'
PROOF
  <1>1. /\ phase = "startup" /\ phase' = "loop"
        /\ UNCHANGED <<nr_clients, screen, zombies, sigchld, interrupted, sockets>>
        /\ StartAuto \/ StartNone \/ StartWelcome(arg)
    BY DEF MiniGUIMain
  <1>2. /\ \A p \in Pid : prog[p] \in {"none", "stranger"}
        /\ pid_dynamic = 0 /\ zombies = {} /\ interrupted = {} /\ hungup = {}
    BY <1>1 DEF IInv, Fresh
  <1>3. UNCHANGED <<my_layers, mgLayers, mgTopmostLayer, mgClients, hungup, closed, zombies, sigchld, interrupted>>
    BY <1>1 DEF screen, sockets
  <1>4. Fresh' /\ Layers' /\ NoZombieForgotten' /\ Processes'
    BY <1>1, <1>2, <1>3 DEF IInv, Fresh, Layers, NoZombieForgotten, Processes
  <1>5. CASE StartNone
    <2>1. UNCHANGED <<pid_dynamic, pid_welcome, prog, lost>>
      BY <1>5 DEF StartNone
    <2>2. TypeOK' /\ Wallpaper' /\ Welcome'
      BY <1>1, <1>2, <1>3, <2>1 DEF IInv, TypeOK, Wallpaper, Welcome
    <2> QED
      BY <1>4, <2>2 DEF IInv
  <1>6. CASE StartAuto
    <2>1. TypeOK'
      BY <1>1, <1>3, <1>6, AutoStarts DEF IInv, TypeOK
    <2>2. Wallpaper'
      BY <1>1, <1>2, <1>3, <1>6, AutoStarts DEF Wallpaper
    <2>3. Welcome'
      <3>1. \A p \in Pid : prog'[p] # "welcome"
        BY <1>1, <1>2, <1>6, AutoStarts
      <3> QED
        BY <1>2, <1>3, <3>1 DEF Welcome
    <2> QED
      BY <1>4, <2>1, <2>2, <2>3 DEF IInv
  <1>7. CASE StartWelcome(arg)
    <2>1. PICK w \in exec_app(prog, "welcome") : pid_welcome' = w.pid /\ prog' = w.prog
      BY <1>7 DEF StartWelcome
    <2>2. UNCHANGED <<pid_dynamic, lost>>
      BY <1>7 DEF StartWelcome
    <2>3. prog \in [Pid -> Program] /\ "welcome" \in Program
      BY DEF IInv, TypeOK, Program
    <2>4. /\ pid_welcome' \in ExecPid /\ prog' \in [Pid -> Program]
          /\ \/ prog' = prog
             \/ /\ pid_welcome' \in Pid /\ prog[pid_welcome'] = "none"
                /\ prog' = [prog EXCEPT ![pid_welcome'] = "welcome"]
      BY <2>1, <2>3, ExecTypes
    <2>5. \A p \in Pid : prog'[p] \in {"none", "stranger"} \/ (prog'[p] = "welcome" /\ p = pid_welcome')
      BY <1>2, <2>3, <2>4
    <2>6. TypeOK'
      BY <1>1, <1>3, <2>2, <2>4 DEF IInv, TypeOK
    <2>7. Wallpaper' /\ Welcome'
      BY <1>2, <1>3, <2>2, <2>5 DEF Wallpaper, Welcome
    <2> QED
      BY <1>4, <2>6, <2>7 DEF IInv
  <1> QED
    BY <1>1, <1>5, <1>6, <1>7

-----------------------------------------------------------------------------
(* Clients.                                                                *)

(* A connection is put where there was none.                               *)
LEMMA FirstFreeIsFree ==
  ASSUME IInv, Connected # Cli
  PROVE  FirstFree \in Cli /\ mgClients[FirstFree] = 0
PROOF
  <1> DEFINE R == OpToRel(<, Nat)
             S == {c \in Cli : mgClients[c] = 0}
  <1>1. S # {} /\ S \subseteq Nat
    BY ServerAssumption DEF Connected
  <1>2. IsWellFoundedOn(R, Nat)
    BY NatLessThanWellFounded
  <1>3. \A x, y \in Nat : x < y => <<x, y>> \in R
    BY DEF OpToRel
  <1>4. PICK c \in S : \A d \in S : <<d, c>> \notin R
    <2> HIDE DEF R, S
    <2> QED
      BY <1>1, <1>2, WFMin
  <1>5. \A d \in S : c <= d
    <2> TAKE d \in S
    <2>1. c \in Nat /\ d \in Nat
      BY <1>1
    <2>2. ~(d < c)
      <3> HIDE DEF R, S
      <3> QED
        BY <1>3, <1>4, <2>1
    <2> QED
      BY <2>1, <2>2
  <1>6. \E x \in Cli : mgClients[x] = 0 /\ \A d \in Cli : mgClients[d] = 0 => x <= d
    BY <1>4, <1>5
  <1> QED
    BY <1>6 DEF FirstFree

LEMMA NewClientPreserves ==
  ASSUME IInv, NEW c \in Cli, NEW p \in Pid, NewClient(c, p)
  PROVE  IInv'
PROOF
  <1>1. /\ phase = "loop" /\ mgClients[c] = 0
        /\ mgClients' = [mgClients EXCEPT ![c] = p]
        /\ UNCHANGED <<phase, pid_dynamic, pid_welcome, screen, kernel, hungup, closed, lost>>
    BY FirstFreeIsFree DEF NewClient, history
  <1>2. UNCHANGED <<my_layers, mgLayers, mgTopmostLayer, prog, zombies, sigchld, interrupted>>
    BY <1>1 DEF screen, kernel
  <1>3. c \notin hungup
    BY <1>1, ServerAssumption DEF IInv, Welcome
  <1>4. TypeOK'
    BY <1>1, <1>2 DEF IInv, TypeOK
  <1>5. Fresh' /\ Processes' /\ Wallpaper' /\ Layers' /\ NoZombieForgotten'
    BY <1>1, <1>2 DEF IInv, Fresh, Processes, Wallpaper, Layers, NoZombieForgotten
  <1>6. Welcome'
    <2>1. \A d \in hungup : mgClients'[d] = mgClients[d]
      BY <1>1, <1>3 DEF IInv, TypeOK
    <2> QED
      BY <1>1, <1>2, <2>1 DEF IInv, Welcome
  <1> QED
    BY <1>4, <1>5, <1>6 DEF IInv

LEMMA DelClientPreserves ==
  ASSUME IInv, NEW c \in Cli, DelClient(c)
  PROVE  IInv'
PROOF
  <1>1. /\ phase = "loop" /\ c \in hungup
        /\ mgClients' = [mgClients EXCEPT ![c] = 0]
        /\ hungup' = hungup \ {c}
        /\ UNCHANGED <<phase, pid_dynamic, screen, zombies, sigchld, interrupted, closed, lost>>
    BY DEF DelClient
  <1>2. UNCHANGED <<my_layers, mgLayers, mgTopmostLayer>>
    BY <1>1 DEF screen
  <1>3. prog \in [Pid -> Program] /\ "command" \in Program
    BY DEF IInv, TypeOK, Program
  <1>4. Started(prog, prog', {"command"})
    <2>1. CASE \E e \in exec_app(prog, "command") : prog' = e.prog
      BY <1>3, <2>1, ExecStarts
    <2>2. CASE UNCHANGED prog
      BY <1>3, <2>2 DEF Started
    <2> QED
      BY <2>1, <2>2 DEF DelClient
  <1>5. /\ \A p \in Pid : prog[p] # "none" => prog'[p] = prog[p]
        /\ \A p \in Pid : prog[p] = "none" => prog'[p] \in {"none", "command"}
        /\ prog' \in [Pid -> Program]
    BY <1>4 DEF Started
  <1>6. \/ UNCHANGED pid_welcome
        \/ pid_welcome' = 0 /\ pid_welcome = mgClients[c]
    BY DEF DelClient, WelcomeLeaves
  <1>7. TypeOK'
    BY <1>1, <1>2, <1>5, <1>6 DEF IInv, TypeOK, ExecPid
  <1>8. Fresh' /\ Layers' /\ NoZombieForgotten'
    BY <1>1, <1>2 DEF IInv, Fresh, Layers, NoZombieForgotten
  <1>9. Processes' /\ Wallpaper'
    BY <1>1, <1>5 DEF IInv, TypeOK, Processes, Wallpaper
  <1>10. Welcome'
    <2>1. \A d \in hungup' : mgClients'[d] = mgClients[d]
      BY <1>1 DEF IInv, TypeOK
    <2>2. \A p \in Pid : prog'[p] = "welcome" => prog[p] = "welcome"
      BY <1>5
    <2>3. \A p \in Pid : prog'[p] = "welcome" /\ p \notin zombies' => p = pid_welcome' \/ p \in closed'
      BY <1>1, <1>6, <2>2 DEF IInv, Welcome
    <2>4. \A d \in hungup' :
            /\ mgClients'[d] \in Pid
            /\ prog'[mgClients'[d]] = "welcome" => mgClients'[d] \in zombies' \cup closed'
      BY <1>1, <2>1, <2>2 DEF IInv, Welcome
    <2> QED
      BY <2>3, <2>4 DEF Welcome
  <1> QED
    BY <1>7, <1>8, <1>9, <1>10 DEF IInv

-----------------------------------------------------------------------------
(* Keys.                                                                   *)

LEMMA EndPreserves ==
  ASSUME IInv, StartupFails \/ EndSession
  PROVE  IInv'
PROOF
  <1>1. /\ phase' = "ended"
        /\ UNCHANGED <<pid_dynamic, pid_welcome, my_layers, mgLayers, mgTopmostLayer, kernel, sockets, lost>>
    BY DEF StartupFails, EndSession, screen, history
  <1>2. UNCHANGED <<prog, zombies, sigchld, interrupted, mgClients, hungup, closed>>
    BY <1>1 DEF kernel, sockets
  <1>3. TypeOK'
    BY <1>1, <1>2 DEF IInv, TypeOK
  <1>4. Fresh' /\ Processes' /\ Wallpaper' /\ Welcome' /\ Layers' /\ NoZombieForgotten'
    BY <1>1, <1>2 DEF IInv, Fresh, Processes, Wallpaper, Welcome, Layers, NoZombieForgotten
  <1> QED
    BY <1>3, <1>4 DEF IInv

(* Who gets the signal.                                                    *)
LEMMA ReachedAre ==
  ASSUME IInv, NEW p \in Reached(pid_dynamic), pid_dynamic # 0
  PROVE  /\ p \in Pid /\ prog[p] # "none"
         /\ ~lost => p = pid_dynamic /\ prog[p] = "dynamic"
PROOF
  <1>1. p \in Pid /\ prog[p] # "none" /\ (pid_dynamic = p \/ pid_dynamic = -1)
    BY DEF Reached, Alive
  <1>2. ~lost => pid_dynamic \in Pid /\ prog[pid_dynamic] = "dynamic"
    BY DEF IInv, Wallpaper
  <1>3. \A q \in Pid : q # -1
    <2>1. \A q \in Pid : q \in Nat
      BY ServerAssumption
    <2>2. \A q \in Nat : q # -1
      OBVIOUS
    <2> QED
      BY <2>1, <2>2
  <1> QED
    BY <1>1, <1>2, <1>3

LEMMA InterruptPreserves ==
  ASSUME IInv, phase = "loop", InterruptWallpaper
  PROVE  IInv'
PROOF
  <1>1. /\ pid_dynamic # 0 /\ pid_dynamic' = 0 /\ lost' = FALSE
        /\ interrupted' = interrupted \cup Reached(pid_dynamic)
        /\ UNCHANGED <<phase, pid_welcome, screen, prog, zombies, sigchld, sockets>>
    BY DEF InterruptWallpaper, ClearedPid
  <1>2. UNCHANGED <<my_layers, mgLayers, mgTopmostLayer, mgClients, hungup, closed>>
    BY <1>1 DEF screen, sockets
  <1>3. \A p \in Reached(pid_dynamic) : p \in Pid /\ prog[p] # "none"
    BY <1>1, ReachedAre
  <1>4. TypeOK'
    BY <1>1, <1>2, <1>3 DEF IInv, TypeOK, ExecPid
  <1>5. Fresh' /\ Processes' /\ Welcome' /\ Layers' /\ NoZombieForgotten'
    BY <1>1, <1>2, <1>3 DEF IInv, Fresh, Processes, Welcome, Layers, NoZombieForgotten
  <1>6. Wallpaper'
    <2>1. \A p \in Pid : prog[p] = "dynamic" /\ p \notin zombies /\ p = pid_dynamic => p \in Reached(pid_dynamic)
      BY DEF Reached, Alive
    <2> QED
      BY <1>1, <2>1 DEF IInv, Wallpaper
  <1> QED
    BY <1>4, <1>5, <1>6 DEF IInv

LEMMA WallpaperStarts ==
  ASSUME IInv, StartWallpaper
  PROVE  /\ pid_welcome = 0 /\ pid_dynamic = 0
         /\ pid_dynamic' \in ExecPid /\ prog' \in [Pid -> Program] /\ lost' \in BOOLEAN
         /\ \A p \in Pid : prog'[p] = prog[p] \/ (prog[p] = "none" /\ prog'[p] = "dynamic" /\ p = pid_dynamic')
         /\ ~lost' => pid_dynamic' \in Pid /\ prog[pid_dynamic'] = "none" /\ prog'[pid_dynamic'] = "dynamic"
PROOF
  <1>1. PICK d \in exec_app(prog, "dynamic") :
          pid_dynamic' = d.pid /\ prog' = d.prog /\ lost' = (d.pid = -1)
    BY DEF StartWallpaper
  <1>2. prog \in [Pid -> Program] /\ "dynamic" \in Program
    BY DEF IInv, TypeOK, Program
  <1>3. /\ d.pid \in ExecPid \ {0} /\ d.prog \in [Pid -> Program]
        /\ \/ d.pid = -1 /\ d.prog = prog
           \/ /\ d.pid \in Pid /\ prog[d.pid] = "none"
              /\ d.prog = [prog EXCEPT ![d.pid] = "dynamic"]
    BY <1>2, ExecTypes
  <1>4. pid_welcome = 0 /\ pid_dynamic = 0
    BY DEF StartWallpaper, MayStart
  <1> QED
    BY <1>1, <1>2, <1>3, <1>4

LEMMA StartWallpaperPreserves ==
  ASSUME IInv, phase = "loop", StartWallpaper
  PROVE  IInv'
PROOF
  <1>1. UNCHANGED <<phase, pid_welcome, screen, zombies, sigchld, interrupted, sockets>>
    BY DEF StartWallpaper
  <1>2. UNCHANGED <<my_layers, mgLayers, mgTopmostLayer, mgClients, hungup, closed>>
    BY <1>1 DEF screen, sockets
  <1>3. TypeOK'
    BY <1>1, <1>2, WallpaperStarts DEF IInv, TypeOK
  <1>4. Fresh' /\ Layers' /\ NoZombieForgotten'
    BY <1>1, <1>2 DEF IInv, Fresh, Layers, NoZombieForgotten
  <1>5. Processes'
    BY <1>1, WallpaperStarts DEF IInv, TypeOK, Processes
  <1>6. Wallpaper'
    <2>1. 0 \notin Pid
      BY ServerAssumption
    <2>2. ~lost' => pid_dynamic' \in Pid \ interrupted /\ prog'[pid_dynamic'] = "dynamic"
      BY WallpaperStarts DEF IInv, Processes
    <2>3. \A p \in Pid : prog[p] = "dynamic" /\ p \notin zombies => p \in interrupted
      BY <2>1, WallpaperStarts DEF IInv, Wallpaper
    <2>4. \A p \in Pid : prog'[p] = "dynamic" => prog[p] = "dynamic" \/ p = pid_dynamic'
      BY WallpaperStarts
    <2> QED
      BY <1>1, <2>2, <2>3, <2>4 DEF Wallpaper
  <1>7. Welcome'
    BY <1>1, <1>2, WallpaperStarts DEF IInv, Welcome
  <1> QED
    BY <1>3, <1>4, <1>5, <1>6, <1>7 DEF IInv

LEMMA StartAppPreserves ==
  ASSUME IInv, phase = "loop", StartApp
  PROVE  IInv'
PROOF
  <1>1. PICK a \in exec_app(prog, "app") : prog' = a.prog
    BY DEF StartApp
  <1>2. prog \in [Pid -> Program] /\ "app" \in Program
    BY DEF IInv, TypeOK, Program
  <1>3. Started(prog, prog', {"app"})
    BY <1>1, <1>2, ExecStarts
  <1>4. UNCHANGED <<phase, pid_dynamic, pid_welcome, screen, zombies, sigchld, interrupted, sockets, lost>>
    BY DEF StartApp, server, history
  <1> QED
    BY <1>3, <1>4, StartKeeps

LEMMA LayerPreserves ==
  ASSUME IInv, DefaultLayer \/ \E s \in Slot : SwitchLayer(s) \/ CreateLayer(s)
  PROVE  IInv'
PROOF
  <1>1. UNCHANGED <<server, kernel, sockets, lost>>
    BY DEF DefaultLayer, SwitchLayer, CreateLayer, history
  <1>2. UNCHANGED <<phase, pid_dynamic, pid_welcome, prog, zombies, sigchld, interrupted, mgClients, hungup, closed, lost>>
    BY <1>1 DEF server, kernel, sockets
  <1>3. my_layers' \subseteq Slot
    BY DEF DefaultLayer, SwitchLayer, CreateLayer, IInv, TypeOK
  <1>4. TypeOK'
    BY <1>2, <1>3 DEF IInv, TypeOK
  <1>5. Fresh' /\ Processes' /\ Wallpaper' /\ Welcome' /\ NoZombieForgotten'
    BY <1>2 DEF IInv, Fresh, Processes, Wallpaper, Welcome, NoZombieForgotten
  <1>6. CASE DefaultLayer \/ \E s \in Slot : SwitchLayer(s)
    <2>1. UNCHANGED <<my_layers, mgLayers>> /\ mgTopmostLayer' \in my_layers \cup {"default"}
      BY <1>6 DEF DefaultLayer, SwitchLayer, ServerSetTopmostLayer
    <2>2. Layers'
      BY <2>1 DEF IInv, Layers
    <2> QED
      BY <1>4, <1>5, <2>2 DEF IInv
  <1>7. ASSUME NEW s \in Slot, CreateLayer(s)
        PROVE  Layers'
    <2>1. /\ s \notin my_layers /\ my_layers' = my_layers \cup {s}
          /\ mgLayers' = <<s>> \o mgLayers /\ UNCHANGED mgTopmostLayer
      BY <1>7 DEF CreateLayer
    <2>2. s # "default"
      BY ServerAssumption
    <2>3. mgLayers \in Seq(Slot \cup {"default"}) /\ <<s>> \in Seq(Slot \cup {"default"})
      BY DEF IInv, Layers
    <2>4. /\ mgLayers' \in Seq(Slot \cup {"default"}) /\ Len(mgLayers') = Len(mgLayers) + 1
          /\ Len(mgLayers) \in Nat
          /\ mgLayers'[1] = s /\ \A i \in 1 .. Len(mgLayers) : mgLayers'[i + 1] = mgLayers[i]
      BY <2>1, <2>3
    <2>5. \A i \in 1 .. Len(mgLayers') : i = 1 \/ (i - 1 \in 1 .. Len(mgLayers) /\ mgLayers'[i] = mgLayers[i - 1])
      <3> TAKE i \in 1 .. Len(mgLayers')
      <3>1. i = 1 \/ i - 1 \in 1 .. Len(mgLayers)
        BY <2>4
      <3>2. i - 1 \in 1 .. Len(mgLayers) => mgLayers'[(i - 1) + 1] = mgLayers[i - 1]
        BY <2>4
      <3>3. (i - 1) + 1 = i
        BY <2>4
      <3> QED
        BY <3>1, <3>2, <3>3
    <2>6. \A i \in 1 .. Len(mgLayers) : mgLayers[i] # s
      BY <2>1, <2>2 DEF IInv, Layers
    <2>7. \A l : l \in my_layers' \cup {"default"} <=> \E i \in 1 .. Len(mgLayers') : mgLayers'[i] = l
      <3> TAKE l
      <3>1. CASE l = s
        BY <2>1, <2>4, <3>1
      <3>2. CASE l # s
        <4>1. ASSUME l \in my_layers' \cup {"default"}
              PROVE  \E i \in 1 .. Len(mgLayers') : mgLayers'[i] = l
          <5>1. PICK i \in 1 .. Len(mgLayers) : mgLayers[i] = l
            BY <2>1, <3>2, <4>1 DEF IInv, Layers
          <5>2. i + 1 \in 1 .. Len(mgLayers') /\ mgLayers'[i + 1] = l
            BY <2>4, <5>1
          <5> QED
            BY <5>2
        <4>2. ASSUME NEW i \in 1 .. Len(mgLayers'), mgLayers'[i] = l
              PROVE  l \in my_layers' \cup {"default"}
          <5>1. i - 1 \in 1 .. Len(mgLayers) /\ mgLayers[i - 1] = l
            BY <2>4, <2>5, <3>2, <4>2
          <5> QED
            BY <2>1, <5>1 DEF IInv, Layers
        <4> QED
          BY <4>1, <4>2
      <3> QED
        BY <3>1, <3>2
    <2>8. \A i, j \in 1 .. Len(mgLayers') : mgLayers'[i] = mgLayers'[j] => i = j
      <3> TAKE i, j \in 1 .. Len(mgLayers')
      <3> HAVE mgLayers'[i] = mgLayers'[j]
      <3>1. CASE i = 1 \/ j = 1
        BY <2>4, <2>5, <2>6, <3>1
      <3>2. CASE i # 1 /\ j # 1
        <4>1. /\ i - 1 \in 1 .. Len(mgLayers) /\ j - 1 \in 1 .. Len(mgLayers)
              /\ mgLayers[i - 1] = mgLayers[j - 1]
          BY <2>5, <3>2
        <4>2. i - 1 = j - 1
          BY <4>1 DEF IInv, Layers
        <4> QED
          BY <2>4, <4>2
      <3> QED
        BY <3>1, <3>2
    <2>9. mgTopmostLayer' \in my_layers' \cup {"default"}
      BY <2>1 DEF IInv, Layers
    <2> QED
      BY <2>4, <2>7, <2>8, <2>9 DEF Layers
  <1> QED
    BY <1>4, <1>5, <1>6, <1>7 DEF IInv

-----------------------------------------------------------------------------
(* Processes end, are reaped, and others come.                             *)

LEMMA ReapPreserves ==
  ASSUME IInv, child_wait
  PROVE  IInv'
PROOF
  <1>1. /\ prog' = [p \in Pid |-> IF p \in zombies THEN "none" ELSE prog[p]]
        /\ zombies' = {} /\ sigchld' = FALSE
        /\ lost' = (lost \/ pid_dynamic \in zombies \ interrupted)
        /\ interrupted' = interrupted \ zombies
        /\ UNCHANGED <<server, screen, sockets>>
    BY DEF child_wait, Reaped
  <1>2. UNCHANGED <<phase, pid_dynamic, pid_welcome, my_layers, mgLayers, mgTopmostLayer, mgClients, hungup, closed>>
    BY <1>1 DEF server, screen, sockets
  <1>3. TypeOK'
    BY <1>1, <1>2 DEF IInv, TypeOK, Program
  <1>4. Fresh' /\ Processes' /\ Layers' /\ NoZombieForgotten'
    BY <1>1, <1>2 DEF IInv, TypeOK, Fresh, Processes, Layers, NoZombieForgotten
  <1>5. Wallpaper'
    BY <1>1, <1>2 DEF IInv, TypeOK, Wallpaper
  <1>6. Welcome'
    BY <1>1, <1>2 DEF IInv, TypeOK, Welcome
  <1> QED
    BY <1>3, <1>4, <1>5, <1>6 DEF IInv

LEMMA ClosePreserves ==
  ASSUME IInv, NEW c \in Cli, Close(c)
  PROVE  IInv'
PROOF
  <1>1. /\ mgClients[c] \in Pid
        /\ hungup' = hungup \cup {c}
        /\ closed' = closed \cup ({mgClients[c]} \cap Runs("welcome"))
        /\ UNCHANGED <<server, screen, kernel, mgClients, lost>>
    BY DEF Close, Connected, IInv, TypeOK, history
  <1>2. UNCHANGED <<phase, pid_dynamic, pid_welcome, my_layers, mgLayers, mgTopmostLayer,
                    prog, zombies, sigchld, interrupted>>
    BY <1>1 DEF server, screen, kernel
  <1>3. TypeOK'
    BY <1>1, <1>2 DEF IInv, TypeOK
  <1>4. phase # "startup"
    BY <1>1, ServerAssumption DEF IInv, Fresh
  <1>5. Fresh' /\ Processes' /\ Wallpaper' /\ Layers' /\ NoZombieForgotten'
    BY <1>1, <1>2, <1>4 DEF IInv, Fresh, Processes, Wallpaper, Layers, NoZombieForgotten
  <1>6. prog[mgClients[c]] = "welcome" => mgClients[c] \in zombies \cup closed'
    BY <1>1 DEF Runs, Alive
  <1>7. Welcome'
    BY <1>1, <1>2, <1>6 DEF IInv, Welcome
  <1> QED
    BY <1>3, <1>5, <1>7 DEF IInv

LEMMA ExitPreserves ==
  ASSUME IInv, NEW p \in Pid, Exit(p)
  PROVE  IInv'
PROOF
  <1>1. /\ prog[p] # "none" /\ p \notin zombies
        /\ hungup' = hungup \cup {c \in Cli : mgClients[c] = p}
        /\ closed' = closed \ {p}
        /\ UNCHANGED <<server, screen, mgClients, lost>>
    BY DEF Exit, Alive, history
  <1>2. UNCHANGED <<phase, pid_dynamic, pid_welcome, my_layers, mgLayers, mgTopmostLayer>>
    BY <1>1 DEF server, screen
  <1>3. CASE Child(p)
    <2>1. /\ zombies' = zombies \cup {p} /\ sigchld' = TRUE
          /\ UNCHANGED <<prog, interrupted>>
      BY <1>3 DEF Exit
    <2>2. prog[p] \notin {"none", "stranger"}
      BY <1>3 DEF Child
    <2>3. TypeOK' /\ Processes' /\ Layers' /\ NoZombieForgotten'
      BY <1>1, <1>2, <2>1, <2>2 DEF IInv, TypeOK, Processes, Layers, NoZombieForgotten
    <2>4. Fresh'
      BY <1>2, <2>1, <2>2 DEF IInv, Fresh
    <2>5. Wallpaper' /\ Welcome'
      BY <1>1, <1>2, <2>1 DEF IInv, Wallpaper, Welcome
    <2> QED
      BY <2>3, <2>4, <2>5 DEF IInv
  <1>4. CASE ~Child(p)
    <2>1. /\ prog' = [prog EXCEPT ![p] = "none"]
          /\ interrupted' = interrupted \ {p}
          /\ UNCHANGED <<zombies, sigchld>>
      BY <1>4 DEF Exit
    <2>2. prog[p] = "stranger"
      BY <1>1, <1>4 DEF Child
    <2>3. TypeOK' /\ Processes' /\ Layers' /\ NoZombieForgotten'
      BY <1>1, <1>2, <2>1, <2>2 DEF IInv, TypeOK, Program, Processes, Layers, NoZombieForgotten
    <2>4. Fresh'
      <3>1. phase = "startup" => \A c \in Cli : mgClients[c] # p
        BY ServerAssumption DEF IInv, Fresh
      <3> QED
        BY <1>1, <1>2, <2>1, <3>1 DEF IInv, TypeOK, Fresh
    <2>5. Wallpaper'
      <3>1. \A q \in Pid : prog'[q] = IF q = p THEN "none" ELSE prog[q]
        BY <2>1 DEF IInv, TypeOK
      <3>2. ~lost /\ pid_dynamic # 0 =>
              pid_dynamic \in Pid \ interrupted' /\ prog'[pid_dynamic] = "dynamic"
        BY <2>1, <2>2, <3>1 DEF IInv, Wallpaper
      <3>3. \A q \in Pid : prog'[q] = "dynamic" /\ q \notin zombies =>
              q \in interrupted' \/ q = pid_dynamic
        BY <2>1, <3>1 DEF IInv, Wallpaper
      <3> QED
        BY <1>1, <1>2, <2>1, <3>2, <3>3 DEF Wallpaper
    <2>6. Welcome'
      BY <1>1, <1>2, <2>1, <2>2 DEF IInv, TypeOK, Welcome
    <2> QED
      BY <2>3, <2>4, <2>5, <2>6 DEF IInv
  <1> QED
    BY <1>3, <1>4

LEMMA StrangerPreserves ==
  ASSUME IInv, NEW p \in Pid, Stranger(p)
  PROVE  IInv'
PROOF
  <1>1. prog[p] = "none" /\ prog' = [prog EXCEPT ![p] = "stranger"]
    BY DEF Stranger
  <1>2. Started(prog, prog', {"stranger"})
    BY <1>1 DEF IInv, TypeOK, Program, Started
  <1>3. UNCHANGED <<phase, pid_dynamic, pid_welcome, screen, zombies, sigchld, interrupted, sockets, lost>>
    BY DEF Stranger, server, history
  <1> QED
    BY <1>2, <1>3, StartKeeps

LEMMA NextPreserves == IInv /\ [Next]_vars => IInv'
PROOF
  <1> SUFFICES ASSUME IInv, [Next]_vars PROVE IInv'
    OBVIOUS
  <1>1. CASE StartupFails
    BY <1>1, EndPreserves
  <1>2. CASE \E arg \in Argument : MiniGUIMain(arg)
    BY <1>2, MainPreserves
  <1>3. CASE \E c \in Cli, p \in Pid : NewClient(c, p)
    BY <1>3, NewClientPreserves
  <1>4. CASE \E c \in Cli : DelClient(c)
    BY <1>4, DelClientPreserves
  <1>5. CASE KeyDown
    BY <1>5, EndPreserves, InterruptPreserves, StartWallpaperPreserves, StartAppPreserves,
       LayerPreserves DEF KeyDown
  <1>6. CASE child_wait \/ \E p \in Pid : Exit(p) \/ Stranger(p)
    BY <1>6, ReapPreserves, ExitPreserves, StrangerPreserves
  <1>8. CASE \E c \in Cli : Close(c)
    BY <1>8, ClosePreserves
  <1>7. CASE UNCHANGED vars
    <2>1. UNCHANGED <<server, screen, kernel, sockets, lost>>
      BY <1>7 DEF vars, history
    <2>2. UNCHANGED <<phase, pid_dynamic, pid_welcome, my_layers, mgLayers, mgTopmostLayer>>
      BY <2>1 DEF server, screen
    <2>3. UNCHANGED <<prog, zombies, sigchld, interrupted, mgClients, hungup, closed, lost>>
      BY <2>1 DEF kernel, sockets
    <2>4. TypeOK'
      BY <2>2, <2>3 DEF IInv, TypeOK
    <2>5. Fresh' /\ Processes' /\ Wallpaper' /\ Welcome' /\ Layers' /\ NoZombieForgotten'
      BY <2>2, <2>3 DEF IInv, Fresh, Processes, Wallpaper, Welcome, Layers, NoZombieForgotten
    <2> QED
      BY <2>4, <2>5 DEF IInv
  <1> QED
    BY <1>1, <1>2, <1>3, <1>4, <1>5, <1>6, <1>7, <1>8 DEF Next

(* The invariant holds always.                                             *)
THEOREM Inductive == Spec => []IInv
  BY InitHolds, NextPreserves, PTL DEF Spec

-----------------------------------------------------------------------------
(* The theorems.                                                           *)

(* Signals do not queue, and yet every child is reaped: child_wait loops.  *)
THEOREM ChildrenReaped == Spec => []NoZombieForgotten
PROOF
  <1>1. IInv => NoZombieForgotten
    BY DEF IInv
  <1> QED
    BY <1>1, Inductive, PTL

(* While pid_dynamic stands for the wallpaper, Escape signals nothing else *)
(* (my_event_hook).                                                        *)
THEOREM OnlyWallpaperSignalled == Spec => SignalHitsWallpaper
PROOF
  <1>1. IInv /\ [Next]_vars => [\A p \in interrupted' \ interrupted : prog[p] = "dynamic" \/ lost]_vars
    <2> SUFFICES ASSUME IInv, Next, NEW p \in interrupted' \ interrupted
                 PROVE  prog[p] = "dynamic" \/ lost
      OBVIOUS
    <2>1. InterruptWallpaper
      BY DEF Next, StartupFails, MiniGUIMain, NewClient, DelClient, KeyDown, EndSession, StartWallpaper,
             StartApp, DefaultLayer, SwitchLayer, CreateLayer, child_wait, Reaped, Exit, Close, Stranger, kernel
    <2>2. pid_dynamic # 0 /\ p \in Reached(pid_dynamic)
      BY <2>1 DEF InterruptWallpaper
    <2> QED
      BY <2>2, ReachedAre DEF IInv, TypeOK
  <1> QED
    BY <1>1, Inductive, PTL DEF Spec, SignalHitsWallpaper

(* What a step starts, by the name of the program.                         *)
LEMMA OtherStarts ==
  ASSUME IInv, NEW name \in Program, NEW e \in exec_app(prog, name), prog' = e.prog,
         NEW other, other # name
  PROVE  ~Starts(other)
PROOF
  <1>1. prog \in [Pid -> Program]
    BY DEF IInv, TypeOK
  <1>2. Started(prog, prog', {name})
    BY <1>1, ExecStarts
  <1> QED
    BY <1>2 DEF Started, Starts

(* Processes that end, are reaped or come from elsewhere start nothing.    *)
LEMMA NothingStarts ==
  ASSUME IInv, NEW other \in {"dynamic", "command"},
         \/ UNCHANGED prog
         \/ child_wait
         \/ \E p \in Pid : Exit(p) \/ Stranger(p)
  PROVE  ~Starts(other)
PROOF
  <1>1. prog \in [Pid -> Program]
    BY DEF IInv, TypeOK
  <1>2. \A p \in Pid : prog'[p] \in {prog[p], "none", "stranger"}
    BY <1>1 DEF child_wait, Exit, Stranger
  <1> QED
    BY <1>2 DEF Starts

(* Only Space starts a wallpaper after the startup, and only a client that *)
(* leaves starts the command.                                              *)
LEMMA WhatStarts ==
  ASSUME IInv, Next, phase # "startup"
  PROVE  /\ Starts("dynamic") => StartWallpaper
         /\ Starts("command") => \E c \in Cli : DelClient(c)
PROOF
  <1>0. {"app", "dynamic", "command"} \subseteq Program
    BY DEF Program
  <1>1. CASE StartWallpaper
    <2>1. PICK d \in exec_app(prog, "dynamic") : prog' = d.prog
      BY <1>1 DEF StartWallpaper
    <2> QED
      BY <1>0, <1>1, <2>1, OtherStarts
  <1>2. ASSUME NEW c \in Cli, DelClient(c) PROVE ~Starts("dynamic")
    <2>1. CASE UNCHANGED prog
      BY <2>1, NothingStarts
    <2>2. CASE ~UNCHANGED prog
      <3>1. PICK e \in exec_app(prog, "command") : prog' = e.prog
        BY <1>2, <2>2 DEF DelClient
      <3> QED
        BY <1>0, <3>1, OtherStarts
    <2> QED
      BY <2>1, <2>2
  <1>3. CASE StartApp
    <2>1. PICK a \in exec_app(prog, "app") : prog' = a.prog
      BY <1>3 DEF StartApp
    <2> QED
      BY <1>0, <2>1, OtherStarts
  <1>4. CASE child_wait \/ \E p \in Pid : Exit(p) \/ Stranger(p)
    BY <1>4, NothingStarts
  <1>5. CASE UNCHANGED prog
    BY <1>5, NothingStarts
  <1>6. \/ UNCHANGED prog
        \/ StartWallpaper
        \/ \E c \in Cli : DelClient(c)
        \/ StartApp
        \/ child_wait \/ \E p \in Pid : Exit(p) \/ Stranger(p)
    BY Zenon DEF Next, StartupFails, MiniGUIMain, NewClient, KeyDown, EndSession, InterruptWallpaper,
                 DefaultLayer, SwitchLayer, CreateLayer, Close, kernel
  <1> QED
    BY <1>1, <1>2, <1>3, <1>4, <1>5, <1>6

(* A wallpaper is started only when every wallpaper was told to end and a  *)
(* welcome program that still runs has closed its connection               *)
(* (my_event_hook).                                                        *)
THEOREM WallpapersAlone == Spec => OneWallpaper
PROOF
  <1>1. IInv /\ [Next]_vars =>
          [Starts("dynamic") =>
             Runs("welcome") \subseteq closed /\ Runs("dynamic") \subseteq interrupted]_vars
    <2> SUFFICES ASSUME IInv, Next, Starts("dynamic")
                 PROVE  Runs("welcome") \subseteq closed /\ Runs("dynamic") \subseteq interrupted
      OBVIOUS
    <2>1. CASE phase = "startup"
      BY <2>1 DEF IInv, Fresh, Runs
    <2>2. CASE phase # "startup"
      <3>1. StartWallpaper
        BY <2>2, WhatStarts
      <3>2. pid_welcome = 0 /\ pid_dynamic = 0 /\ 0 \notin Pid
        BY <3>1, ServerAssumption DEF StartWallpaper, MayStart
      <3> QED
        BY <3>2 DEF IInv, Wallpaper, Welcome, Runs, Alive
    <2> QED
      BY <2>1, <2>2
  <1> QED
    BY <1>1, Inductive, PTL DEF Spec, OneWallpaper

(* The command given to mginit does not start before the welcome program   *)
(* has closed its connection, in whatever order that program connects,     *)
(* closes, ends and is noticed to have left (on_new_del_client).           *)
THEOREM CommandStartsAlone == Spec => CommandAlone
PROOF
  <1>1. IInv /\ [Next]_vars => [Starts("command") => Runs("welcome") \subseteq closed]_vars
    <2> SUFFICES ASSUME IInv, Next, Starts("command")
                 PROVE  Runs("welcome") \subseteq closed
      OBVIOUS
    <2>1. CASE phase = "startup"
      BY <2>1 DEF IInv, Fresh, Runs
    <2>2. CASE phase # "startup"
      <3>1. PICK c \in Cli : DelClient(c)
        BY <2>2, WhatStarts
      <3>2. c \in hungup /\ pid_welcome = mgClients[c]
        <4>1. ~UNCHANGED prog
          BY NothingStarts
        <4> QED
          BY <3>1, <4>1 DEF DelClient, WelcomeLeaves
      <3> QED
        BY <3>2 DEF IInv, Welcome, Runs, Alive
    <2> QED
      BY <2>1, <2>2
  <1> QED
    BY <1>1, Inductive, PTL DEF Spec, CommandAlone

(* A layer of the list has a place in it.                                  *)
LEMMA PlaceOfLayer ==
  ASSUME IInv, NEW l \in my_layers \cup {"default"}
  PROVE  Place(l) \in 1 .. Len(mgLayers) /\ mgLayers[Place(l)] = l /\ l \in Range(mgLayers)
PROOF
  <1>1. mgLayers \in Seq(Slot \cup {"default"}) /\ DOMAIN mgLayers = 1 .. Len(mgLayers)
    BY DEF IInv, Layers
  <1>2. \E i \in DOMAIN mgLayers : mgLayers[i] = l
    BY <1>1 DEF IInv, Layers
  <1>3. Place(l) \in DOMAIN mgLayers /\ mgLayers[Place(l)] = l
    BY <1>2 DEF Place
  <1> QED
    BY <1>1, <1>3 DEF Range

(* The picture between two layers of the list.                             *)
LEMMA Pictured ==
  ASSUME IInv, NEW from \in my_layers \cup {"default"}, NEW to \in my_layers \cup {"default"},
         from # to
  PROVE  Animated(from, to) = IF Place(to) < Place(from)
                              THEN [left |-> from, right |-> to, from |-> 95, to |-> 5]
                              ELSE [left |-> to, right |-> from, from |-> 5, to |-> 95]
PROOF
  <1>1. /\ Place(to) \in 1 .. Len(mgLayers) /\ to \in Range(mgLayers)
        /\ Place(from) \in 1 .. Len(mgLayers) /\ from \in Range(mgLayers)
    BY PlaceOfLayer
  <1>2. Len(mgLayers) \in Nat
    BY DEF IInv, Layers
  <1>3. LeftOf(from, to) <=> Place(to) < Place(from)
    BY <1>1, <1>2 DEF LeftOf
  <1> QED
    BY <1>1, <1>3 DEF Animated

(* For any number of layers, the transition ends with the larger share at  *)
(* the layer asked for and has the older of the two on the left, and the   *)
(* way back is the same picture reversed (my_transit_to_layer).            *)
THEOREM TransitionsRight == Spec => TransitionShowsTarget
PROOF
  <1>1. IInv /\ [Next]_vars =>
          [LET there == Animated(mgTopmostLayer, mgTopmostLayer')
               back  == Animated(mgTopmostLayer', mgTopmostLayer)
               share(l) == IF l = there.left THEN there.to ELSE 100 - there.to
           IN  mgTopmostLayer' # mgTopmostLayer =>
                 /\ share(mgTopmostLayer') > share(mgTopmostLayer)
                 /\ Place(there.left) > Place(there.right)
                 /\ back = Reversed(there)]_vars
    <2> DEFINE from == mgTopmostLayer
               to == mgTopmostLayer'
               there == Animated(from, to)
               back == Animated(to, from)
               share(l) == IF l = there.left THEN there.to ELSE 100 - there.to
    <2> SUFFICES ASSUME IInv, Next, to # from
                 PROVE  /\ share(to) > share(from)
                        /\ Place(there.left) > Place(there.right)
                        /\ back = Reversed(there)
      OBVIOUS
    <2>1. to \in my_layers \cup {"default"}
      BY DEF Next, StartupFails, MiniGUIMain, NewClient, DelClient, KeyDown, EndSession, InterruptWallpaper,
             StartWallpaper, StartApp, DefaultLayer, SwitchLayer, ServerSetTopmostLayer, CreateLayer,
             child_wait, Exit, Close, Stranger, screen
    <2>2. from \in my_layers \cup {"default"}
      BY DEF IInv, Layers
    <2>3. /\ Place(to) \in 1 .. Len(mgLayers) /\ mgLayers[Place(to)] = to
          /\ Place(from) \in 1 .. Len(mgLayers) /\ mgLayers[Place(from)] = from
      BY <2>1, <2>2, PlaceOfLayer
    <2>4. Len(mgLayers) \in Nat /\ Place(to) # Place(from)
      BY <2>3 DEF IInv, Layers
    <2>5. /\ there = IF Place(to) < Place(from)
                     THEN [left |-> from, right |-> to, from |-> 95, to |-> 5]
                     ELSE [left |-> to, right |-> from, from |-> 5, to |-> 95]
          /\ back = IF Place(from) < Place(to)
                    THEN [left |-> to, right |-> from, from |-> 95, to |-> 5]
                    ELSE [left |-> from, right |-> to, from |-> 5, to |-> 95]
      BY <2>1, <2>2, Pictured
    <2>6. CASE Place(to) < Place(from)
      <3>1. there = [left |-> from, right |-> to, from |-> 95, to |-> 5]
        BY <2>5, <2>6
      <3>2. back = [left |-> from, right |-> to, from |-> 5, to |-> 95]
        BY <2>3, <2>4, <2>5, <2>6
      <3> HIDE DEF there, back
      <3>3. there.left = from /\ there.right = to /\ there.to = 5
        BY <3>1
      <3>4. back = Reversed(there)
        BY <3>1, <3>2 DEF Reversed
      <3> QED
        BY <2>3, <2>6, <3>3, <3>4
    <2>7. CASE Place(from) < Place(to)
      <3>1. there = [left |-> to, right |-> from, from |-> 5, to |-> 95]
        BY <2>3, <2>4, <2>5, <2>7
      <3>2. back = [left |-> to, right |-> from, from |-> 95, to |-> 5]
        BY <2>5, <2>7
      <3> HIDE DEF there, back
      <3>3. there.left = to /\ there.right = from /\ there.to = 95
        BY <3>1
      <3>4. back = Reversed(there)
        BY <3>1, <3>2 DEF Reversed
      <3> QED
        BY <2>3, <2>7, <3>3, <3>4
    <2> QED
      BY <2>3, <2>4, <2>6, <2>7
  <1> QED
    BY <1>1, Inductive, PTL DEF Spec, TransitionShowsTarget
=============================================================================
