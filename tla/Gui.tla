--------------------------------- MODULE Gui --------------------------------
(***************************************************************************)
(* gui serve, open, status and stop (_cli/_gui_cmd.py, _django/_server.py). *)
(* Each command is a process of its own.  They share one port and one      *)
(* state file, which is written before the server binds the port and       *)
(* removed when the command ends, whichever command wrote it.              *)
(***************************************************************************)
EXTENDS Integers, FiniteSets

CONSTANTS
  Launches,    \* how many times gui serve or gui open is run; the processes are numbered
  BindHost,    \* --host of each; "any" binds every address
  Stops        \* processes of gui stop

Servers == 1..Launches

ASSUME GuiAssumption == Launches \in Nat /\ DOMAIN BindHost = Servers

VARIABLES
  server,    \* each launched process: its verb, and the call it makes next
  state,     \* gui.json: the process that it names, with its host and port, or nothing
  stopping,  \* each gui stop: the call it makes next, the process it has read of
  crowded    \* history: servers whose start another command fell into

guiVars == <<server, state, stopping, crowded>>

NoState   == 0
Unstarted == [at |-> "unstarted", verb |-> "serve"]

GuiTypes ==
  /\ server \in [Servers ->
       [at : {"unstarted", "status", "write", "check", "bind", "listen", "clear", "ended"},
        verb : {"serve", "open"}]]
  /\ state \in Servers \cup {NoState}
  /\ stopping \in [Stops -> [at : {"unstarted", "read", "signal", "clear", "ended"},
                             pid : Servers \cup {0}]]
  /\ crowded \subseteq Servers

GuiInit ==
  /\ server = [p \in Servers |-> Unstarted] /\ state = NoState
  /\ stopping = [s \in Stops |-> [at |-> "unstarted", pid |-> 0]]
  /\ crowded = {}

-----------------------------------------------------------------------------
Proceeds(p, call)    == server' = [server EXCEPT ![p].at = call]
StopProceeds(s, call) == stopping' = [stopping EXCEPT ![s].at = call]

RunningServer(p) == server[p].at \notin {"unstarted", "ended"}

(* GuiRuntime.status: the state file names a process that runs. *)
Recorded == state # NoState /\ RunningServer(state)

Overlap(a, b) == a = b \/ "any" \in {a, b}

PortTaken(p) ==
  \E q \in Servers \ {p} : server[q].at = "listen" /\ Overlap(BindHost[q], BindHost[p])

(* The commands that are under way when a process is launched, but for a     *)
(* server that listens, as the state file says, while gui open looks.        *)
UnderWay(verb) ==
  {q \in Servers : RunningServer(q) /\ ~(verb = "open" /\ server[q].at = "listen" /\ q \notin crowded)}

(* gui serve, or gui open, which looks first; start-gui runs either. *)
LaunchGui(p, verb) ==
  /\ server[p].at = "unstarted" /\ \A q \in 1..p - 1 : server[q].at # "unstarted"
  /\ server' = [server EXCEPT ![p] =
       [at |-> IF verb = "open" THEN "status" ELSE "write", verb |-> verb]]
  /\ crowded' = IF UnderWay(verb) = {} /\ \A s \in Stops : stopping[s].at \in {"unstarted", "ended"}
                THEN crowded ELSE crowded \cup UnderWay(verb) \cup {p}
  /\ UNCHANGED <<state, stopping>>

(* Fault: the early return stands inside the try, so that finally runs. *)
OpenLooksInsideTry(p) ==
  /\ server[p].at = "status"
  /\ Proceeds(p, IF Recorded THEN "clear" ELSE "write")
  /\ UNCHANGED <<state, stopping, crowded>>

(* gui open: a server that runs is only shown in a browser. *)
OpenLooks(p) ==
  /\ server[p].at = "status"
  /\ Proceeds(p, IF Recorded THEN "ended" ELSE "write")
  /\ UNCHANGED <<state, stopping, crowded>>

WriteGuiState(p) ==
  /\ server[p].at = "write"
  /\ state' = p
  /\ Proceeds(p, "check")
  /\ UNCHANGED <<stopping, crowded>>

(* _port_in_use: by a server of ours, or by another program.  Otherwise      *)
(* Django is set up and migrated.                                            *)
CheckPort(p) ==
  /\ server[p].at = "check"
  /\ \/ Proceeds(p, "clear")
     \/ ~PortTaken(p) /\ Proceeds(p, "bind")
  /\ UNCHANGED <<state, stopping, crowded>>

(* runserver binds the port and serves, or gives up: by an exception, or by  *)
(* os._exit, which skips finally.                                            *)
BindPort(p) ==
  /\ server[p].at = "bind"
  /\ \/ ~PortTaken(p) /\ Proceeds(p, "listen")
     \/ Proceeds(p, "clear")
     \/ Proceeds(p, "ended")
  /\ UNCHANGED <<state, stopping, crowded>>

(* Ctrl-C *)
InterruptGui(p) ==
  /\ server[p].at \in {"check", "bind", "listen"}
  /\ Proceeds(p, "clear")
  /\ UNCHANGED <<state, stopping, crowded>>

(* finally: clear_state, whatever the state file names by now. *)
ClearGuiState(p) ==
  /\ server[p].at = "clear"
  /\ state' = NoState
  /\ Proceeds(p, "ended")
  /\ UNCHANGED <<stopping, crowded>>

KillGui(p) ==
  /\ RunningServer(p)
  /\ Proceeds(p, "ended")
  /\ UNCHANGED <<state, stopping, crowded>>

-----------------------------------------------------------------------------
(* GuiRuntime.stop: the state file is read, the process that it names, if it *)
(* runs, is sent a signal, and the state file removed.                       *)
StartStop(s) ==
  /\ stopping[s].at = "unstarted"
  /\ StopProceeds(s, "read")
  /\ crowded' = crowded \cup {p \in Servers : RunningServer(p) /\ server[p].at # "listen"}
  /\ UNCHANGED <<server, state>>

ReadGuiState(s) ==
  /\ stopping[s].at = "read"
  /\ stopping' = [stopping EXCEPT ![s] =
       IF Recorded THEN [at |-> "signal", pid |-> state] ELSE [at |-> "ended", pid |-> 0]]
  /\ UNCHANGED <<server, state, crowded>>

(* The signal ends the process, with its finally or without, or cannot be *)
(* sent: the command says that it failed.                                 *)
SignalGui(s) ==
  LET p == stopping[s].pid IN
  /\ stopping[s].at = "signal"
  /\ \/ StopProceeds(s, "ended") /\ UNCHANGED server
     \/ /\ RunningServer(p) /\ StopProceeds(s, "clear")
        /\ Proceeds(p, "ended") \/ Proceeds(p, "clear")
  /\ UNCHANGED <<state, crowded>>

ForgetGui(s) ==
  /\ stopping[s].at = "clear"
  /\ state' = NoState /\ StopProceeds(s, "ended")
  /\ UNCHANGED <<server, crowded>>

GuiNext ==
  \/ \E p \in Servers :
       \/ \E verb \in {"serve", "open"} : LaunchGui(p, verb)
       \/ OpenLooks(p) \/ WriteGuiState(p) \/ CheckPort(p) \/ BindPort(p)
       \/ InterruptGui(p) \/ ClearGuiState(p) \/ KillGui(p)
  \/ \E s \in Stops : StartStop(s) \/ ReadGuiState(s) \/ SignalGui(s) \/ ForgetGui(s)

GuiSpec == GuiInit /\ [][GuiNext]_guiVars

-----------------------------------------------------------------------------
(* A server that listens is the one that the state file names, so that       *)
(* gui status shows it, gui stop ends it and gui open starts no second one   *)
(* (_cli/_gui_cmd.py:136): as long as no command is started while another    *)
(* starts, ends or stops one, and no gui serve while a server listens.       *)
(* Those do break it: the second gui serve is refused the port, and its      *)
(* finally removes the first one's state.                                    *)
ServerIsKnown ==
  \A p \in Servers \ crowded : server[p].at = "listen" =>
    /\ state = p
    /\ \A q \in Servers \ ({p} \cup crowded) : server[q].at \notin {"write", "check", "bind", "listen"}
=============================================================================
