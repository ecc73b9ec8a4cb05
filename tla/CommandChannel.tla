--------------------------- MODULE CommandChannel ---------------------------
(***************************************************************************)
(* AutomationFragment.sendMessage: one command, one thread, one UDP        *)
(* exchange with the switch board.                                         *)
(*                                                                         *)
(* The main thread starts a worker thread and returns.  The worker opens a *)
(* socket on a port of the system's choice, sends the command, waits for   *)
(* one datagram with no timeout, closes the socket and posts a Runnable to *)
(* the main looper.  An IOException on the way leaves stringData null; the *)
(* Runnable calls stringData.trim() all the same, and the exception ends   *)
(* the process.                                                            *)
(*                                                                         *)
(* External, modelled from how the code uses it: the network, which may    *)
(* lose, delay, reorder and duplicate datagrams, and the board at          *)
(* 192.168.1.179:4210, which obeys a command and answers its sender.       *)
(***************************************************************************)
EXTENDS Toggles, Sequences

CONSTANTS
  MaxCommands,  \* bound: calls of sendMessage
  Ports,        \* local ports the system hands out
  MaxCopies     \* bound: copies of a datagram the network makes

NoPort == 0   \* never handed out

ASSUME MaxCommandsAssumption == MaxCommands \in Nat
ASSUME PortsAssumption == Ports \subseteq Nat \ {NoPort}
ASSUME MaxCopiesAssumption == MaxCopies \in Nat

Worker == 1..MaxCommands

\* stringData: the bytes of the answer, blank or not, or null.
Answer == {"text", "blank"}
Null == "null"

VARIABLES
  alive,     \* the app's process runs
  issued,    \* workers 1..issued have been started, in this order
  command,   \* the command of each worker started
  pc,        \* where each worker is
  port,      \* the local port of its open socket
  data,      \* its stringData
  looper,    \* the main looper: workers whose Runnable is posted
  net,       \* datagrams in flight
  device,    \* position of every switch of the board
  obeyed,    \* history: workers whose command the board has obeyed
  stale,     \* history: workers that got a port with old datagrams under way
  raced      \* history: toggles commanded while an older command was under way

channelVars == <<alive, issued, command, pc, port, data, looper,
                 net, device, obeyed, stale, raced>>

NoCommand == [toggle |-> 0, on |-> FALSE]

Command == [toggle : Toggle, on : BOOLEAN]

Stages == {"idle", "opening", "sending", "receiving", "posted", "shown", "done", "dead"}

\* Both directions carry the worker's port; the worker and the copy number
\* tell datagrams apart and are not read by any action of the code.
Datagram == [command : BOOLEAN, port : Ports, worker : Worker,
             answer : Answer, copy : 0..MaxCopies]

Started == 1..issued

HasSocket(w) == pc[w] \in {"sending", "receiving"}

\* A command for t has still to reach the board.
UnderWay(t) ==
  \E w \in Started :
    /\ command[w].toggle = t
    /\ \/ pc[w] \in {"opening", "sending"}
       \/ \E d \in net : d.command /\ d.worker = w

ChannelInit ==
  /\ alive = TRUE
  /\ issued = 0
  /\ command = [w \in Worker |-> NoCommand]
  /\ pc = [w \in Worker |-> "idle"]
  /\ port = [w \in Worker |-> NoPort]
  /\ data = [w \in Worker |-> Null]
  /\ looper = <<>>
  /\ net = {}
  /\ device \in [Toggle -> BOOLEAN]
  /\ obeyed = {}
  /\ stale = {}
  /\ raced = {}

(***************************************************************************)
(* The main thread.                                                        *)
(***************************************************************************)

\* sendMessage: start the worker, announce "Message Sent".
SendMessage(t, on) ==
  /\ alive
  /\ issued < MaxCommands
  /\ issued' = issued + 1
  /\ command' = [command EXCEPT ![issued + 1] = [toggle |-> t, on |-> on]]
  /\ pc' = [pc EXCEPT ![issued + 1] = "opening"]
  /\ raced' = IF UnderWay(t) THEN raced \union {t} ELSE raced
  /\ UNCHANGED <<alive, port, data, looper, net, device, obeyed, stale>>

\* The process ends: its threads, sockets and posted Runnables are gone.
ProcessDies ==
  /\ alive' = FALSE
  /\ pc' = [w \in Worker |-> IF pc[w] \in {"idle", "shown", "done"} THEN pc[w] ELSE "dead"]
  /\ port' = [w \in Worker |-> NoPort]
  /\ looper' = <<>>
  /\ UNCHANGED <<issued, command, data, net, device, obeyed, stale, raced>>

\* The posted Runnable with an answer: shown unless it is blank.
ShowReply ==
  /\ alive
  /\ looper # <<>>
  /\ LET w == Head(looper)
     IN /\ data[w] # Null
        /\ pc' = [pc EXCEPT ![w] = IF data[w] = "blank" THEN "done" ELSE "shown"]
  /\ looper' = Tail(looper)
  /\ UNCHANGED <<alive, issued, command, port, data, net, device, obeyed, stale, raced>>

\* The posted Runnable without one: NullPointerException on the main thread.
NullReply ==
  /\ alive
  /\ looper # <<>>
  /\ data[Head(looper)] = Null
  /\ ProcessDies

\* The system kills the process, or the user does.
Kill == alive /\ ProcessDies

Relaunch ==
  /\ ~alive
  /\ alive' = TRUE
  /\ UNCHANGED <<issued, command, pc, port, data, looper,
                 net, device, obeyed, stale, raced>>

(***************************************************************************)
(* The worker threads.                                                     *)
(***************************************************************************)

\* new DatagramSocket(): any port no open socket has.
OpenSocket(w) ==
  /\ pc[w] = "opening"
  /\ \E p \in Ports :
       /\ \A v \in Worker : port[v] # p
       /\ port' = [port EXCEPT ![w] = p]
       /\ stale' = IF \E d \in net : d.port = p THEN stale \union {w} ELSE stale
  /\ pc' = [pc EXCEPT ![w] = "sending"]
  /\ UNCHANGED <<alive, issued, command, data, looper, net, device, obeyed, raced>>

\* Mutant: the Runnable is not posted.
CloseAndPost_silent(w) ==
  /\ port' = [port EXCEPT ![w] = NoPort]
  /\ pc' = [pc EXCEPT ![w] = "posted"]
  /\ UNCHANGED looper

\* finally ds.close(), then handler.post: two steps nobody else can tell apart.
CloseAndPost(w) ==
  /\ port' = [port EXCEPT ![w] = NoPort]
  /\ looper' = Append(looper, w)
  /\ pc' = [pc EXCEPT ![w] = "posted"]

\* Mutant: a failed exchange counts as answered.
IOFails_answered(w) ==
  /\ pc[w] \in {"opening", "sending", "receiving"}
  /\ CloseAndPost(w)
  /\ data' = [data EXCEPT ![w] = "text"]
  /\ UNCHANGED <<alive, issued, command, net, device, obeyed, stale, raced>>

\* Mutant: a failed exchange is tried again.
IOFails_retries(w) ==
  /\ pc[w] \in {"opening", "sending", "receiving"}
  /\ pc' = [pc EXCEPT ![w] = "opening"]
  /\ port' = [port EXCEPT ![w] = NoPort]
  /\ UNCHANGED <<alive, issued, command, data, looper, net, device, obeyed, stale, raced>>

\* The constructor, send or receive throws: stringData stays null.
IOFails(w) ==
  /\ pc[w] \in {"opening", "sending", "receiving"}
  /\ CloseAndPost(w)
  /\ UNCHANGED <<alive, issued, command, data, net, device, obeyed, stale, raced>>

Send(w) ==
  /\ pc[w] = "sending"
  /\ net' = net \union {[command |-> TRUE, port |-> port[w], worker |-> w,
                         answer |-> "text", copy |-> 0]}
  /\ pc' = [pc EXCEPT ![w] = "receiving"]
  /\ UNCHANGED <<alive, issued, command, port, data, looper, device, obeyed, stale, raced>>

\* receive: the first datagram at the port, whatever it answers; nothing is compared.
Receive(w) ==
  /\ pc[w] = "receiving"
  /\ \E d \in net :
       /\ ~d.command
       /\ d.port = port[w]
       /\ data' = [data EXCEPT ![w] = d.answer]
       /\ net' = net \ {d}
  /\ CloseAndPost(w)
  /\ UNCHANGED <<alive, issued, command, device, obeyed, stale, raced>>

(***************************************************************************)
(* The network and the board.                                              *)
(***************************************************************************)

Lose(d) ==
  /\ net' = net \ {d}
  /\ UNCHANGED <<alive, issued, command, pc, port, data, looper, device, obeyed, stale, raced>>

Duplicate(d) ==
  /\ d.copy < MaxCopies
  /\ net' = net \union {[d EXCEPT !.copy = @ + 1]}
  /\ UNCHANGED <<alive, issued, command, pc, port, data, looper, device, obeyed, stale, raced>>

\* The board obeys and answers.
Obey(d, answer) ==
  /\ d.command
  /\ device' = [device EXCEPT ![command[d.worker].toggle] = command[d.worker].on]
  /\ obeyed' = obeyed \union {d.worker}
  /\ net' = (net \ {d}) \union {[d EXCEPT !.command = FALSE, !.answer = answer]}
  /\ UNCHANGED <<alive, issued, command, pc, port, data, looper, stale, raced>>

WorkerStep(w) == OpenSocket(w) \/ IOFails(w) \/ Send(w) \/ Receive(w)

NetStep(d) == Lose(d) \/ Duplicate(d) \/ \E answer \in Answer : Obey(d, answer)

ChannelNext ==
  \/ \E t \in Toggle, on \in BOOLEAN : SendMessage(t, on)
  \/ ShowReply
  \/ NullReply
  \/ Kill
  \/ Relaunch
  \/ \E w \in Started : WorkerStep(w)
  \/ \E d \in net : NetStep(d)

ChannelSpec == ChannelInit /\ [][ChannelNext]_channelVars

\* The scheduler runs every live thread, the looper its queue; the network
\* does not sit on a datagram for ever and the board does not ignore one.
Fairness ==
  /\ WF_channelVars(ShowReply \/ NullReply)
  /\ \A w \in Worker :
       /\ WF_channelVars(OpenSocket(w) \/ (pc[w] = "opening" /\ IOFails(w)))
       /\ WF_channelVars(Send(w) \/ (pc[w] = "sending" /\ IOFails(w)))
       /\ WF_channelVars(Receive(w))
       /\ WF_channelVars(\E d \in net : d.worker = w /\ d.command
                           /\ \E answer \in Answer : Obey(d, answer))

FairSpec == ChannelSpec /\ Fairness

(***************************************************************************)
(* Properties.                                                             *)
(***************************************************************************)

\* Every variable has its type.
ChannelTypeOK ==
  /\ alive \in BOOLEAN
  /\ issued \in 0..MaxCommands
  /\ command \in [Worker -> Command \union {NoCommand}]
  /\ \A w \in Started : command[w] \in Command
  /\ pc \in [Worker -> Stages]
  /\ port \in [Worker -> Ports \union {NoPort}]
  /\ data \in [Worker -> Answer \union {Null}]
  /\ looper \in Seq(Worker)
  /\ net \subseteq Datagram
  /\ device \in [Toggle -> BOOLEAN]
  /\ obeyed \subseteq Worker
  /\ stale \subseteq Worker
  /\ raced \subseteq Toggle

\* An answer is the board's word that it obeyed this very command, unless the
\* worker's port had old datagrams under way when it was opened: the code
\* compares nothing, so all of it rests on who may hold a port and when.
AnswerMeansObeyed ==
  \A w \in Started : data[w] # Null => w \in obeyed \/ w \in stale

\* w is the last worker started for its toggle.
Latest(w) == \A v \in Started : v > w => command[v].toggle # command[w].toggle

\* Once the board has obeyed the latest command for a toggle it stays in that
\* position, whatever is still in flight, unless a command for the toggle was
\* sent while an older one, or a copy of it, had still to arrive.
LatestPrevails ==
  \A w \in Started :
    Latest(w) /\ w \in obeyed /\ command[w].toggle \notin raced =>
      device[command[w].toggle] = command[w].on

\* Nothing of w's exchange is in flight, and w waits on its socket.
Stranded(w) == pc[w] = "receiving" /\ \A d \in net : d.worker # w

\* A worker waits for ever only for a datagram the network lost: otherwise
\* its exchange is concluded, or ends with the process.
ExchangeConcludes ==
  \A w \in Worker :
    pc[w] = "opening" ~> pc[w] \in {"shown", "done", "dead"} \/ Stranded(w)
=============================================================================
