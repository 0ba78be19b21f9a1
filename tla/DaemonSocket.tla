---------------------------- MODULE DaemonSocket ----------------------------
(* Several `gwm daemon` processes over one socket path on unix: the start of
   serve (clear_stale_socket, bind, chmod) and its end, in src/src/daemon.rs,
   with daemons that are killed and leave their file behind.  A socket file is
   the process that bound it.  remove_file succeeds: it removes from a
   directory in which this user binds.                                     *)
EXTENDS Naturals, FiniteSets

CONSTANTS
  Daemons,     \* the processes
  NoFile,      \* nothing at the path
  OneAtATime,  \* nobody starts a daemon while another one is starting
  Leaves       \* daemons may end without removing their file

ASSUME DaemonsAssumption == NoFile \notin Daemons
ASSUME SwitchesAssumption == OneAtATime \in BOOLEAN /\ Leaves \in BOOLEAN

VARIABLES
  path,  \* the file at the socket path
  pc     \* where each daemon is

vars == <<path, pc>>

Starting == {"probing", "unlinking", "binding", "restricting"}
\* A bound listener answers a connect, whatever the file's name is by then.
Listening == {"restricting", "serving", "cleaning"}

Live(d) == pc[d] \in Listening

TypeOK ==
  /\ path \in Daemons \cup {NoFile}
  /\ pc \in [Daemons -> Starting \cup Listening \cup {"down", "refused"}]

Init ==
  /\ path = NoFile
  /\ pc = [d \in Daemons |-> "down"]

Goto(d, place) == pc' = [pc EXCEPT ![d] = place]

Start(d) ==
  /\ pc[d] = "down"
  /\ OneAtATime => \A e \in Daemons : pc[e] \notin Starting
  /\ Goto(d, "probing")
  /\ UNCHANGED path

\* Whether the file at the path is one that answers.
InUse == path # NoFile /\ Live(path)

\* Slip: a file that does not answer is left to bind.
ProbeOnly(d) ==
  /\ pc[d] = "probing"
  /\ Goto(d, IF InUse THEN "refused" ELSE "binding")
  /\ UNCHANGED path

\* Slip: whatever is at the path is taken for stale.
ProbeNothing(d) ==
  /\ pc[d] = "probing"
  /\ Goto(d, IF path = NoFile THEN "binding" ELSE "unlinking")
  /\ UNCHANGED path

\* clear_stale_socket, up to its connect.
Probe(d) ==
  /\ pc[d] = "probing"
  /\ Goto(d, IF path = NoFile THEN "binding" ELSE IF InUse THEN "refused" ELSE "unlinking")
  /\ UNCHANGED path

\* clear_stale_socket's remove_file: of the name, whoever it leads to by now.
Unlink(d) ==
  /\ pc[d] = "unlinking"
  /\ path' = NoFile
  /\ Goto(d, "binding")

\* bind fails with EADDRINUSE on any file that is there.
Bind(d) ==
  /\ pc[d] = "binding"
  /\ IF path = NoFile
       THEN path' = d /\ Goto(d, "restricting")
       ELSE UNCHANGED path /\ Goto(d, "refused")

\* set_permissions, which removes the file when it fails, and set_nonblocking,
\* which does not.
SetPermissions(d) ==
  /\ pc[d] = "restricting"
  /\ \/ path # NoFile /\ Goto(d, "serving") /\ UNCHANGED path
     \/ Goto(d, "refused") /\ path' = NoFile
     \/ Leaves /\ Goto(d, "refused") /\ UNCHANGED path

\* The end of serve: the name goes first, the listener with the process.
CleanUp(d) ==
  /\ pc[d] = "serving"
  /\ path' = NoFile
  /\ Goto(d, "cleaning")

Exit(d) ==
  /\ pc[d] \in {"cleaning", "refused"}
  /\ Goto(d, "down")
  /\ UNCHANGED path

\* A kill leaves the file.
Kill(d) ==
  /\ Leaves /\ pc[d] # "down"
  /\ Goto(d, "down")
  /\ UNCHANGED path

Daemon(d) ==
  \/ Probe(d) \/ Unlink(d) \/ Bind(d) \/ SetPermissions(d) \/ Exit(d)

Next == \E d \in Daemons : Start(d) \/ Daemon(d) \/ CleanUp(d) \/ Kill(d)

Spec == Init /\ [][Next]_vars

-----------------------------------------------------------------------------
\* A daemon that serves can be reached: the file at the path is its own, and so
\* it is the only one (the guard "already in use by a live daemon").
ServesAtPath == \A d \in Daemons : pc[d] = "serving" => path = d

\* With the types: only one daemon serves, the one the path leads to (serve,
\* clear_stale_socket).
PathInv == TypeOK /\ ServesAtPath

\* A crash never locks the path: a start that nobody disturbs ends with this
\* daemon serving or with another one alive (the unlink of a stale file).
StartsOrIsRefusedForALiveOne ==
  [][\A d \in Daemons : pc[d] \in Starting /\ pc'[d] = "refused" =>
       \/ pc[d] = "restricting"
       \/ \E e \in Daemons \ {d} : Live(e)]_vars
=============================================================================
