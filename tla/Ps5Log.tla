------------------------------- MODULE Ps5Log -------------------------------
(***************************************************************************)
(* The log client native/ps5log/ps5log.h: one network channel that may fail *)
(* at any send, a sequence number that keeps counting while it is down, and *)
(* the capture of stdout and stderr onto the socket.                        *)
(*                                                                          *)
(* `log` is the static ps5log_g, `target` is where the process's two stdio  *)
(* descriptors point, and `wire` holds the protocol lines the network has   *)
(* taken whole; captured output, which the socket carries between them, and *)
(* its flush when stdio is released are the matter of LogChannel.  Calls    *)
(* come from one thread ("single-threaded by contract", ps5log.h:279), so   *)
(* each is one action; the network decides its outcome.                     *)
(* LogChannel cuts the calls at their network calls and implements this.    *)
(* `enabled` says that the configuration enables the client and names a     *)
(* server.                                                                  *)
(* Levels, texts and time stamps do not matter here, and the mirror file,   *)
(* which the program never sets, is left out.  A definition named after     *)
(* another one with a suffix is a plausible bug in it and takes no part in  *)
(* the specification.                                                       *)
(***************************************************************************)
EXTENDS Integers, Sequences, FiniteSets

CONSTANTS
  FlagSets,     (* the sets of streams the caller asks to capture           *)
  DupMayFail,   (* can dup and dup2 fail?                                   *)
  MaxSeq, MaxConn, MaxInits   (* bounds on records, connections and inits   *)

Streams == {"stdout", "stderr"}

ASSUME LogAssumption ==
  /\ FlagSets \subseteq SUBSET Streams
  /\ DupMayFail \in BOOLEAN
  /\ MaxSeq \in Nat /\ MaxConn \in Nat /\ MaxInits \in Nat

VARIABLES
  log,       (* ps5log_g                                                    *)
  target,    (* [Streams -> Console or a connection]                        *)
  wire,      (* lines handed over, [run, conn, kind, seq]                   *)
  runs,      (* ps5log_init calls so far                                    *)
  conns      (* connections made so far                                     *)

vars == <<log, target, wire, runs, conns>>

Console == 0    (* the process's own stdio, before any capture              *)
NoFd    == -1

Init ==
  /\ log = [fd |-> NoFd, initialized |-> FALSE, enabled |-> FALSE, udp |-> FALSE,
            capture_flags |-> {}, capture_active |-> FALSE,
            saved |-> [f \in Streams |-> NoFd],
            seq |-> 0, lines_sent |-> 0, lines_dropped |-> 0, reason |-> "none"]
  /\ target = [f \in Streams |-> Console]
  /\ wire = <<>> /\ runs = 0 /\ conns = 0

Up == log.fd # NoFd

-----------------------------------------------------------------------------
(* Pieces of the calls, as functions of the state of the client and of the  *)
(* stdio targets.                                                           *)

(* ps5log_release_stdio                                                     *)
ReleasedTarget(l, t) ==
  [f \in Streams |-> IF l.capture_active /\ l.saved[f] # NoFd
                       THEN l.saved[f] ELSE t[f]]

Released(l) ==
  IF l.capture_active
    THEN [l EXCEPT !.saved = [f \in Streams |-> NoFd], !.capture_active = FALSE]
    ELSE l

(* The streams ps5log__apply_capture gets to: stdout comes first, and       *)
(* `broken` is the stream whose dup or dup2 fails, if any.                  *)
Reached(flags, broken) ==
  CASE broken = "stdout" /\ broken \in flags -> {}
    [] broken = "stderr" /\ broken \in flags -> flags \ {broken}
    [] OTHER -> flags

Applied(l, flags, broken) ==
  [l EXCEPT !.saved = [f \in Streams |->
                         IF f \in Reached(flags, broken) /\ @[f] = NoFd
                           THEN target[f] ELSE @[f]],
            !.capture_active = IF broken \in flags THEN @ ELSE flags # {}]

AppliedTarget(l, flags, broken) ==
  [f \in Streams |-> IF f \in Reached(flags, broken) THEN l.fd ELSE target[f]]

Breaks == IF DupMayFail THEN Streams \cup {"nothing"} ELSE {"nothing"}

(* ps5log__disable_channel                                                  *)
DisableKeepingStdio(l) ==
  /\ log' = [l EXCEPT !.fd = NoFd, !.reason = "disabled"]
  /\ UNCHANGED target

Disable(l) ==
  /\ log' = [Released(l) EXCEPT !.fd = NoFd, !.reason = "disabled"]
  /\ target' = ReleasedTarget(l, target)

(* The line that ps5log__send_hello hands over on a new connection.         *)
HelloStaleSeq(l, kind, run, conn) ==
  [run |-> run, conn |-> conn, kind |-> kind, seq |-> l.seq]

Hello(l, kind, run, conn) ==
  [run |-> run, conn |-> conn, kind |-> kind, seq |-> l.seq + 1]

(* ps5log_close: what it leaves of the client, and the BYE that the network *)
(* may take or not, which nobody looks at.                                  *)
Closed ==
  IF Up THEN [Released(log) EXCEPT !.fd = NoFd, !.reason = "closed"]
        ELSE Released(log)

Farewell(outcome) ==
  IF Up /\ outcome = "sent"
    THEN Append(wire, [run |-> runs, conn |-> log.fd, kind |-> "BYE",
                       seq |-> log.seq])
    ELSE wire

-----------------------------------------------------------------------------
Close(outcome) ==
  /\ log' = Closed
  /\ target' = ReleasedTarget(log, target)
  /\ wire' = Farewell(outcome)
  /\ UNCHANGED <<runs, conns>>

(* ps5log_init, which first closes an open channel.  `outcome` is "failed"  *)
(* when there is no connection or HELLO cannot be sent on it.               *)
InitLog(enabled, udp, bye, outcome) ==
  LET fresh == [Closed EXCEPT !.enabled = enabled, !.udp = udp,
                              !.initialized = TRUE, !.reason = "none", !.seq = 0,
                              !.lines_sent = 0, !.lines_dropped = 0]
  IN  /\ runs < MaxInits
      /\ runs' = runs + 1
      /\ target' = ReleasedTarget(log, target)
      /\ \/ /\ ~enabled \/ outcome = "failed"
            /\ log' = [fresh EXCEPT !.reason = "disabled"]
            /\ wire' = Farewell(bye)
            /\ UNCHANGED conns
         \/ /\ enabled /\ outcome = "up" /\ conns < MaxConn
            /\ conns' = conns + 1
            /\ log' = [fresh EXCEPT !.fd = conns + 1]
            /\ wire' = Append(Farewell(bye),
                              Hello(fresh, "HELLO", runs + 1, conns + 1))

(* ps5log_line                                                              *)
Line(outcome) ==
  LET numbered == [log EXCEPT !.seq = @ + 1]
  IN  /\ log.seq < MaxSeq
      /\ CASE ~Up ->
                /\ log' = [numbered EXCEPT !.lines_dropped = @ + 1]
                /\ UNCHANGED <<target, wire>>
           [] Up /\ outcome = "sent" ->
                /\ wire' = Append(wire, [run |-> runs, conn |-> log.fd,
                                         kind |-> "RECORD", seq |-> numbered.seq])
                /\ log' = [numbered EXCEPT !.lines_sent = @ + 1]
                /\ UNCHANGED target
           [] Up /\ outcome = "failed" ->
                /\ Disable([numbered EXCEPT !.lines_dropped = @ + 1])
                /\ UNCHANGED wire
      /\ UNCHANGED <<runs, conns>>

(* ps5log_raw, when the network refuses it; otherwise it changes nothing.   *)
RawFails ==
  /\ Up
  /\ Disable(log)
  /\ UNCHANGED <<wire, runs, conns>>

(* ps5log_capture_stdio.  The flags are kept even while the channel is down *)
(* or cannot be captured; a failing dup releases what was captured.         *)
CaptureStdio(flags, broken) ==
  LET asked == [log EXCEPT !.capture_flags = flags]
      l     == Applied(asked, flags, broken)
      t     == AppliedTarget(asked, flags, broken)
  IN  /\ CASE ~Up \/ log.udp ->
                log' = asked /\ UNCHANGED target
           [] Up /\ ~log.udp /\ broken \notin flags ->
                log' = l /\ target' = t
           [] Up /\ ~log.udp /\ broken \in flags ->
                log' = Released(l) /\ target' = ReleasedTarget(l, t)
      /\ UNCHANGED <<wire, runs, conns>>

ReleaseStdio ==
  /\ log' = Released(log)
  /\ target' = ReleasedTarget(log, target)
  /\ UNCHANGED <<wire, runs, conns>>

(* ps5log_reconnect.  A failing dup is not looked at.                       *)
Reconnect(outcome, broken) ==
  /\ log.initialized /\ ~Up /\ log.enabled
  /\ \/ /\ outcome = "failed"
        /\ Disable(log)
        /\ UNCHANGED <<wire, conns>>
     \/ LET l     == [log EXCEPT !.fd = conns + 1, !.reason = "none"]
            flags == IF l.udp THEN {} ELSE l.capture_flags
        IN  /\ outcome = "up" /\ conns < MaxConn
            /\ conns' = conns + 1
            /\ wire' = Append(wire, Hello(log, "RESUME", runs, conns + 1))
            /\ log' = IF flags = {} THEN l ELSE Applied(l, flags, broken)
            /\ target' = AppliedTarget(l, flags, broken)
  /\ UNCHANGED runs

Next ==
  \/ \E enabled, udp \in BOOLEAN, bye \in {"sent", "failed"},
        outcome \in {"up", "failed"} : InitLog(enabled, udp, bye, outcome)
  \/ \E outcome \in {"sent", "failed"} : Line(outcome)
  \/ \E outcome \in {"sent", "failed"} : Close(outcome)
  \/ \E flags \in FlagSets, broken \in Breaks : CaptureStdio(flags, broken)
  \/ \E outcome \in {"up", "failed"}, broken \in Breaks :
       Reconnect(outcome, broken)
  \/ RawFails
  \/ ReleaseStdio

Spec == Init /\ [][Next]_vars
-----------------------------------------------------------------------------
(* The state is well formed; what is saved for a stream is always the       *)
(* console, never a connection.                                             *)
TypeOK ==
  /\ log.fd \in {NoFd} \cup 1 .. conns
  /\ log.capture_flags \in SUBSET Streams
  /\ log.saved \in [Streams -> {NoFd, Console}]
  /\ target \in [Streams -> Console .. conns]
  /\ log.reason \in {"none", "disabled", "closed"}

Records(run) == {i \in DOMAIN wire : wire[i].kind = "RECORD" /\ wire[i].run = run}

(* Every sequence number of the session is accounted for: it was handed to  *)
(* the network once and counted as sent, or it was counted as dropped,      *)
(* across any number of losses and reconnects.                              *)
RecordsAccountedFor ==
  LET numbers == {wire[i].seq : i \in Records(runs)}
  IN  /\ log.lines_sent + log.lines_dropped = log.seq
      /\ numbers \subseteq 1 .. log.seq
      /\ Cardinality(Records(runs)) = Cardinality(numbers)
      /\ Cardinality(numbers) = log.lines_sent

(* On one connection the sequence has no gap: the records count up from the *)
(* number HELLO announced, and BYE names the last of them (docs/            *)
(* TELEMETRY.md, "BYE with a gap-free final sequence").                     *)
GapFree ==
  \A i \in DOMAIN wire : wire[i].kind \in {"RECORD", "BYE"} =>
    /\ i > 1
    /\ LET before   == wire[i - 1]
           expected == IF before.kind = "RECORD" THEN before.seq + 1
                                                 ELSE before.seq
       IN  /\ before.conn = wire[i].conn /\ before.kind # "BYE"
           /\ wire[i].seq = IF wire[i].kind = "RECORD" THEN expected
                                                       ELSE expected - 1

(* stdout and stderr point to the console or to the connection in use,      *)
(* never to one that was given up: "The original descriptors are restored   *)
(* by ps5log_close() and whenever the channel is disabled after a socket    *)
(* failure" (ps5log.h:142).                                                 *)
StdioNeverStale == \A f \in Streams : target[f] \in {Console, log.fd}

=============================================================================
