----------------------------- MODULE LogChannel -----------------------------
(***************************************************************************)
(* The calls of the log client cut at their network calls: reading the      *)
(* configuration, ps5log__open_channel, ps5log__send_all and the shim       *)
(* native/ps5log/ps5log_ps5_net.c, which makes poll() of an epoll object.   *)
(*                                                                          *)
(* The variables of Ps5Log are the memory of the client and the world, at   *)
(* every moment.  `call` is the call that is running; `entry` is what those *)
(* variables were when it began, a history variable.  A caller sees the     *)
(* state between calls only, and what it sees is a behaviour of Ps5Log.     *)
(*                                                                          *)
(* A send that comes back with a part of a line has used up SO_SNDTIMEO:    *)
(* until then a blocking socket waits for room.  A send that is interrupted *)
(* before it took anything is repeated and changes nothing.  The options of *)
(* a socket, whose results nobody looks at, are taken to be set.            *)
(*                                                                          *)
(* Output of the program that is captured is not on `wire`: it goes to the  *)
(* socket as it is printed, but for what waits in stdout's buffer for the   *)
(* rest of its line and is flushed when stdio is captured or released.      *)
(***************************************************************************)
EXTENDS Ps5Log, SequencesExt

CONSTANTS
  ConfPaths,    (* how many files ps5log_load_config tries                  *)
  LineParts     (* in how many parts a line may leave                       *)

ASSUME ChannelAssumption == ConfPaths \in Nat /\ LineParts \in Nat \ {0}

VARIABLES
  call,      (* the running call: operation, step, line, parts left of it,  *)
             (* and the configuration that ps5log_init was given            *)
  entry,     (* the variables of Ps5Log when it began                       *)
  server,    (* g.cfg.server                                                *)
  open,      (* the sockets and epoll objects that are open                 *)
  ends,      (* how what the last socket carries ends, see Carrying         *)
  buffered   (* is there output in stdout's buffer?                         *)

inside == <<call, entry, server, open, ends, buffered>>

AtRest == call.op = "none"
NoConf == [enabled |-> FALSE, udp |-> FALSE, server |-> ""]
Idle   == [op |-> "none", step |-> "none", line |-> "none", left |-> 0,
           conf |-> NoConf]

ChannelInit ==
  /\ Init
  /\ call = Idle /\ entry = <<>> /\ server = "" /\ open = {}
  /\ ends = "whole" /\ buffered = FALSE

Socket == conns + 1   (* the one being opened; descriptors are used again   *)
Epoll  == 0

(* How a call begins, goes on and ends.                                     *)
Enter(op, step, line, conf) ==
  /\ call' = [op |-> op, step |-> step, line |-> line, left |-> LineParts,
              conf |-> conf]
  /\ entry' = [log |-> log, target |-> target, wire |-> wire,
               runs |-> runs, conns |-> conns]

Goto(step, line) ==
  /\ call' = [call EXCEPT !.step = step, !.line = line, !.left = LineParts]
  /\ UNCHANGED entry

Return == call' = Idle /\ entry' = <<>>

(* What a socket carries is "whole" until a send takes a part of a line:    *)
(* then it is "cut", "text" once captured output has come behind that part, *)
(* and "joined" once a line of the client has.                              *)
Carrying(end, what) ==
  CASE what = "part" /\ end = "whole" -> "cut"
    [] what = "text" /\ end = "cut"   -> "text"
    [] what # "text" /\ end # "whole" -> "joined"
    [] OTHER                          -> end

(* The fflush before stdio is captured or released, which may write nothing *)
(* or a part, and leave the rest in the buffer; nobody looks.  `end` is     *)
(* what the socket carries before it.                                       *)
Flush(asked, end) ==
  LET written == IF target["stdout"] = Console THEN end
                                               ELSE Carrying(end, "text")
  IN  IF asked /\ buffered THEN buffered' \in BOOLEAN /\ ends' \in {end, written}
                           ELSE buffered' = buffered /\ ends' = end

-----------------------------------------------------------------------------
(* Configuration.  A file is the sequence of its lines, and a line sets one *)
(* key; "bad" stands for a line without a key or with a value that its key  *)
(* does not allow, "other" for comments, unknown keys, ports and time-outs. *)
Keys  == {"DEV_SERVER=address", "DEV_SERVER=no address", "DEV_ENABLED=0",
          "DEV_ENABLED=1", "DEV_UDP=1", "bad", "other"}
Files == {<<"unreadable">>} \cup UNION {[1 .. n -> Keys] : n \in 0 .. 2}

Defaults == [enabled |-> TRUE, udp |-> FALSE, server |-> ""]

ApplyKey(conf, key) ==
  CASE key = "DEV_SERVER=address"    -> [conf EXCEPT !.server = "address"]
    [] key = "DEV_SERVER=no address" -> [conf EXCEPT !.server = "no address"]
    [] key = "DEV_ENABLED=0"         -> [conf EXCEPT !.enabled = FALSE]
    [] key = "DEV_ENABLED=1"         -> [conf EXCEPT !.enabled = TRUE]
    [] key = "DEV_UDP=1"             -> [conf EXCEPT !.udp = TRUE]
    [] OTHER                         -> conf

(* The first file that can be read decides, also when it is invalid, which  *)
(* disables the client.                                                     *)
LoadedConf(files) ==
  LET found == {i \in DOMAIN files : files[i] # <<"unreadable">>}
      used  == files[CHOOSE i \in found : \A j \in found : i <= j]
  IN  IF found = {} THEN Defaults
      ELSE IF Contains(used, "bad") THEN NoConf
      ELSE FoldLeft(ApplyKey, Defaults, used)

Loadable == {LoadedConf(files) : files \in [1 .. ConfPaths -> Files]}

(* ps5log_init behind its closing of an open channel.                       *)
Restart(l, conf) ==
  LET usable == conf.enabled /\ conf.server # ""
      fresh  == [l EXCEPT !.enabled = usable, !.udp = conf.udp,
                          !.initialized = TRUE, !.seq = 0, !.lines_sent = 0,
                          !.lines_dropped = 0,
                          !.reason = IF usable THEN "none" ELSE "disabled"]
  IN  /\ log' = fresh
      /\ runs' = runs + 1
      /\ server' = conf.server

BeginInit(conf) ==
  /\ AtRest /\ runs < MaxInits
  /\ target' = ReleasedTarget(log, target)
  /\ Flush(log.capture_active, ends)
  /\ IF Up
       THEN /\ log' = Released(log)
            /\ Enter("init", "send", "BYE", conf)
            /\ UNCHANGED <<runs, server>>
       ELSE /\ Restart(Released(log), conf)
            /\ IF log'.enabled THEN Enter("init", "socket", "HELLO", NoConf)
                               ELSE UNCHANGED <<call, entry>>
  /\ UNCHANGED <<wire, conns, open>>

(* ps5log_reconnect                                                         *)
BeginReconnectKeepingReason ==
  /\ AtRest /\ log.initialized /\ ~Up /\ log.enabled
  /\ Enter("reconnect", "socket", "RESUME", NoConf)
  /\ UNCHANGED <<log, target, wire, runs, conns, server, open, ends, buffered>>

BeginReconnect ==
  /\ AtRest /\ log.initialized /\ ~Up /\ log.enabled
  /\ log' = [log EXCEPT !.reason = "none"]
  /\ Enter("reconnect", "socket", "RESUME", NoConf)
  /\ UNCHANGED <<target, wire, runs, conns, server, open, ends, buffered>>

(* ps5log_line, ps5log_raw and ps5log_close on a channel that is up.        *)
BeginLine ==
  /\ AtRest /\ Up /\ log.seq < MaxSeq
  /\ log' = [log EXCEPT !.seq = @ + 1]
  /\ Enter("line", "send", "RECORD", NoConf)
  /\ UNCHANGED <<target, wire, runs, conns, server, open, ends, buffered>>

BeginRaw ==
  /\ AtRest /\ Up
  /\ Enter("raw", "send", "RAW", NoConf)
  /\ UNCHANGED <<vars, server, open, ends, buffered>>

BeginClose ==
  /\ AtRest /\ Up
  /\ log' = Released(log)
  /\ target' = ReleasedTarget(log, target)
  /\ Flush(log.capture_active, ends)
  /\ Enter("close", "send", "BYE", NoConf)
  /\ UNCHANGED <<wire, runs, conns, server, open>>

(* The calls that make no network call are those of Ps5Log.                 *)
CallWithoutNetwork ==
  /\ AtRest
  /\ \/ /\ ~Up
        /\ Line("failed") \/ Close("failed")
        /\ UNCHANGED <<ends, buffered>>
     \/ \E flags \in FlagSets, broken \in Breaks :
          /\ CaptureStdio(flags, broken)
          /\ Flush(/\ Up /\ ~log.udp
                   /\ "stdout" \in flags \/ (broken \in flags /\ log.capture_active),
                   ends)
     \/ ReleaseStdio /\ Flush(log.capture_active, ends)
  /\ UNCHANGED <<call, entry, server, open>>

(* The program prints a line that it does not end yet.                      *)
PrintOutput ==
  /\ AtRest /\ ~buffered
  /\ buffered' = TRUE
  /\ UNCHANGED <<vars, call, entry, server, open, ends>>

-----------------------------------------------------------------------------
(* ps5log__open_channel.                                                    *)

(* An error closes what the call has opened and disables the channel.       *)
GiveUp(closing) ==
  /\ Disable(log)
  /\ Flush(log.capture_active, ends)
  /\ open' = open \ closing
  /\ Return
  /\ UNCHANGED <<wire, runs, conns, server>>

OpenStep(step) == call.step = step /\ UNCHANGED <<vars, server, buffered>>

OpenSocket ==
  /\ OpenStep("socket") /\ server = "address"
  /\ open' = open \cup {Socket} /\ ends' = "whole"
  /\ Goto(IF log.udp THEN "connect" ELSE "nonblock", call.line)

OpenSocketFails == call.step = "socket" /\ GiveUp({})

(* F_GETFL and F_SETFL, which the shim makes of the option SO_NBIO.         *)
SetNonblocking ==
  /\ OpenStep("nonblock")
  /\ Goto("connect", call.line)
  /\ UNCHANGED <<open, ends>>

SetNonblockingFails == call.step = "nonblock" /\ GiveUp({Socket})

(* connect() refuses, is in progress or interrupted, or succeeds at once.   *)
ConnectPending ==
  /\ OpenStep("connect") /\ ~log.udp
  /\ Goto("poll", call.line)
  /\ UNCHANGED <<open, ends>>

ConnectFails == call.step = "connect" /\ GiveUp({Socket})

(* ps5log_ps5_poll: create an epoll object, name the socket, wait, destroy. *)
PollCreate ==
  /\ OpenStep("poll")
  /\ open' = open \cup {Epoll}
  /\ Goto("interest", call.line)
  /\ UNCHANGED ends

PollCreateFails == call.step = "poll" /\ GiveUp({Socket})

PollControl ==
  /\ OpenStep("interest")
  /\ Goto("wait", call.line)
  /\ UNCHANGED <<open, ends>>

PollControlFailsKeepingEpoll == call.step = "interest" /\ GiveUp({Socket})

PollControlFails == call.step = "interest" /\ GiveUp({Socket, Epoll})

PollReady ==
  /\ OpenStep("wait")
  /\ open' = open \ {Epoll}
  /\ Goto("error", call.line)
  /\ UNCHANGED ends

PollTimesOutOrFails == call.step = "wait" /\ GiveUp({Socket, Epoll})

SocketError == call.step = "error" /\ GiveUp({Socket})

(* The socket becomes the channel, and HELLO is sent on it.                 *)
Connected ==
  /\ call.step \in {"connect", "error"} /\ conns < MaxConn
  /\ log' = [log EXCEPT !.fd = Socket]
  /\ Goto("send", call.line)
  /\ UNCHANGED <<target, wire, runs, conns, server, open, ends, buffered>>

-----------------------------------------------------------------------------
(* ps5log__send_all, and what each caller makes of its outcome.             *)

Sending(lines) == call.step = "send" /\ call.line \in lines

SendPart ==
  /\ call.step = "send" /\ ~log.udp /\ call.left > 1
  /\ call' = [call EXCEPT !.left = @ - 1]
  /\ UNCHANGED <<vars, entry, server, open, ends, buffered>>

SentRecord ==
  /\ Sending({"RECORD"})
  /\ wire' = Append(wire, [run |-> runs, conn |-> log.fd, kind |-> "RECORD",
                           seq |-> log.seq])
  /\ log' = [log EXCEPT !.lines_sent = @ + 1]
  /\ ends' = Carrying(ends, "line")
  /\ Return
  /\ UNCHANGED <<target, runs, conns, server, open, buffered>>

SentRaw ==
  /\ Sending({"RAW"})
  /\ ends' = Carrying(ends, "line")
  /\ Return
  /\ UNCHANGED <<vars, server, open, buffered>>

(* A reconnect goes on to capture stdio again, without looking at failures. *)
SentHello(broken) ==
  LET flags == IF call.op = "init" \/ log.udp THEN {} ELSE log.capture_flags
  IN  /\ Sending({"HELLO", "RESUME"})
      /\ wire' = Append(wire, Hello(log, call.line, runs, log.fd))
      /\ conns' = log.fd
      /\ log' = IF flags = {} THEN log ELSE Applied(log, flags, broken)
      /\ target' = AppliedTarget(log, flags, broken)
      /\ Flush("stdout" \in flags, Carrying(ends, "line"))
      /\ Return
      /\ UNCHANGED <<runs, server, open>>

(* A failing send has sent a part of the line or nothing.                   *)
Cut == IF call.left < LineParts THEN Carrying(ends, "part") ELSE ends

SendFailsUncounted ==
  /\ Sending({"RECORD", "RAW", "HELLO", "RESUME"})
  /\ Disable(log)
  /\ Flush(log.capture_active, Cut)
  /\ open' = open \ {log.fd}
  /\ Return
  /\ UNCHANGED <<wire, runs, conns, server>>

(* The mistake of taking a time-out for a reason to go on.                  *)
SendFailsKeepingChannel ==
  /\ Sending({"RECORD", "RAW", "HELLO", "RESUME"})
  /\ log' = [log EXCEPT !.lines_dropped =
               IF call.line = "RECORD" THEN @ + 1 ELSE @]
  /\ ends' = Cut
  /\ Return
  /\ UNCHANGED <<target, wire, runs, conns, server, open, buffered>>

SendFails ==
  /\ Sending({"RECORD", "RAW", "HELLO", "RESUME"})
  /\ Disable([log EXCEPT !.lines_dropped =
                IF call.line = "RECORD" THEN @ + 1 ELSE @])
  /\ Flush(log.capture_active, Cut)
  /\ open' = open \ {log.fd}
  /\ Return
  /\ UNCHANGED <<wire, runs, conns, server>>

(* ps5log_close does not look at the outcome of BYE; ps5log_init goes on to *)
(* open the new session.                                                    *)
SaidBye(whole) ==
  LET closed == [log EXCEPT !.fd = NoFd, !.reason = "closed"]
  IN  /\ Sending({"BYE"})
      /\ wire' = IF whole
                   THEN Append(wire, [run |-> runs, conn |-> log.fd,
                                      kind |-> "BYE", seq |-> log.seq])
                   ELSE wire
      /\ ends' = IF whole THEN Carrying(ends, "line") ELSE Cut
      /\ open' = open \ {log.fd}
      /\ IF call.op = "init"
           THEN /\ Restart(closed, call.conf)
                /\ IF log'.enabled THEN Goto("socket", "HELLO") ELSE Return
           ELSE /\ log' = closed
                /\ Return
                /\ UNCHANGED <<runs, server>>
      /\ UNCHANGED <<target, conns, buffered>>

-----------------------------------------------------------------------------
OpenChannel ==
  \/ OpenSocket     \/ OpenSocketFails
  \/ SetNonblocking \/ SetNonblockingFails
  \/ ConnectPending \/ ConnectFails
  \/ PollCreate     \/ PollCreateFails
  \/ PollControl    \/ PollControlFails
  \/ PollReady      \/ PollTimesOutOrFails
  \/ SocketError    \/ Connected

SendAll ==
  \/ SendPart \/ SentRecord \/ SentRaw \/ SendFails
  \/ \E broken \in Breaks : SentHello(broken)
  \/ \E whole \in BOOLEAN : SaidBye(whole)

ChannelNext ==
  \/ \E conf \in Loadable : BeginInit(conf)
  \/ BeginReconnect \/ BeginLine \/ BeginRaw \/ BeginClose
  \/ CallWithoutNetwork \/ PrintOutput
  \/ OpenChannel
  \/ SendAll

ChannelSpec == ChannelInit /\ [][ChannelNext]_<<vars, inside>>
-----------------------------------------------------------------------------
(* What a caller has seen: the state when the running call began.           *)
Seen == IF AtRest THEN [log |-> log, target |-> target, wire |-> wire,
                        runs |-> runs, conns |-> conns]
                  ELSE entry

Session == INSTANCE Ps5Log
             WITH log <- Seen.log, target <- Seen.target, wire <- Seen.wire,
                  runs <- Seen.runs, conns <- Seen.conns

(* However its network calls end, each call does what Ps5Log says of it: it *)
(* goes through as a whole or leaves a disabled channel, the reason given   *)
(* and stdio restored.                                                      *)
ImplementsSession == Session!Spec

(* Between calls, every number of the session is sent once or dropped.      *)
NumbersAccountedFor == AtRest => RecordsAccountedFor

(* A call that fails on the way has closed every socket and epoll object    *)
(* that it opened; between calls the channel's own is the only one open.    *)
NothingLeftOpen == AtRest => open = IF Up THEN {log.fd} ELSE {}

(* No line of the client, be it a record, raw bytes, RESUME or BYE, follows *)
(* a line cut short on its connection: send_all (ps5log.h:734) stops in the *)
(* middle of a line, and the channel must be given up with it.  Captured    *)
(* output may follow it: ps5log_release_stdio flushes stdout while it still *)
(* points to the socket (ps5log.h:561), before that is closed.              *)
NoLineJoinsACutOne == ends # "joined"

(* ps5log_line "never blocks beyond send_timeout_ms" (ps5log.h:159): not    *)
(* more than one send of a record may use up its time.                      *)
RecordWaitsOneTimeout ==
  call.line = "RECORD" => LineParts - call.left <= 1
=============================================================================
