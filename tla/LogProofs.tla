------------------------------ MODULE LogProofs ------------------------------
(***************************************************************************)
(* The log client, for every number of streams, records, connections and    *)
(* inits: the calls cut at their network calls (LogChannel) implement the   *)
(* calls as a caller sees them (Ps5Log), and the channel keeps its promises *)
(* at every moment of every call.                                           *)
(*                                                                          *)
(* The argument rests on where the running call stands: what is open and    *)
(* cut at each step (ChannelAt),  how the last line on the wire and the     *)
(* next number go together (LastLine), which numbers are settled (Counted), *)
(* where stdio points (StdioAt), and what the call has made of the state in *)
(* which it began (EntryAt).                                                *)
(***************************************************************************)
EXTENDS LogChannel, FunctionTheorems, FiniteSetTheorems, SequenceTheorems,
        WellFoundedInduction, TLAPS

Confs == [enabled : BOOLEAN, udp : BOOLEAN, server : {"", "address", "no address"}]

Logs ==
  [fd : {NoFd} \cup Nat, initialized : BOOLEAN, enabled : BOOLEAN, udp : BOOLEAN,
   capture_flags : SUBSET Streams, capture_active : BOOLEAN,
   saved : [Streams -> {NoFd} \cup Nat],
   seq : Nat, lines_sent : Nat, lines_dropped : Nat,
   reason : {"none", "disabled", "closed"}]

Kinds == {"HELLO", "RESUME", "RECORD", "BYE"}

WireLines == [run : Nat, conn : Nat, kind : Kinds, seq : Nat]

OpenSteps == {"socket", "nonblock", "connect", "poll", "interest", "wait", "error"}

(* No line of the client has come behind a cut one.                         *)
Ends == {"whole", "cut", "text"}

Types ==
  /\ log \in Logs /\ target \in [Streams -> Nat]
  /\ wire \in Seq(WireLines) /\ runs \in Nat /\ conns \in Nat
  /\ ends \in Ends /\ buffered \in BOOLEAN

Calls ==
  [op : {"none", "init", "reconnect", "line", "raw", "close"},
   step : {"none", "send"} \cup OpenSteps,
   line : {"none", "HELLO", "RESUME", "RECORD", "RAW", "BYE"},
   left : Nat, conf : Confs]

(* Which steps and lines each operation has.                                *)
Shape ==
  /\ call \in Calls
  /\ AtRest => call = Idle
  /\ call.op = "line"  => call.step = "send" /\ call.line = "RECORD"
  /\ call.op = "raw"   => call.step = "send" /\ call.line = "RAW"
  /\ call.op = "close" => call.step = "send" /\ call.line = "BYE"
  /\ call.op = "reconnect" => call.step \in OpenSteps \cup {"send"} /\ call.line = "RESUME"
  /\ call.op = "init" =>
       \/ call.step = "send" /\ call.line = "BYE"
       \/ call.step \in OpenSteps \cup {"send"} /\ call.line = "HELLO"

(* What is open, and what is cut, at each step.                             *)
ChannelAt ==
  /\ AtRest \/ call.step = "send" => open = IF Up THEN {log.fd} ELSE {}
  /\ call.step = "send" => Up
  /\ call.step \in OpenSteps => ~Up
  /\ call.step = "socket" => open = {}
  /\ call.step \in {"nonblock", "connect", "poll", "error"} => open = {Socket}
  /\ call.step \in {"interest", "wait"} => open = {Socket, Epoll}
  /\ call.step \in OpenSteps \ {"socket"} \/ Up => ends = "whole"

-----------------------------------------------------------------------------
(* The pieces of the calls keep the client's type.                          *)
LEMMA ReleasedType ==
  ASSUME NEW l \in Logs, NEW t \in [Streams -> Nat]
  PROVE  /\ Released(l) \in Logs /\ Released(l).fd = l.fd
         /\ ~Released(l).capture_active
         /\ ReleasedTarget(l, t) \in [Streams -> Nat]
<1>1. Released(l) \in Logs /\ Released(l).fd = l.fd /\ ~Released(l).capture_active
  BY DEF Released, Logs, NoFd
<1>2. \A f \in Streams : l.saved[f] \in {NoFd} \cup Nat
  BY DEF Logs
<1>3. ReleasedTarget(l, t) \in [Streams -> Nat]
  BY <1>2 DEF ReleasedTarget
<1> QED BY <1>1, <1>3

LEMMA AppliedType ==
  ASSUME NEW l \in Logs, NEW flags \in SUBSET Streams, NEW broken,
         target \in [Streams -> Nat]
  PROVE  /\ Applied(l, flags, broken) \in Logs
         /\ Applied(l, flags, broken).fd = l.fd
         /\ l.fd # NoFd => AppliedTarget(l, flags, broken) \in [Streams -> Nat]
<1> DEFINE s == [f \in Streams |-> IF f \in Reached(flags, broken) /\ l.saved[f] = NoFd
                                     THEN target[f] ELSE l.saved[f]]
           a == IF broken \in flags THEN l.capture_active ELSE flags # {}
<1>1. Applied(l, flags, broken) = [l EXCEPT !.saved = s, !.capture_active = a]
  BY DEF Applied
<1>2. s \in [Streams -> {NoFd} \cup Nat]
  BY DEF Logs
<1>3. a \in BOOLEAN
  BY DEF Logs
<1> HIDE DEF s, a
<1>4. Applied(l, flags, broken) \in Logs /\ Applied(l, flags, broken).fd = l.fd
  BY <1>1, <1>2, <1>3 DEF Logs
<1>5. l.fd # NoFd => AppliedTarget(l, flags, broken) \in [Streams -> Nat]
  BY DEF AppliedTarget, Logs, NoFd
<1> QED BY <1>4, <1>5

LEMMA FlushedEnds ==
  ASSUME buffered \in BOOLEAN, NEW asked, NEW end \in Ends, Flush(asked, end)
  PROVE  /\ buffered' \in BOOLEAN /\ ends' \in Ends
         /\ end = "whole" => ends' = "whole"
BY DEF Flush, Ends, Carrying

LEMMA SentEnds ==
  ASSUME ends = "whole"
  PROVE  Carrying(ends, "line") = "whole" /\ Cut \in Ends
BY DEF Carrying, Cut, Ends

LEMMA DisableType ==
  ASSUME NEW l \in Logs, target \in [Streams -> Nat], Disable(l)
  PROVE  log' \in Logs /\ target' \in [Streams -> Nat] /\ log'.fd = NoFd
BY ReleasedType DEF Disable, Logs

(* A file has at most two lines, so its fold has a value: parsing it leaves *)
(* a configuration.                                                         *)
LEMMA ApplyKeyType ==
  ASSUME NEW conf \in Confs, NEW key PROVE ApplyKey(conf, key) \in Confs
BY DEF ApplyKey, Confs

LEMMA LastLineOfSome == Max({1}) = 1 /\ Max({2}) = 2 /\ Max({1, 2}) = 2
BY DEF Max

LEMMA FoldedType ==
  ASSUME NEW lines, DOMAIN lines \in SUBSET {1, 2}
  PROVE  FoldLeft(ApplyKey, Defaults, lines) \in Confs
<1> DEFINE D == DOMAIN lines
           H == [s \in SUBSET D |->
                   IF s = {} THEN Defaults
                   ELSE IF s = {1} THEN ApplyKey(Defaults, lines[1])
                   ELSE IF s = {2} THEN ApplyKey(Defaults, lines[2])
                   ELSE ApplyKey(ApplyKey(Defaults, lines[1]), lines[2])]
           Fold(g) == g = [s \in SUBSET D |->
                             IF s = {} THEN Defaults
                             ELSE LET x == Max(s)
                                  IN  ApplyKey(g[s \ {x}], lines[x])]
           G == CHOOSE g : Fold(g)
<1>0. \A s \in SUBSET D : s = {} \/ s = {1} \/ s = {2} \/ s = {1, 2}
  OBVIOUS
<1>1. Fold(H)
  <2>1. ASSUME NEW s \in SUBSET D
        PROVE  H[s] = IF s = {} THEN Defaults
                      ELSE LET x == Max(s) IN ApplyKey(H[s \ {x}], lines[x])
    <3>1. CASE s = {} BY <3>1
    <3>2. CASE s = {1}
      <4>1. s \ {Max(s)} = {} BY <3>2, LastLineOfSome
      <4> QED BY <3>2, <4>1, LastLineOfSome
    <3>3. CASE s = {2}
      <4>1. s \ {Max(s)} = {} BY <3>3, LastLineOfSome
      <4> QED BY <3>3, <4>1, LastLineOfSome
    <3>4. CASE s = {1, 2}
      <4>1. s \ {Max(s)} = {1} /\ {1} \in SUBSET D BY <3>4, LastLineOfSome
      <4> QED BY <3>4, <4>1, LastLineOfSome
    <3> QED BY <1>0, <3>1, <3>2, <3>3, <3>4
  <2> QED BY <2>1, Zenon
<1>2. Fold(G)
  <2> HIDE DEF Fold, H
  <2> QED BY <1>1, Zenon
<1>3. FoldLeft(ApplyKey, Defaults, lines) = G[D]
  BY DEF FoldLeft, MapThenFoldSet
<1>4. \A s \in SUBSET D :
        G[s] = IF s = {} THEN Defaults
               ELSE LET x == Max(s) IN ApplyKey(G[s \ {x}], lines[x])
  <2> HIDE DEF G
  <2> QED BY <1>2
<1> HIDE DEF Fold, G, H
<1>5. Defaults \in Confs
  BY DEF Defaults, Confs
<1>6. {} \in SUBSET D => G[{}] \in Confs
  BY <1>4, <1>5
<1>7. \A x \in {1, 2} : {x} \in SUBSET D => G[{x}] \in Confs
  <2> SUFFICES ASSUME NEW x \in {1, 2}, {x} \in SUBSET D PROVE G[{x}] \in Confs
    OBVIOUS
  <2>1. Max({x}) = x /\ {x} \ {x} = {} /\ {x} # {}
    BY LastLineOfSome
  <2>2. G[{x}] = ApplyKey(G[{}], lines[x])
    BY <1>4, <2>1
  <2> QED BY <1>6, <2>2, ApplyKeyType
<1>8. {1, 2} \in SUBSET D => G[{1, 2}] \in Confs
  <2> SUFFICES ASSUME {1, 2} \in SUBSET D PROVE G[{1, 2}] \in Confs
    OBVIOUS
  <2>1. Max({1, 2}) = 2 /\ {1, 2} \ {2} = {1} /\ {1, 2} # {} /\ {1} \in SUBSET D
    BY LastLineOfSome
  <2>2. G[{1, 2}] = ApplyKey(G[{1}], lines[2])
    BY <1>4, <2>1
  <2> QED BY <1>7, <2>1, <2>2, ApplyKeyType
<1> QED BY <1>0, <1>3, <1>6, <1>7, <1>8

(* Every configuration that can be loaded is one.                           *)
LEMMA LoadableType == Loadable \subseteq Confs
<1> SUFFICES ASSUME NEW files \in [1 .. ConfPaths -> Files]
             PROVE  LoadedConf(files) \in Confs
  BY DEF Loadable
<1> DEFINE found == {i \in DOMAIN files : files[i] # <<"unreadable">>}
           first == CHOOSE i \in found : \A j \in found : i <= j
<1>1. CASE found = {}
  BY <1>1 DEF LoadedConf, Defaults, Confs
<1>2. CASE found # {}
  <2>1. found \subseteq Nat
    BY ChannelAssumption
  <2>2. first \in found
    <3> HIDE DEF found
    <3>1. \E i \in found : \A j \in found : ~(<<j, i>> \in OpToRel(<, Nat))
      BY <1>2, <2>1, NatLessThanWellFounded, WFMin
    <3>2. \E i \in found : \A j \in found : i <= j
      <4>1. \A i, j \in Nat : <<j, i>> \in OpToRel(<, Nat) <=> j < i
        BY DEF OpToRel
      <4>2. PICK i \in found : \A j \in found : ~(<<j, i>> \in OpToRel(<, Nat))
        BY <3>1
      <4>3. \A j \in found : ~(j < i)
        BY <2>1, <4>1, <4>2, Zenon
      <4>4. \A j \in found : i <= j
        BY <2>1, <4>3
      <4> QED BY <4>4
    <3> QED BY <3>2
  <2>3. files[first] \in UNION {[1 .. n -> Keys] : n \in 0 .. 2}
    BY <2>2 DEF Files
  <2>4. DOMAIN files[first] \in SUBSET {1, 2}
    <3> HIDE DEF first, found
    <3>1. PICK n \in 0 .. 2 : files[first] \in [1 .. n -> Keys]
      BY <2>3
    <3> QED BY <3>1
  <2>5. FoldLeft(ApplyKey, Defaults, files[first]) \in Confs
    <3> HIDE DEF first, found
    <3> QED BY <2>4, FoldedType
  <2> QED BY <1>2, <2>5 DEF LoadedConf, NoConf, Confs
<1> QED BY <1>1, <1>2

-----------------------------------------------------------------------------
BaseInv == Types /\ Shape /\ ChannelAt

(* How a call begins, goes on and ends.                                     *)
LEMMA CallTypes ==
  ASSUME call \in Calls
  PROVE  /\ Idle \in Calls
         /\ \A op, step, line, conf :
              /\ Enter(op, step, line, conf)
              /\ op \in {"init", "reconnect", "line", "raw", "close"}
              /\ step \in {"send"} \cup OpenSteps /\ conf \in Confs
              /\ line \in {"HELLO", "RESUME", "RECORD", "RAW", "BYE"}
              => /\ call' \in Calls /\ call'.op = op /\ call'.step = step
                 /\ call'.line = line /\ call'.conf = conf
         /\ \A step, line :
              /\ Goto(step, line)
              /\ step \in {"send"} \cup OpenSteps
              /\ line \in {"HELLO", "RESUME", "RECORD", "RAW", "BYE"}
              => /\ call' \in Calls /\ call'.op = call.op /\ call'.step = step
                 /\ call'.line = line /\ call'.conf = call.conf
<1>1. LineParts \in Nat
  BY ChannelAssumption
<1>2. Idle \in Calls
  BY DEF Idle, Calls, NoConf, Confs
<1>3. ASSUME NEW op, NEW step, NEW line, NEW conf, Enter(op, step, line, conf),
             op \in {"init", "reconnect", "line", "raw", "close"},
             step \in {"send"} \cup OpenSteps, conf \in Confs,
             line \in {"HELLO", "RESUME", "RECORD", "RAW", "BYE"}
      PROVE  /\ call' \in Calls /\ call'.op = op /\ call'.step = step
             /\ call'.line = line /\ call'.conf = conf
  BY <1>1, <1>3 DEF Enter, Calls
<1>4. ASSUME NEW step, NEW line, Goto(step, line),
             step \in {"send"} \cup OpenSteps,
             line \in {"HELLO", "RESUME", "RECORD", "RAW", "BYE"}
      PROVE  /\ call' \in Calls /\ call'.op = call.op /\ call'.step = step
             /\ call'.line = line /\ call'.conf = call.conf
  BY <1>1, <1>4 DEF Goto, Calls
<1> QED BY <1>2, <1>3, <1>4

LEMMA NoConfType == NoConf \in Confs
BY DEF NoConf, Confs

(* The start of a session: an idle client, numbered from zero.              *)
LEMMA RestartType ==
  ASSUME NEW l \in Logs, NEW conf \in Confs, Restart(l, conf), runs \in Nat
  PROVE  /\ log' \in Logs /\ log'.fd = l.fd /\ runs' \in Nat
         /\ log'.enabled <=> conf.enabled /\ conf.server # ""
<1> DEFINE usable == conf.enabled /\ conf.server # ""
<1>1. usable \in BOOLEAN /\ conf.udp \in BOOLEAN
  BY DEF Confs
<1>2. log' = [l EXCEPT !.enabled = usable, !.udp = conf.udp,
                       !.initialized = TRUE, !.seq = 0, !.lines_sent = 0,
                       !.lines_dropped = 0,
                       !.reason = IF usable THEN "none" ELSE "disabled"]
  BY DEF Restart
<1>3. log'.enabled = usable
  BY <1>2 DEF Logs
<1>4. runs' \in Nat
  BY DEF Restart
<1> HIDE DEF usable
<1>5. log' \in Logs /\ log'.fd = l.fd
  BY <1>1, <1>2 DEF Logs
<1> QED BY <1>3, <1>4, <1>5 DEF usable

LEMMA BeginInitBase ==
  ASSUME BaseInv, NEW conf \in Loadable, BeginInit(conf) PROVE BaseInv'
<1> USE DEF BeginInit
<1>0. conf \in Confs /\ call \in Calls
  BY LoadableType DEF BaseInv, Shape
<1>1. /\ call = Idle /\ AtRest /\ log \in Logs /\ target \in [Streams -> Nat]
      /\ UNCHANGED <<wire, conns, open>>
  BY DEF BaseInv, Shape, Types
<1>5. /\ buffered' \in BOOLEAN /\ ends' \in Ends
      /\ Up => ends' = "whole"
  BY FlushedEnds DEF BaseInv, Types, ChannelAt
<1>2. /\ Released(log) \in Logs /\ Released(log).fd = log.fd
      /\ target' \in [Streams -> Nat]
  BY <1>1, ReleasedType
<1>3. CASE Up
  <2>1. log' = Released(log) /\ runs' = runs
    BY <1>3
  <2>2. /\ call'.op = "init" /\ call'.step = "send" /\ call'.line = "BYE"
        /\ call' \in Calls
    BY <1>0, <1>3, CallTypes
  <2>3. Types'
    BY <1>1, <1>2, <1>5, <2>1 DEF BaseInv, Types
  <2>4. Shape'
    BY <2>2 DEF Shape, AtRest
  <2>5. ChannelAt'
    BY <1>1, <1>2, <1>3, <1>5, <2>1, <2>2 DEF BaseInv, ChannelAt, AtRest, Up, OpenSteps
  <2> QED BY <2>3, <2>4, <2>5 DEF BaseInv
<1>4. CASE ~Up
  <2>1. Restart(Released(log), conf)
    BY <1>4
  <2>2. log' \in Logs /\ log'.fd = NoFd /\ runs' \in Nat
    BY <1>0, <1>2, <1>4, <2>1, RestartType DEF Up, BaseInv, Types
  <2>3. \/ /\ call'.op = "init" /\ call'.step = "socket" /\ call'.line = "HELLO"
           /\ call' \in Calls
        \/ call' = call
    BY <1>0, <1>4, CallTypes, NoConfType DEF OpenSteps
  <2>4. Types'
    BY <1>1, <1>2, <1>5, <2>2 DEF BaseInv, Types
  <2>5. Shape'
    BY <1>0, <1>1, <2>3 DEF Shape, AtRest, Idle, OpenSteps
  <2>6. ChannelAt'
    BY <1>1, <1>4, <2>2, <2>3 DEF BaseInv, ChannelAt, AtRest, Up, OpenSteps, Idle
  <2> QED BY <2>4, <2>5, <2>6 DEF BaseInv
<1> QED BY <1>3, <1>4

LEMMA BeginBase ==
  ASSUME BaseInv, BeginReconnect \/ BeginLine \/ BeginRaw \/ BeginClose
  PROVE  BaseInv'
<1>1. call = Idle /\ AtRest /\ log \in Logs /\ target \in [Streams -> Nat]
      /\ UNCHANGED <<wire, conns, runs, open>>
  BY DEF BaseInv, Shape, Types, BeginReconnect, BeginLine, BeginRaw, BeginClose, vars
<1>2. log' \in Logs /\ log'.fd = log.fd /\ target' \in [Streams -> Nat]
  <2>1. CASE BeginReconnect BY <1>1, <2>1 DEF BeginReconnect, Logs
  <2>2. CASE BeginLine BY <1>1, <2>2 DEF BeginLine, Logs
  <2>3. CASE BeginRaw BY <1>1, <2>3 DEF BeginRaw, vars
  <2>4. CASE BeginClose BY <1>1, <2>4, ReleasedType DEF BeginClose
  <2> QED BY <2>1, <2>2, <2>3, <2>4
<1>8. buffered' \in BOOLEAN /\ ends' \in Ends /\ (Up => ends' = "whole")
  BY FlushedEnds DEF BaseInv, Types, ChannelAt, BeginReconnect, BeginLine, BeginRaw,
                     BeginClose
<1>3. Types'
  BY <1>1, <1>2, <1>8 DEF BaseInv, Types
<1>0. call \in Calls /\ "socket" \in OpenSteps
  BY DEF BaseInv, Shape, OpenSteps
<1>7. call' \in Calls
  BY <1>0, CallTypes, NoConfType DEF BeginReconnect, BeginLine, BeginRaw, BeginClose
<1>4. \/ /\ call'.op = "reconnect" /\ call'.step = "socket" /\ call'.line = "RESUME" /\ ~Up
      \/ /\ call'.step = "send" /\ Up
         /\ \/ call'.op = "line" /\ call'.line = "RECORD"
            \/ call'.op = "raw" /\ call'.line = "RAW"
            \/ call'.op = "close" /\ call'.line = "BYE"
  BY <1>0, CallTypes, NoConfType DEF BeginReconnect, BeginLine, BeginRaw, BeginClose
<1>5. Shape'
  BY <1>4, <1>7 DEF Shape, AtRest, OpenSteps
<1>6. ChannelAt'
  BY <1>1, <1>2, <1>4, <1>8 DEF BaseInv, ChannelAt, AtRest, Up, OpenSteps
<1> QED BY <1>3, <1>5, <1>6 DEF BaseInv

(* Calls without a network call leave the channel alone.                    *)
LEMMA WithoutNetworkBase ==
  ASSUME BaseInv, CallWithoutNetwork PROVE BaseInv'
<1>1. /\ call = Idle /\ AtRest /\ log \in Logs /\ target \in [Streams -> Nat]
      /\ UNCHANGED <<call, open>>
  BY DEF BaseInv, Shape, Types, CallWithoutNetwork
<1>6. buffered' \in BOOLEAN /\ ends' \in Ends /\ (Up => ends' = "whole")
  BY FlushedEnds DEF BaseInv, Types, ChannelAt, CallWithoutNetwork
<1> DEFINE Same == /\ log' \in Logs /\ log'.fd = log.fd
                   /\ target' \in [Streams -> Nat]
                   /\ wire' = wire /\ runs' = runs /\ conns' = conns
<1>2. Same
  <2>1. ASSUME ~Up, Line("failed") PROVE Same
    <3> DEFINE numbered == [log EXCEPT !.seq = @ + 1]
    <3>1. /\ log' = [numbered EXCEPT !.lines_dropped = @ + 1]
          /\ UNCHANGED <<target, wire, runs, conns>>
      BY <2>1 DEF Line
    <3>2. numbered \in Logs /\ numbered.fd = log.fd
      BY <1>1 DEF Logs
    <3> HIDE DEF numbered
    <3>3. log' \in Logs /\ log'.fd = log.fd
      BY <3>1, <3>2 DEF Logs
    <3> QED BY <1>1, <3>1, <3>3
  <2>2. ASSUME ~Up, Close("failed") PROVE Same
    BY <1>1, <2>2, ReleasedType DEF Close, Closed, Farewell
  <2>3. CASE ReleaseStdio
    BY <1>1, <2>3, ReleasedType DEF ReleaseStdio
  <2>4. ASSUME NEW flags \in FlagSets, NEW broken \in Breaks, CaptureStdio(flags, broken)
        PROVE  Same
    <3> DEFINE asked == [log EXCEPT !.capture_flags = flags]
    <3>0. flags \in SUBSET Streams
      BY LogAssumption
    <3>1. asked \in Logs /\ asked.fd = log.fd
      BY <1>1, <3>0 DEF Logs
    <3> HIDE DEF asked
    <3>2. /\ Applied(asked, flags, broken) \in Logs
          /\ Applied(asked, flags, broken).fd = log.fd
          /\ log.fd # NoFd => AppliedTarget(asked, flags, broken) \in [Streams -> Nat]
      BY <1>1, <3>0, <3>1, AppliedType
    <3>3. wire' = wire /\ runs' = runs /\ conns' = conns
      BY <2>4 DEF CaptureStdio
    <3>4. \/ log' = asked /\ target' = target
          \/ /\ Up /\ log' = Applied(asked, flags, broken)
             /\ target' = AppliedTarget(asked, flags, broken)
          \/ /\ Up /\ log' = Released(Applied(asked, flags, broken))
             /\ target' = ReleasedTarget(Applied(asked, flags, broken),
                                         AppliedTarget(asked, flags, broken))
      BY <2>4 DEF CaptureStdio, asked
    <3>5. log' \in Logs /\ log'.fd = log.fd /\ target' \in [Streams -> Nat]
      BY <1>1, <3>1, <3>2, <3>4, ReleasedType DEF Up
    <3> QED BY <3>3, <3>5
  <2> HIDE DEF Same
  <2> QED BY <2>1, <2>2, <2>3, <2>4, Zenon DEF CallWithoutNetwork
<1>3. Types'
  BY <1>1, <1>2, <1>6 DEF BaseInv, Types
<1>4. Shape'
  BY <1>1 DEF BaseInv, Shape, AtRest
<1>5. ChannelAt'
  BY <1>1, <1>2, <1>6 DEF BaseInv, ChannelAt, AtRest, Up, OpenSteps, Idle, Socket
<1> QED BY <1>3, <1>4, <1>5 DEF BaseInv

LEMMA PrintOutputBase == ASSUME BaseInv, PrintOutput PROVE BaseInv'
BY DEF PrintOutput, vars, BaseInv, Types, Shape, ChannelAt, AtRest, Up, Socket

(* ps5log__open_channel: its steps and its errors.                          *)
LEMMA GiveUpBase ==
  ASSUME BaseInv, NEW closing, GiveUp(closing), call.step \in OpenSteps,
         open \ closing = {}
  PROVE  BaseInv'
<1>1. /\ call' = Idle /\ open' = {} /\ Disable(log)
      /\ UNCHANGED <<wire, runs, conns, server>>
  BY DEF GiveUp, Return
<1>5. buffered' \in BOOLEAN /\ ends' \in Ends
  BY FlushedEnds DEF BaseInv, Types, GiveUp
<1>2. log' \in Logs /\ target' \in [Streams -> Nat] /\ log'.fd = NoFd
  BY <1>1, DisableType DEF BaseInv, Types
<1>3. Types' /\ Shape'
  BY <1>1, <1>2, <1>5, CallTypes DEF BaseInv, Types, Shape, AtRest, Idle
<1>4. ChannelAt'
  BY <1>1, <1>2 DEF ChannelAt, AtRest, Up, Idle, OpenSteps
<1> QED BY <1>3, <1>4 DEF BaseInv

LEMMA OpenFailsBase ==
  ASSUME BaseInv,
         \/ OpenSocketFails \/ SetNonblockingFails \/ ConnectFails
         \/ PollCreateFails \/ PollControlFails \/ PollTimesOutOrFails \/ SocketError
  PROVE  BaseInv'
<1>1. CASE OpenSocketFails
  <2>1. call.step = "socket" /\ GiveUp({}) BY <1>1 DEF OpenSocketFails
  <2> QED BY <2>1, GiveUpBase DEF BaseInv, ChannelAt, OpenSteps
<1>2. CASE SetNonblockingFails \/ ConnectFails \/ PollCreateFails \/ SocketError
  <2>1. /\ call.step \in {"nonblock", "connect", "poll", "error"}
        /\ GiveUp({Socket})
    BY <1>2 DEF SetNonblockingFails, ConnectFails, PollCreateFails, SocketError
  <2> QED BY <2>1, GiveUpBase DEF BaseInv, ChannelAt, OpenSteps
<1>3. CASE PollControlFails \/ PollTimesOutOrFails
  <2>1. call.step \in {"interest", "wait"} /\ GiveUp({Socket, Epoll})
    BY <1>3 DEF PollControlFails, PollTimesOutOrFails
  <2> QED BY <2>1, GiveUpBase DEF BaseInv, ChannelAt, OpenSteps
<1> QED BY <1>1, <1>2, <1>3

(* A step of the opening that stays in it.                                  *)
LEMMA OpenGoesOnBase ==
  ASSUME BaseInv,
         \/ OpenSocket \/ SetNonblocking \/ ConnectPending
         \/ PollCreate \/ PollControl \/ PollReady
  PROVE  BaseInv'
<1>1. call.step \in OpenSteps /\ UNCHANGED vars
  BY DEF OpenSocket, SetNonblocking, ConnectPending, PollCreate, PollControl,
         PollReady, OpenStep, OpenSteps
<1>2. call.op # "none" /\ call \in Calls /\ call.line \in {"HELLO", "RESUME"}
  BY <1>1 DEF BaseInv, Shape, AtRest, Idle, OpenSteps, Calls
<1>3. PICK step \in OpenSteps \ {"socket"} : Goto(step, call.line)
  BY DEF OpenSocket, SetNonblocking, ConnectPending, PollCreate, PollControl,
         PollReady, OpenSteps
<1>4. /\ call' \in Calls /\ call'.op = call.op /\ call'.step = step
      /\ call'.line = call.line
  BY <1>2, <1>3, CallTypes
<1>5. Types' /\ Shape'
  <2>1. ends' \in Ends /\ buffered' = buffered
    BY DEF BaseInv, Types, Ends, OpenSocket, SetNonblocking, ConnectPending,
           PollCreate, PollControl, PollReady, OpenStep
  <2>2. Types'
    BY <1>1, <2>1 DEF BaseInv, Types, vars
  <2>3. Shape'
    BY <1>2, <1>3, <1>4 DEF BaseInv, Shape, AtRest
  <2> QED BY <2>2, <2>3
<1>6. ~AtRest' /\ conns \in Nat
  BY <1>2, <1>4 DEF AtRest, BaseInv, Types
<1> SUFFICES ChannelAt'
  BY <1>5 DEF BaseInv
<1>7. CASE OpenSocket
  <2>1. call.step = "socket" /\ call'.step \in {"connect", "nonblock"} /\ open' = open \cup {Socket} /\ ends' = "whole"
    BY <1>2, <1>7, CallTypes DEF OpenSocket, OpenStep, OpenSteps
  <2> QED BY <1>1, <1>6, <2>1 DEF BaseInv, ChannelAt, OpenSteps, AtRest, Socket, Epoll, Up,
                                 vars
<1>8. CASE SetNonblocking
  <2>1. call.step = "nonblock" /\ call'.step = "connect" /\ open' = open /\ ends' = ends
    BY <1>2, <1>8, CallTypes DEF SetNonblocking, OpenStep, OpenSteps
  <2> QED BY <1>1, <1>6, <2>1 DEF BaseInv, ChannelAt, OpenSteps, AtRest, Socket, Epoll, Up,
                                 vars
<1>9. CASE ConnectPending
  <2>1. call.step = "connect" /\ call'.step = "poll" /\ open' = open /\ ends' = ends
    BY <1>2, <1>9, CallTypes DEF ConnectPending, OpenStep, OpenSteps
  <2> QED BY <1>1, <1>6, <2>1 DEF BaseInv, ChannelAt, OpenSteps, AtRest, Socket, Epoll, Up,
                                 vars
<1>10. CASE PollCreate
  <2>1. call.step = "poll" /\ call'.step = "interest" /\ open' = open \cup {Epoll} /\ ends' = ends
    BY <1>2, <1>10, CallTypes DEF PollCreate, OpenStep, OpenSteps
  <2> QED BY <1>1, <1>6, <2>1 DEF BaseInv, ChannelAt, OpenSteps, AtRest, Socket, Epoll, Up,
                                 vars
<1>11. CASE PollControl
  <2>1. call.step = "interest" /\ call'.step = "wait" /\ open' = open /\ ends' = ends
    BY <1>2, <1>11, CallTypes DEF PollControl, OpenStep, OpenSteps
  <2> QED BY <1>1, <1>6, <2>1 DEF BaseInv, ChannelAt, OpenSteps, AtRest, Socket, Epoll, Up,
                                 vars
<1>12. CASE PollReady
  <2>1. call.step = "wait" /\ call'.step = "error" /\ open' = open \ {Epoll} /\ ends' = ends
    BY <1>2, <1>12, CallTypes DEF PollReady, OpenStep, OpenSteps
  <2> QED BY <1>1, <1>6, <2>1 DEF BaseInv, ChannelAt, OpenSteps, AtRest, Socket, Epoll, Up,
                                 vars
<1> QED BY <1>7, <1>8, <1>9, <1>10, <1>11, <1>12

LEMMA ConnectedBase ==
  ASSUME BaseInv, Connected PROVE BaseInv'
<1>1. /\ call.step \in {"connect", "error"} /\ Goto("send", call.line)
      /\ log' = [log EXCEPT !.fd = Socket]
      /\ UNCHANGED <<target, wire, runs, conns, server, open, ends, buffered>>
  BY DEF Connected
<1>2. call \in Calls /\ call.op # "none" /\ call.line \in {"HELLO", "RESUME"}
  BY <1>1 DEF BaseInv, Shape, AtRest, Idle, Calls
<1>3. /\ call' \in Calls /\ call'.op = call.op /\ call'.step = "send"
      /\ call'.line = call.line
  BY <1>1, <1>2, CallTypes
<1>4. conns \in Nat /\ Socket \in Nat /\ Socket # NoFd
  BY DEF BaseInv, Types, Socket, NoFd
<1>5. log' \in Logs /\ log'.fd = Socket
  BY <1>1, <1>4 DEF BaseInv, Types, Logs
<1>6. Types' /\ Shape'
  BY <1>1, <1>2, <1>3, <1>5 DEF BaseInv, Types, Shape, AtRest
<1>7. ChannelAt'
  BY <1>1, <1>3, <1>4, <1>5 DEF BaseInv, ChannelAt, OpenSteps, Up
<1> QED BY <1>6, <1>7 DEF BaseInv

(* A send that goes through leaves the channel as it is.                    *)
LEMMA SentBase ==
  ASSUME BaseInv,
         SendPart \/ SentRecord \/ SentRaw \/ \E broken \in Breaks : SentHello(broken)
  PROVE  BaseInv'
<1>1. /\ call.step = "send" /\ open' = open /\ runs' = runs
      /\ log \in Logs /\ target \in [Streams -> Nat] /\ Up /\ call \in Calls
      /\ open = {log.fd} /\ conns \in Nat /\ wire \in Seq(WireLines)
  BY DEF BaseInv, Types, Shape, ChannelAt, SendPart, SentRecord, SentRaw, SentHello,
         Sending, vars
<1>2. log.fd \in Nat /\ log.seq \in Nat /\ log.capture_flags \in SUBSET Streams
  BY <1>1 DEF Logs, Up
<1>7. buffered' \in BOOLEAN /\ ends' = "whole"
  <2>1. ends = "whole" /\ buffered \in BOOLEAN /\ "whole" \in Ends
    BY <1>1 DEF BaseInv, Types, ChannelAt, Ends
  <2>2. CASE SendPart \/ SentRecord \/ SentRaw
    BY <2>1, <2>2, SentEnds DEF SendPart, SentRecord, SentRaw
  <2>3. ASSUME NEW broken \in Breaks, SentHello(broken)
        PROVE  buffered' \in BOOLEAN /\ ends' = "whole"
    <3> DEFINE asked == "stdout" \in (IF call.op = "init" \/ log.udp
                                         THEN {} ELSE log.capture_flags)
    <3>1. Flush(asked, Carrying(ends, "line"))
      BY <2>3 DEF SentHello
    <3> HIDE DEF asked
    <3> QED BY <2>1, <3>1, SentEnds, FlushedEnds
  <2> QED BY <2>2, <2>3
<1> DEFINE Fine == /\ log' \in Logs /\ log'.fd = log.fd
                   /\ target' \in [Streams -> Nat]
                   /\ wire' \in Seq(WireLines) /\ conns' \in Nat
<1>3. Fine
  <2>1. CASE SendPart \/ SentRaw
    BY <1>1, <2>1 DEF SendPart, SentRaw, vars
  <2>2. CASE SentRecord
    <3>0. log' = [log EXCEPT !.lines_sent = @ + 1] /\ log \in Logs
      BY <1>1, <2>2 DEF SentRecord
    <3>1. log' \in Logs /\ log'.fd = log.fd
      BY <3>0 DEF Logs
    <3>2. [run |-> runs, conn |-> log.fd, kind |-> "RECORD", seq |-> log.seq]
            \in WireLines
      BY <1>2 DEF WireLines, Kinds, BaseInv, Types
    <3> QED BY <1>1, <2>2, <3>1, <3>2 DEF SentRecord
  <2>3. ASSUME NEW broken \in Breaks, SentHello(broken)
        PROVE  Fine
    <3> DEFINE flags == IF call.op = "init" \/ log.udp THEN {} ELSE log.capture_flags
               hello == Hello(log, call.line, runs, log.fd)
    <3>1. flags \in SUBSET Streams
      BY <1>2
    <3>2. hello \in WireLines
      BY <1>2, <2>3 DEF Hello, WireLines, Kinds, BaseInv, Types, SentHello, Sending
    <3>3. /\ wire' = Append(wire, hello) /\ conns' = log.fd
          /\ log' = (IF flags = {} THEN log ELSE Applied(log, flags, broken))
          /\ target' = AppliedTarget(log, flags, broken)
      BY <2>3 DEF SentHello
    <3> HIDE DEF flags, hello
    <3>4. log' \in Logs /\ log'.fd = log.fd /\ target' \in [Streams -> Nat]
      BY <1>1, <3>1, <3>3, AppliedType DEF Up
    <3> QED BY <1>1, <1>2, <3>2, <3>3, <3>4
  <2> HIDE DEF Fine
  <2> QED BY <2>1, <2>2, <2>3
<1>4. Types'
  BY <1>1, <1>3, <1>7 DEF BaseInv, Types, Ends
<1>5. CASE SendPart
  <2>1. /\ call.left > 1 /\ call' = [call EXCEPT !.left = @ - 1] /\ log' = log
        /\ conns' = conns
    BY <1>5 DEF SendPart, vars
  <2>2. /\ call' \in Calls /\ call'.op = call.op /\ call'.step = "send"
        /\ call'.line = call.line
    <3>1. call.left \in Nat /\ call.left - 1 \in Nat
      BY <1>1, <2>1 DEF Calls
    <3> QED BY <1>1, <2>1, <3>1 DEF Calls
  <2>3. Shape'
    BY <1>1, <2>2 DEF BaseInv, Shape, AtRest, Idle
  <2>4. ChannelAt'
    BY <1>1, <1>7, <2>1, <2>2 DEF BaseInv, ChannelAt, OpenSteps, Up
  <2> QED BY <1>4, <2>3, <2>4 DEF BaseInv
<1>6. CASE ~SendPart
  <2>1. call' = Idle
    BY <1>6 DEF SentRecord, SentRaw, SentHello, Return
  <2>2. Shape'
    BY <2>1, <1>1, CallTypes DEF Shape, AtRest, Idle
  <2>3. ChannelAt'
    BY <1>1, <1>3, <1>7, <2>1 DEF BaseInv, ChannelAt, AtRest, Idle, OpenSteps, Up
  <2> QED BY <1>4, <2>2, <2>3 DEF BaseInv
<1> QED BY <1>5, <1>6

LEMMA SendFailsBase ==
  ASSUME BaseInv, SendFails PROVE BaseInv'
<1> DEFINE l == [log EXCEPT !.lines_dropped = IF call.line = "RECORD" THEN @ + 1 ELSE @]
<1>1. /\ call.step = "send" /\ Disable(l) /\ open' = open \ {log.fd}
      /\ call' = Idle /\ UNCHANGED <<wire, runs, conns, server>>
  BY DEF SendFails, Sending, Return
<1>6. buffered' \in BOOLEAN /\ ends' \in Ends
  <2>1. ends = "whole" /\ buffered \in BOOLEAN
    BY <1>1 DEF BaseInv, Types, ChannelAt
  <2>2. Flush(log.capture_active, Cut)
    BY DEF SendFails
  <2> QED BY <2>1, <2>2, SentEnds, FlushedEnds
<1>2. l \in Logs
  <2> DEFINE n == IF call.line = "RECORD" THEN log.lines_dropped + 1
                                          ELSE log.lines_dropped
  <2>1. log \in Logs /\ n \in Nat
    BY DEF BaseInv, Types, Logs
  <2>2. l = [log EXCEPT !.lines_dropped = n]
    OBVIOUS
  <2> HIDE DEF n, l
  <2> QED BY <2>1, <2>2 DEF Logs
<1> HIDE DEF l
<1>3. log' \in Logs /\ target' \in [Streams -> Nat] /\ log'.fd = NoFd
  BY <1>1, <1>2, DisableType DEF BaseInv, Types
<1>4. Types' /\ Shape'
  BY <1>1, <1>3, <1>6, CallTypes DEF BaseInv, Types, Shape, AtRest, Idle
<1>5. ChannelAt'
  BY <1>1, <1>3 DEF BaseInv, ChannelAt, AtRest, Idle, OpenSteps, Up
<1> QED BY <1>4, <1>5 DEF BaseInv

(* BYE, and for ps5log_init the start of the next session.                  *)
LEMMA SaidByeBase ==
  ASSUME BaseInv, NEW whole \in BOOLEAN, SaidBye(whole) PROVE BaseInv'
<1> DEFINE closed == [log EXCEPT !.fd = NoFd, !.reason = "closed"]
           bye == [run |-> runs, conn |-> log.fd, kind |-> "BYE", seq |-> log.seq]
<1>1. /\ call.step = "send" /\ call.line = "BYE" /\ open' = open \ {log.fd}
      /\ wire' = (IF whole THEN Append(wire, bye) ELSE wire)
      /\ ends' = (IF whole THEN Carrying(ends, "line") ELSE Cut)
      /\ UNCHANGED <<target, conns, buffered>>
  BY DEF SaidBye, Sending
<1>2. /\ log \in Logs /\ target \in [Streams -> Nat] /\ Up /\ open = {log.fd}
      /\ conns \in Nat /\ wire \in Seq(WireLines) /\ call \in Calls /\ runs \in Nat
  BY <1>1 DEF BaseInv, Types, Shape, ChannelAt
<1>3. bye \in WireLines
  BY <1>2 DEF Logs, Up, WireLines, Kinds
<1>4. closed \in Logs /\ closed.fd = NoFd
  BY <1>2 DEF Logs
<1>5. /\ wire' \in Seq(WireLines) /\ open' = {}
      /\ ends' \in Ends /\ buffered' \in BOOLEAN
  <2> HIDE DEF bye
  <2>1. wire' \in Seq(WireLines)
    <3>1. CASE whole
      <4>1. Append(wire, bye) \in Seq(WireLines)
        BY <1>2, <1>3
      <4> QED BY <1>1, <3>1, <4>1
    <3>2. CASE ~whole
      BY <1>1, <1>2, <3>2
    <3> QED BY <3>1, <3>2
  <2>2. ends' \in Ends /\ buffered' \in BOOLEAN
    <3>1. ends = "whole" /\ buffered \in BOOLEAN /\ "whole" \in Ends
      BY <1>1 DEF BaseInv, Types, ChannelAt, Ends
    <3> QED BY <1>1, <3>1, SentEnds
  <2> QED BY <1>1, <1>2, <2>1, <2>2
<1>6. CASE call.op = "init"
  <2>1. Restart(closed, call.conf)
    BY <1>6 DEF SaidBye
  <2>2. \/ Goto("socket", "HELLO")
        \/ call' = Idle
    BY <1>6 DEF SaidBye, Return
  <2> HIDE DEF closed
  <2>4. call.conf \in Confs
    BY <1>2 DEF Calls
  <2>5. log' \in Logs /\ log'.fd = NoFd /\ runs' \in Nat
    BY <1>2, <1>4, <2>1, <2>4, RestartType
  <2>6. Types'
    BY <1>1, <1>2, <1>5, <2>5 DEF Types
  <2>7. \/ /\ call' \in Calls /\ call'.op = "init" /\ call'.step = "socket"
           /\ call'.line = "HELLO"
        \/ call' = Idle
    BY <1>2, <1>6, <2>2, CallTypes DEF OpenSteps
  <2>8. Shape'
    BY <1>2, <2>7, CallTypes DEF Shape, AtRest, Idle, OpenSteps
  <2>9. ChannelAt'
    BY <1>5, <2>5, <2>7 DEF ChannelAt, AtRest, Idle, OpenSteps, Up
  <2> QED BY <2>6, <2>8, <2>9 DEF BaseInv
<1>7. CASE call.op # "init"
  <2>1. log' = closed /\ call' = Idle /\ runs' = runs
    BY <1>7 DEF SaidBye, Return
  <2>2. Types' /\ Shape'
    BY <1>1, <1>2, <1>4, <1>5, <2>1, CallTypes DEF Types, Shape, AtRest, Idle
  <2>3. ChannelAt'
    BY <1>4, <1>5, <2>1 DEF ChannelAt, AtRest, Idle, OpenSteps, Up
  <2> QED BY <2>2, <2>3 DEF BaseInv
<1> QED BY <1>6, <1>7

LEMMA InitBase == ASSUME ChannelInit PROVE BaseInv
<1>1. Types
  <2>1. log \in Logs
    <3>1. [f \in Streams |-> NoFd] \in [Streams -> {NoFd} \cup Nat]
      OBVIOUS
    <3> QED BY <3>1 DEF ChannelInit, Init, Logs
  <2>2. target \in [Streams -> Nat] /\ wire \in Seq(WireLines) /\ runs \in Nat
        /\ conns \in Nat /\ ends \in Ends /\ buffered \in BOOLEAN
    <3>1. wire = <<>> /\ runs = 0 /\ conns = 0 /\ ends = "whole" /\ buffered = FALSE
          /\ target = [f \in Streams |-> 0]
      BY DEF ChannelInit, Init, Console
    <3>2. target \in [Streams -> Nat]
      BY <3>1
    <3>3. wire \in Seq(WireLines)
      BY <3>1
    <3> QED BY <3>1, <3>2, <3>3 DEF Ends
  <2> QED BY <2>1, <2>2 DEF Types
<1>2. Shape
  BY ChannelAssumption DEF ChannelInit, Shape, AtRest, Idle, Calls, NoConf, Confs
<1>3. ChannelAt
  BY DEF ChannelInit, Init, ChannelAt, AtRest, Idle, Up, OpenSteps
<1> QED BY <1>1, <1>2, <1>3 DEF BaseInv

LEMMA NextBase == ASSUME BaseInv, [ChannelNext]_<<vars, inside>> PROVE BaseInv'
<1>1. CASE UNCHANGED <<vars, inside>>
  BY <1>1 DEF vars, inside, BaseInv, Types, Shape, ChannelAt, AtRest, Up, Socket
<1>2. CASE OpenChannel
  BY <1>2, OpenGoesOnBase, OpenFailsBase, ConnectedBase DEF OpenChannel
<1>3. CASE SendAll
  BY <1>3, SentBase, SendFailsBase, SaidByeBase DEF SendAll
<1>4. CASE ~OpenChannel /\ ~SendAll /\ ChannelNext
  BY <1>4, BeginInitBase, BeginBase, WithoutNetworkBase, PrintOutputBase
     DEF ChannelNext
<1> QED BY <1>1, <1>2, <1>3, <1>4

THEOREM ChannelInvariant == ChannelSpec => []BaseInv
<1>1. ChannelInit => BaseInv
  BY InitBase
<1>2. BaseInv /\ [ChannelNext]_<<vars, inside>> => BaseInv'
  BY NextBase
<1> QED BY <1>1, <1>2, PTL DEF ChannelSpec

(* Between calls the channel's socket is the only thing open, whichever     *)
(* network call failed.                                                     *)
THEOREM NoLeak == ChannelSpec => []NothingLeftOpen
<1>1. BaseInv => NothingLeftOpen
  BY DEF BaseInv, ChannelAt, NothingLeftOpen
<1> QED BY <1>1, ChannelInvariant, PTL

(* A connection that took a part of a line is given up before the client    *)
(* sends another line; captured output may be flushed to it meanwhile.      *)
THEOREM NoJoinedLines == ChannelSpec => []NoLineJoinsACutOne
<1>1. BaseInv => NoLineJoinsACutOne
  BY DEF BaseInv, Types, Ends, NoLineJoinsACutOne
<1> QED BY <1>1, ChannelInvariant, PTL

-----------------------------------------------------------------------------
(* No gap on a connection.  The last line on the wire says which number the *)
(* open connection expects next; a record that is being sent has taken it.  *)
Expected(line) == IF line.kind = "RECORD" THEN line.seq + 1 ELSE line.seq

Greeting == call.step = "send" /\ call.line \in {"HELLO", "RESUME"}

LastLine ==
  Up /\ ~Greeting =>
    /\ Len(wire) # 0
    /\ wire[Len(wire)].conn = log.fd
    /\ wire[Len(wire)].kind # "BYE"
    /\ Expected(wire[Len(wire)]) =
         IF call.line = "RECORD" THEN log.seq ELSE log.seq + 1

(* Capturing and releasing stdio touch no other part of the client.         *)
LEMMA StdioOnly ==
  ASSUME NEW l \in Logs
  PROVE  /\ /\ Released(l).fd = l.fd /\ Released(l).seq = l.seq
            /\ Released(l).lines_sent = l.lines_sent
            /\ Released(l).lines_dropped = l.lines_dropped
         /\ \A flags, broken :
              /\ Applied(l, flags, broken).fd = l.fd
              /\ Applied(l, flags, broken).seq = l.seq
              /\ Applied(l, flags, broken).lines_sent = l.lines_sent
              /\ Applied(l, flags, broken).lines_dropped = l.lines_dropped
BY DEF Released, Applied, Logs

(* Each of these steps leaves the numbering, the wire and the connection.   *)
Quiet ==
  /\ log'.fd = log.fd /\ log'.seq = log.seq
  /\ log'.lines_sent = log.lines_sent /\ log'.lines_dropped = log.lines_dropped
  /\ wire' = wire /\ runs' = runs

LEMMA CaptureIsQuiet ==
  ASSUME BaseInv, NEW flags \in FlagSets, NEW broken \in Breaks,
         CaptureStdio(flags, broken) \/ ReleaseStdio
  PROVE  Quiet
<1>1. log \in Logs
  BY DEF BaseInv, Types
<1>2. CASE ReleaseStdio
  BY <1>1, <1>2, StdioOnly DEF ReleaseStdio, Quiet
<1>3. CASE CaptureStdio(flags, broken)
  <2> DEFINE asked == [log EXCEPT !.capture_flags = flags]
  <2>1. /\ asked \in Logs /\ asked.fd = log.fd /\ asked.seq = log.seq
        /\ asked.lines_sent = log.lines_sent
        /\ asked.lines_dropped = log.lines_dropped
    BY <1>1, LogAssumption DEF Logs
  <2>2. /\ \/ log' = asked \/ log' = Applied(asked, flags, broken)
           \/ log' = Released(Applied(asked, flags, broken))
        /\ wire' = wire /\ runs' = runs
    BY <1>3 DEF CaptureStdio
  <2> HIDE DEF asked
  <2>3. Applied(asked, flags, broken) \in Logs
    BY <2>1, AppliedType, LogAssumption DEF BaseInv, Types
  <2> QED BY <2>1, <2>2, <2>3, StdioOnly DEF Quiet
<1> QED BY <1>2, <1>3

(* Appending a line that the connection expects.                            *)
LEMMA AppendGapFree ==
  ASSUME wire \in Seq(WireLines), GapFree, NEW x, wire' = Append(wire, x),
         x.kind \in {"RECORD", "BYE"} =>
           /\ Len(wire) # 0 /\ wire[Len(wire)].conn = x.conn
           /\ wire[Len(wire)].kind # "BYE"
           /\ x.seq = IF x.kind = "RECORD" THEN Expected(wire[Len(wire)])
                                           ELSE Expected(wire[Len(wire)]) - 1
  PROVE  /\ GapFree' /\ Len(wire') # 0 /\ wire'[Len(wire')] = x
<1> DEFINE n == Len(wire)
<1>1. /\ n \in Nat /\ DOMAIN wire = 1 .. n /\ DOMAIN wire' = 1 .. n + 1
      /\ Len(wire') = n + 1 /\ wire'[n + 1] = x
      /\ \A i \in 1 .. n : wire'[i] = wire[i]
  OBVIOUS
<1> SUFFICES ASSUME NEW i \in 1 .. n + 1, wire'[i].kind \in {"RECORD", "BYE"}
             PROVE  /\ i > 1 /\ wire'[i - 1].conn = wire'[i].conn
                    /\ wire'[i - 1].kind # "BYE"
                    /\ wire'[i].seq = IF wire'[i].kind = "RECORD"
                                        THEN Expected(wire'[i - 1])
                                        ELSE Expected(wire'[i - 1]) - 1
  BY <1>1 DEF GapFree, Expected
<1>2. CASE i = n + 1
  <2>1. n # 0 /\ n \in 1 .. n /\ n + 1 - 1 = n
    BY <1>1, <1>2
  <2>2. wire'[n] = wire[n] /\ wire'[i] = x
    BY <1>1, <1>2, <2>1
  <2> QED BY <1>1, <1>2, <2>1, <2>2
<1>3. CASE i # n + 1
  <2>1. i \in 1 .. n /\ wire'[i] = wire[i]
    BY <1>1, <1>3
  <2>2. i > 1
    BY <1>1, <2>1 DEF GapFree
  <2>3. i - 1 \in 1 .. n /\ wire'[i - 1] = wire[i - 1]
    BY <1>1, <2>1, <2>2
  <2> QED BY <1>1, <2>1, <2>2, <2>3 DEF GapFree, Expected
<1> QED BY <1>2, <1>3

GapInv == BaseInv /\ GapFree /\ LastLine

LEMMA QuietGap ==
  ASSUME GapInv, Quiet, Greeting' <=> Greeting,
         call'.line = "RECORD" <=> call.line = "RECORD"
  PROVE  GapFree' /\ LastLine'
<1>1. wire' = wire /\ log'.fd = log.fd /\ log'.seq = log.seq
  BY DEF Quiet
<1>2. GapFree'
  BY <1>1 DEF GapInv, GapFree
<1>3. LastLine'
  BY <1>1 DEF GapInv, LastLine, Up
<1> QED BY <1>2, <1>3

LEMMA DownGap ==
  ASSUME GapInv, wire' = wire, log'.fd = NoFd
  PROVE  GapFree' /\ LastLine'
<1>1. GapFree'
  BY DEF GapInv, GapFree
<1>2. LastLine'
  BY DEF LastLine, Up
<1> QED BY <1>1, <1>2

(* Steps that end or begin without a connection.                            *)
LEMMA DownSteps ==
  ASSUME GapInv,
         \/ \E conf \in Loadable : ~Up /\ BeginInit(conf)
         \/ BeginReconnect
         \/ ~Up /\ (Line("failed") \/ Close("failed"))
         \/ OpenChannel /\ ~Connected
         \/ SendFails
  PROVE  wire' = wire /\ log'.fd = NoFd
<1>1. log \in Logs
  BY DEF GapInv, BaseInv, Types
<1>2. ASSUME NEW conf \in Loadable, ~Up, BeginInit(conf)
      PROVE  wire' = wire /\ log'.fd = NoFd
  <2>1. /\ Released(log) \in Logs /\ Released(log).fd = NoFd /\ conf \in Confs
        /\ target \in [Streams -> Nat]
    BY <1>1, <1>2, ReleasedType, LoadableType DEF Up, GapInv, BaseInv, Types
  <2>2. Restart(Released(log), conf) /\ wire' = wire
    BY <1>2 DEF BeginInit
  <2> QED BY <2>1, <2>2, RestartType DEF GapInv, BaseInv, Types
<1>3. CASE BeginReconnect
  BY <1>1, <1>3 DEF BeginReconnect, Up, Logs
<1>4. ASSUME ~Up, Line("failed") PROVE wire' = wire /\ log'.fd = NoFd
  <2> DEFINE numbered == [log EXCEPT !.seq = @ + 1]
  <2>1. log' = [numbered EXCEPT !.lines_dropped = @ + 1] /\ wire' = wire
    BY <1>4 DEF Line
  <2>2. numbered \in Logs /\ numbered.fd = NoFd
    BY <1>1, <1>4 DEF Logs, Up
  <2> HIDE DEF numbered
  <2> QED BY <2>1, <2>2 DEF Logs
<1>5. ASSUME ~Up, Close("failed") PROVE wire' = wire /\ log'.fd = NoFd
  BY <1>1, <1>5, StdioOnly DEF Close, Closed, Farewell, Up
<1>6. CASE OpenChannel /\ ~Connected
  <2>1. CASE \E closing : GiveUp(closing)
    BY <1>1, <2>1, DisableType DEF GiveUp, GapInv, BaseInv, Types
  <2>2. CASE call.step \in OpenSteps /\ UNCHANGED vars
    BY <2>2 DEF vars, GapInv, BaseInv, ChannelAt, Up
  <2>3. \/ \E closing : GiveUp(closing)
        \/ call.step \in OpenSteps /\ UNCHANGED vars
    BY <1>6 DEF OpenChannel, OpenSocketFails, SetNonblockingFails, ConnectFails,
       PollCreateFails, PollControlFails, PollTimesOutOrFails, SocketError, OpenSocket,
       SetNonblocking, ConnectPending, PollCreate, PollControl, PollReady, OpenStep,
       OpenSteps
  <2> QED BY <2>1, <2>2, <2>3
<1>7. CASE SendFails
  <2>1. wire' = wire /\ log'.fd = NoFd
    <3> DEFINE n == IF call.line = "RECORD" THEN log.lines_dropped + 1
                                            ELSE log.lines_dropped
               l == [log EXCEPT !.lines_dropped = n]
    <3>1. n \in Nat
      BY <1>1 DEF Logs
    <3>2. Disable(l) /\ wire' = wire
      BY <1>7 DEF SendFails
    <3> HIDE DEF n
    <3>3. l \in Logs
      BY <1>1, <3>1 DEF Logs
    <3> HIDE DEF l
    <3> QED BY <3>2, <3>3, DisableType DEF GapInv, BaseInv, Types
  <2> QED BY <2>1
<1> QED BY <1>2, <1>3, <1>4, <1>5, <1>6, <1>7

(* Beginning a call, and the steps of a send that hand over no line.        *)
LEMMA QuietSteps ==
  ASSUME GapInv,
         \/ \E conf \in Loadable : Up /\ BeginInit(conf)
         \/ BeginRaw \/ BeginClose \/ SendPart \/ SentRaw
         \/ /\ CallWithoutNetwork
            /\ \/ \E flags \in FlagSets, broken \in Breaks : CaptureStdio(flags, broken)
               \/ ReleaseStdio
  PROVE  /\ Quiet /\ (Greeting' <=> Greeting)
         /\ (call'.line = "RECORD" <=> call.line = "RECORD")
<1>1. log \in Logs /\ call \in Calls /\ (AtRest => call = Idle)
  BY DEF GapInv, BaseInv, Types, Shape
<1>2. ASSUME NEW conf \in Loadable, Up, BeginInit(conf)
      PROVE  Quiet /\ call = Idle /\ call'.line = "BYE"
  BY <1>1, <1>2, StdioOnly DEF BeginInit, Enter, Quiet
<1>3. CASE BeginRaw
  BY <1>1, <1>3 DEF BeginRaw, Enter, Quiet, vars, Idle, Greeting
<1>4. CASE BeginClose
  BY <1>1, <1>4, StdioOnly DEF BeginClose, Enter, Quiet, Idle, Greeting
<1>5. CASE SendPart
  BY <1>1, <1>5 DEF SendPart, Quiet, vars, Calls, Greeting
<1>6. CASE SentRaw
  BY <1>1, <1>6 DEF SentRaw, Sending, Return, Quiet, vars, Idle, Greeting
<1>7. ASSUME CallWithoutNetwork,
             \/ \E flags \in FlagSets, broken \in Breaks : CaptureStdio(flags, broken)
             \/ ReleaseStdio
      PROVE  Quiet /\ call' = call
  <2>1. call' = call
    BY <1>7 DEF CallWithoutNetwork
  <2>2. Quiet
    <3>1. "nothing" \in Breaks
      BY DEF Breaks
    <3>2. CASE ReleaseStdio
      BY <1>1, <3>2, StdioOnly DEF ReleaseStdio, Quiet
    <3>3. ASSUME NEW flags \in FlagSets, NEW broken \in Breaks,
                 CaptureStdio(flags, broken)
          PROVE  Quiet
      BY <3>3, CaptureIsQuiet DEF GapInv
    <3> QED BY <1>7, <3>2, <3>3
  <2> QED BY <2>1, <2>2
<1> QED BY <1>2, <1>3, <1>4, <1>5, <1>6, <1>7 DEF Idle, Greeting

(* Taking a number, and handing over a line that has one.                   *)
LEMMA NumberedSteps ==
  ASSUME GapInv, BeginLine \/ Connected \/ SentRecord
  PROVE  GapFree' /\ LastLine'
<1>1. /\ log \in Logs /\ call \in Calls /\ wire \in Seq(WireLines) /\ GapFree
      /\ LastLine /\ (AtRest => call = Idle)
  BY DEF GapInv, BaseInv, Types, Shape
<1>2. CASE BeginLine
  <2>1. /\ log' = [log EXCEPT !.seq = @ + 1] /\ wire' = wire /\ Up /\ call = Idle
        /\ call'.line = "RECORD"
    BY <1>1, <1>2 DEF BeginLine, Enter
  <2>2. log'.seq = log.seq + 1 /\ log'.fd = log.fd
    BY <1>1, <2>1 DEF Logs
  <2> QED BY <1>1, <2>1, <2>2 DEF GapFree, LastLine, Up, Greeting, Idle
<1>3. CASE Connected
  <2>1. call.line \in {"HELLO", "RESUME"}
    BY <1>1, <1>3 DEF Connected, GapInv, BaseInv, Shape, AtRest, Idle, Calls
  <2>2. Greeting' /\ wire' = wire
    BY <1>1, <1>3, <2>1 DEF Connected, Goto, Greeting, Calls
  <2> QED BY <1>1, <2>2 DEF GapFree, LastLine
<1>4. CASE SentRecord
  <2> DEFINE x == [run |-> runs, conn |-> log.fd, kind |-> "RECORD", seq |-> log.seq]
  <2>1. /\ call.step = "send" /\ call.line = "RECORD" /\ call' = Idle
        /\ wire' = Append(wire, x) /\ log'.fd = log.fd /\ log'.seq = log.seq
    BY <1>1, <1>4 DEF SentRecord, Sending, Return, Logs
  <2>2. /\ Up /\ Len(wire) # 0 /\ wire[Len(wire)].conn = log.fd
        /\ wire[Len(wire)].kind # "BYE" /\ Expected(wire[Len(wire)]) = log.seq
    BY <1>1, <2>1 DEF LastLine, Greeting, GapInv, BaseInv, ChannelAt
  <2>3. x.kind = "RECORD" /\ x.conn = log.fd /\ x.seq = log.seq
    OBVIOUS
  <2> HIDE DEF x
  <2>4. GapFree' /\ Len(wire') # 0 /\ wire'[Len(wire')] = x
    BY <1>1, <2>1, <2>2, <2>3, AppendGapFree
  <2> QED BY <1>1, <2>1, <2>3, <2>4 DEF LastLine, Expected, Idle, Logs
<1> QED BY <1>2, <1>3, <1>4

LEMMA SentHelloGap ==
  ASSUME GapInv, NEW broken \in Breaks, SentHello(broken)
  PROVE  GapFree' /\ LastLine'
<1> DEFINE x == [run |-> runs, conn |-> log.fd, kind |-> call.line, seq |-> log.seq + 1]
<1>1. /\ log \in Logs /\ wire \in Seq(WireLines) /\ GapFree
      /\ call.line \in {"HELLO", "RESUME"} /\ call' = Idle
      /\ wire' = Append(wire, x)
  BY DEF GapInv, BaseInv, Types, SentHello, Sending, Return, Hello
<1>2. log'.fd = log.fd /\ log'.seq = log.seq
  BY <1>1, StdioOnly DEF SentHello
<1>3. x.kind = call.line /\ x.conn = log.fd /\ x.seq = log.seq + 1
  OBVIOUS
<1> HIDE DEF x
<1>4. GapFree' /\ Len(wire') # 0 /\ wire'[Len(wire')] = x
  BY <1>1, <1>3, AppendGapFree
<1> QED BY <1>1, <1>2, <1>3, <1>4 DEF LastLine, Expected, Idle

LEMMA SaidByeGap ==
  ASSUME GapInv, NEW whole \in BOOLEAN, SaidBye(whole)
  PROVE  GapFree' /\ LastLine'
<1> DEFINE closed == [log EXCEPT !.fd = NoFd, !.reason = "closed"]
           x == [run |-> runs, conn |-> log.fd, kind |-> "BYE", seq |-> log.seq]
<1>1. /\ log \in Logs /\ wire \in Seq(WireLines) /\ GapFree /\ runs \in Nat
      /\ call.line = "BYE" /\ call.step = "send" /\ call.conf \in Confs
      /\ wire' = (IF whole THEN Append(wire, x) ELSE wire)
  BY DEF GapInv, BaseInv, Types, Shape, Calls, SaidBye, Sending
<1>2. log'.fd = NoFd
  <2>1. closed \in Logs /\ closed.fd = NoFd
    BY <1>1 DEF Logs
  <2>2. Restart(closed, call.conf) \/ log' = closed
    BY DEF SaidBye
  <2> HIDE DEF closed
  <2> QED BY <1>1, <2>1, <2>2, RestartType
<1>3. /\ Len(wire) # 0 /\ wire[Len(wire)].conn = log.fd
      /\ wire[Len(wire)].kind # "BYE" /\ Expected(wire[Len(wire)]) = log.seq + 1
  BY <1>1 DEF GapInv, BaseInv, ChannelAt, LastLine, Greeting
<1>4. x.kind = "BYE" /\ x.conn = log.fd /\ x.seq = log.seq /\ log.seq \in Nat
  BY <1>1 DEF Logs
<1> HIDE DEF x
<1>5. GapFree'
  <2>1. CASE whole
    <3>1. x.seq = Expected(wire[Len(wire)]) - 1
      BY <1>3, <1>4
    <3> QED BY <1>1, <1>3, <1>4, <2>1, <3>1, AppendGapFree
  <2>2. CASE ~whole
    BY <1>1, <2>2 DEF GapFree
  <2> QED BY <2>1, <2>2
<1>6. LastLine'
  BY <1>2 DEF LastLine, Up
<1> QED BY <1>5, <1>6

LEMMA NextGap ==
  ASSUME GapInv, [ChannelNext]_<<vars, inside>> PROVE GapFree' /\ LastLine'
<1>1. CASE PrintOutput \/ UNCHANGED <<vars, inside>>
  BY <1>1 DEF PrintOutput, vars, inside, GapInv, GapFree, LastLine, Up, Greeting
<1>2. CASE \/ \E conf \in Loadable : Up /\ BeginInit(conf)
           \/ BeginRaw \/ BeginClose \/ SendPart \/ SentRaw
           \/ /\ CallWithoutNetwork
              /\ \/ \E flags \in FlagSets, broken \in Breaks : CaptureStdio(flags, broken)
                 \/ ReleaseStdio
  BY <1>2, QuietSteps, QuietGap
<1>3. CASE \/ \E conf \in Loadable : ~Up /\ BeginInit(conf)
           \/ BeginReconnect
           \/ ~Up /\ (Line("failed") \/ Close("failed"))
           \/ OpenChannel /\ ~Connected
           \/ SendFails
  BY <1>3, DownSteps, DownGap
<1>4. CASE BeginLine \/ Connected \/ SentRecord
  BY <1>4, NumberedSteps
<1>5. CASE \E broken \in Breaks : SentHello(broken)
  BY <1>5, SentHelloGap
<1>6. CASE \E whole \in BOOLEAN : SaidBye(whole)
  BY <1>6, SaidByeGap
<1> QED BY <1>1, <1>2, <1>3, <1>4, <1>5, <1>6, Zenon
     DEF ChannelNext, SendAll, CallWithoutNetwork

(* On every connection the records count up from what HELLO announced, and  *)
(* BYE names the last one, whatever the network did to the lines between.   *)
THEOREM NoGaps == ChannelSpec => []GapFree
<1>1. ChannelInit => GapInv
  <2>1. ASSUME ChannelInit PROVE GapFree /\ LastLine
    <3>1. wire = <<>> /\ log.fd = NoFd
      BY <2>1 DEF ChannelInit, Init
    <3>2. DOMAIN wire = {}
      BY <3>1
    <3> QED BY <3>1, <3>2 DEF GapFree, LastLine, Up
  <2> QED BY <2>1, InitBase DEF GapInv
<1>2. GapInv /\ [ChannelNext]_<<vars, inside>> => GapInv'
  BY NextGap, NextBase DEF GapInv
<1>3. GapInv => GapFree
  BY DEF GapInv
<1> QED BY <1>1, <1>2, <1>3, PTL DEF ChannelSpec

-----------------------------------------------------------------------------
(* Stdio.  A stream that points away from the console is saved, and what is *)
(* saved is the console; nothing is captured while the channel is down, and *)
(* nothing when BYE, HELLO or RESUME is being sent.                         *)
AtHome(l, t) ==
  /\ ~l.capture_active
  /\ \A f \in Streams : l.saved[f] = NoFd /\ t[f] = Console

StdioAt(l, t) ==
  /\ \A f \in Streams :
       /\ l.saved[f] \in {NoFd, Console}
       /\ t[f] \in {Console, l.fd}
       /\ t[f] # Console => l.saved[f] = Console /\ l.capture_active
       /\ l.saved[f] # NoFd => l.capture_active

StdioInv ==
  /\ BaseInv
  /\ StdioAt(log, target)
  /\ ~Up \/ (call.step = "send" /\ call.line \in {"BYE", "HELLO", "RESUME"})
       => AtHome(log, target)
  /\ log.capture_flags \in FlagSets \cup {{}}

(* What the calls are made with: each capture asks for a stream at least,   *)
(* and the descriptors can be duplicated.                                   *)
CapturesWork == DupMayFail = FALSE /\ {} \notin FlagSets

LEMMA HomeIsRight ==
  ASSUME NEW l, NEW t, AtHome(l, t) PROVE StdioAt(l, t)
BY DEF AtHome, StdioAt

LEMMA ReleasedIsHome ==
  ASSUME NEW l \in Logs, NEW t \in [Streams -> Nat], StdioAt(l, t)
  PROVE  /\ AtHome(Released(l), ReleasedTarget(l, t))
         /\ Released(l).capture_flags = l.capture_flags
<1>1. CASE l.capture_active
  <2>1. /\ Released(l).saved = [f \in Streams |-> NoFd]
        /\ Released(l).capture_active = FALSE
        /\ Released(l).capture_flags = l.capture_flags
    BY <1>1 DEF Released, Logs
  <2>2. \A f \in Streams : ReleasedTarget(l, t)[f] = Console
    BY <1>1 DEF ReleasedTarget, StdioAt, NoFd, Console
  <2> QED BY <2>1, <2>2 DEF AtHome
<1>2. CASE ~l.capture_active
  <2>1. Released(l) = l /\ \A f \in Streams : ReleasedTarget(l, t)[f] = t[f]
    BY <1>2 DEF Released, ReleasedTarget
  <2> QED BY <1>2, <2>1 DEF AtHome, StdioAt
<1> QED BY <1>1, <1>2

LEMMA AppliedIsRight ==
  ASSUME CapturesWork, NEW l \in Logs, target \in [Streams -> Nat],
         StdioAt(l, target), NEW flags \in FlagSets, NEW broken \in Breaks
  PROVE  /\ StdioAt(Applied(l, flags, broken), AppliedTarget(l, flags, broken))
         /\ Applied(l, flags, broken).capture_flags = l.capture_flags
         /\ broken \notin flags
<1>1. broken = "nothing" /\ flags \in SUBSET Streams /\ flags # {}
  BY LogAssumption DEF CapturesWork, Breaks
<1>2. broken \notin flags
  BY <1>1 DEF Streams
<1>3. Reached(flags, broken) = flags
  BY <1>1, <1>2 DEF Reached
<1> DEFINE s == [f \in Streams |-> IF f \in flags /\ l.saved[f] = NoFd
                                     THEN target[f] ELSE l.saved[f]]
<1>4. Applied(l, flags, broken) = [l EXCEPT !.saved = s, !.capture_active = TRUE]
  BY <1>1, <1>2, <1>3 DEF Applied
<1>5. /\ Applied(l, flags, broken).saved = s
      /\ Applied(l, flags, broken).capture_active = TRUE
      /\ Applied(l, flags, broken).fd = l.fd
      /\ Applied(l, flags, broken).capture_flags = l.capture_flags
  BY <1>4 DEF Logs
<1>6. ASSUME NEW f \in Streams
      PROVE  /\ s[f] \in {NoFd, Console}
             /\ AppliedTarget(l, flags, broken)[f] \in {Console, l.fd}
             /\ AppliedTarget(l, flags, broken)[f] # Console => s[f] = Console
  BY <1>3 DEF StdioAt, AppliedTarget, NoFd, Console
<1> HIDE DEF s
<1> QED BY <1>2, <1>5, <1>6 DEF StdioAt

(* A step that leaves the capture and the channel alone.                    *)
CaptureKept ==
  /\ log'.fd = log.fd /\ log'.saved = log.saved
  /\ log'.capture_active = log.capture_active
  /\ log'.capture_flags = log.capture_flags
  /\ target' = target

LEMMA KeptStdio ==
  ASSUME StdioInv, CaptureKept
  PROVE  /\ StdioAt(log', target') /\ log'.capture_flags \in FlagSets \cup {{}}
         /\ AtHome(log, target) => AtHome(log', target')
BY DEF StdioInv, CaptureKept, StdioAt, AtHome

LEMMA KeptSteps ==
  ASSUME StdioInv,
         \/ BeginReconnect \/ BeginLine \/ BeginRaw \/ (~Up /\ Line("failed"))
         \/ OpenSocket \/ SetNonblocking \/ ConnectPending \/ PollCreate
         \/ PollControl \/ PollReady \/ SendPart \/ SentRecord \/ SentRaw
  PROVE  /\ CaptureKept
         /\ ~Up' \/ (call'.step = "send" /\ call'.line \in {"BYE", "HELLO", "RESUME"})
              => AtHome(log, target)
<1>1. /\ log \in Logs /\ call \in Calls /\ (call.step \in OpenSteps => ~Up)
      /\ (~Up => AtHome(log, target))
  BY DEF StdioInv, BaseInv, Types, Shape, ChannelAt
<1>2. CASE BeginReconnect
  BY <1>1, <1>2 DEF BeginReconnect, CaptureKept, Logs
<1>3. CASE BeginLine
  BY <1>1, <1>3 DEF BeginLine, Enter, CaptureKept, Logs, Up
<1>4. CASE BeginRaw
  BY <1>1, <1>4 DEF BeginRaw, Enter, CaptureKept, vars, Up
<1>5. ASSUME ~Up, Line("failed") PROVE CaptureKept
  <2> DEFINE numbered == [log EXCEPT !.seq = @ + 1]
  <2>1. /\ log' = [numbered EXCEPT !.lines_dropped = @ + 1] /\ target' = target
    BY <1>5 DEF Line
  <2>2. /\ numbered \in Logs /\ numbered.fd = log.fd /\ numbered.saved = log.saved
        /\ numbered.capture_active = log.capture_active
        /\ numbered.capture_flags = log.capture_flags
    BY <1>1 DEF Logs
  <2> HIDE DEF numbered
  <2> QED BY <2>1, <2>2 DEF Logs, CaptureKept
<1>6. CASE \/ OpenSocket \/ SetNonblocking \/ ConnectPending \/ PollCreate
           \/ PollControl \/ PollReady
  <2>1. UNCHANGED vars /\ call.step \in OpenSteps
    BY <1>6 DEF OpenSocket, SetNonblocking, ConnectPending, PollCreate, PollControl,
       PollReady, OpenStep, OpenSteps
  <2> QED BY <1>1, <2>1 DEF CaptureKept, vars
<1>7. CASE SendPart
  BY <1>1, <1>7 DEF SendPart, CaptureKept, vars, Calls, StdioInv, Up
<1>8. CASE SentRecord
  BY <1>1, <1>8 DEF SentRecord, Return, Idle, CaptureKept, Logs, Up
<1>9. CASE SentRaw
  BY <1>1, <1>9 DEF SentRaw, Return, Idle, CaptureKept, vars, Up
<1> QED BY <1>1, <1>2, <1>3, <1>4, <1>5, <1>6, <1>7, <1>8, <1>9

(* Every step that ends the channel, or is about to, has released stdio.    *)
LEMMA DisableIsHome ==
  ASSUME NEW l \in Logs, target \in [Streams -> Nat], StdioAt(l, target), Disable(l)
  PROVE  AtHome(log', target') /\ log'.capture_flags = l.capture_flags
<1>1. /\ AtHome(Released(l), ReleasedTarget(l, target)) /\ Released(l) \in Logs
      /\ Released(l).capture_flags = l.capture_flags
  BY ReleasedIsHome, ReleasedType
<1>2. /\ log' = [Released(l) EXCEPT !.fd = NoFd, !.reason = "disabled"]
      /\ target' = ReleasedTarget(l, target)
  BY DEF Disable
<1> QED BY <1>1, <1>2 DEF AtHome, Logs

LEMMA RestartIsHome ==
  ASSUME NEW l \in Logs, NEW t, AtHome(l, t), NEW conf, Restart(l, conf), target' = t
  PROVE  AtHome(log', target') /\ log'.capture_flags = l.capture_flags
BY DEF Restart, AtHome, Logs

LEMMA HomeSteps ==
  ASSUME StdioInv,
         \/ \E conf \in Loadable : BeginInit(conf)
         \/ BeginClose \/ (~Up /\ Close("failed")) \/ ReleaseStdio
         \/ \E closing : GiveUp(closing)
         \/ Connected \/ SendFails
         \/ \E whole \in BOOLEAN : SaidBye(whole)
  PROVE  AtHome(log', target') /\ log'.capture_flags = log.capture_flags
<1>1. /\ log \in Logs /\ target \in [Streams -> Nat] /\ StdioAt(log, target)
      /\ (~Up => AtHome(log, target))
      /\ (call.step = "send" /\ call.line = "BYE" => AtHome(log, target))
      /\ (call.step \in OpenSteps => ~Up)
  BY DEF StdioInv, BaseInv, Types, ChannelAt
<1>2. /\ AtHome(Released(log), ReleasedTarget(log, target)) /\ Released(log) \in Logs
      /\ Released(log).capture_flags = log.capture_flags
  BY <1>1, ReleasedIsHome, ReleasedType
<1>3. ASSUME NEW conf \in Loadable, BeginInit(conf)
      PROVE  AtHome(log', target') /\ log'.capture_flags = log.capture_flags
  <2>1. /\ target' = ReleasedTarget(log, target)
        /\ log' = Released(log) \/ Restart(Released(log), conf)
    BY <1>3 DEF BeginInit
  <2> QED BY <1>2, <2>1, RestartIsHome
<1>4. CASE BeginClose \/ ReleaseStdio
  BY <1>2, <1>4 DEF BeginClose, ReleaseStdio
<1>5. ASSUME ~Up, Close("failed")
      PROVE  AtHome(log', target') /\ log'.capture_flags = log.capture_flags
  BY <1>2, <1>5 DEF Close, Closed
<1>6. ASSUME NEW closing, GiveUp(closing)
      PROVE  AtHome(log', target') /\ log'.capture_flags = log.capture_flags
  BY <1>1, <1>6, DisableIsHome DEF GiveUp
<1>7. CASE Connected
  BY <1>1, <1>7 DEF Connected, OpenSteps, AtHome, Logs
<1>8. CASE SendFails
  <2> DEFINE n == IF call.line = "RECORD" THEN log.lines_dropped + 1
                                          ELSE log.lines_dropped
             l == [log EXCEPT !.lines_dropped = n]
  <2>1. n \in Nat
    BY <1>1 DEF Logs
  <2>2. Disable(l)
    BY <1>8 DEF SendFails
  <2> HIDE DEF n
  <2>3. /\ l \in Logs /\ l.capture_flags = log.capture_flags /\ l.fd = log.fd
        /\ l.saved = log.saved /\ l.capture_active = log.capture_active
    BY <1>1, <2>1 DEF Logs
  <2> HIDE DEF l
  <2>4. StdioAt(l, target)
    BY <1>1, <2>3 DEF StdioAt
  <2> QED BY <1>1, <2>2, <2>3, <2>4, DisableIsHome
<1>9. ASSUME NEW whole \in BOOLEAN, SaidBye(whole)
      PROVE  AtHome(log', target') /\ log'.capture_flags = log.capture_flags
  <2> DEFINE closed == [log EXCEPT !.fd = NoFd, !.reason = "closed"]
  <2>1. AtHome(log, target) /\ target' = target
    BY <1>1, <1>9 DEF SaidBye, Sending
  <2>2. Restart(closed, call.conf) \/ log' = closed
    BY <1>9 DEF SaidBye
  <2>3. closed \in Logs /\ AtHome(closed, target)
        /\ closed.capture_flags = log.capture_flags
    BY <1>1, <2>1 DEF Logs, AtHome
  <2> HIDE DEF closed
  <2> QED BY <2>1, <2>2, <2>3, RestartIsHome
<1> QED BY <1>3, <1>4, <1>5, <1>6, <1>7, <1>8, <1>9

LEMMA CaptureStdioInv ==
  ASSUME CapturesWork, StdioInv, AtRest,
         NEW flags \in FlagSets, NEW broken \in Breaks, CaptureStdio(flags, broken)
  PROVE  /\ StdioAt(log', target') /\ log'.capture_flags \in FlagSets \cup {{}}
         /\ ~Up' => AtHome(log', target')
<1> DEFINE asked == [log EXCEPT !.capture_flags = flags]
<1>1. /\ log \in Logs /\ target \in [Streams -> Nat] /\ StdioAt(log, target)
      /\ (~Up => AtHome(log, target)) /\ flags \in SUBSET Streams
  BY LogAssumption DEF StdioInv, BaseInv, Types
<1>2. /\ asked \in Logs /\ asked.fd = log.fd /\ asked.saved = log.saved
      /\ asked.capture_active = log.capture_active /\ asked.capture_flags = flags
  BY <1>1 DEF Logs
<1>3. \/ log' = asked /\ target' = target
      \/ /\ Up /\ log' = Applied(asked, flags, broken)
         /\ target' = AppliedTarget(asked, flags, broken)
      \/ broken \in flags
  BY DEF CaptureStdio
<1> HIDE DEF asked
<1>4. StdioAt(asked, target) /\ (~Up => AtHome(asked, target))
  BY <1>1, <1>2 DEF StdioAt, AtHome
<1>5. /\ StdioAt(Applied(asked, flags, broken), AppliedTarget(asked, flags, broken))
      /\ Applied(asked, flags, broken).capture_flags = flags
      /\ Applied(asked, flags, broken).fd = log.fd
      /\ broken \notin flags
  <2>1. Applied(asked, flags, broken).fd = asked.fd
    BY <1>1, <1>2, AppliedType
  <2> QED BY <1>1, <1>2, <1>4, <2>1, AppliedIsRight
<1> QED BY <1>2, <1>3, <1>4, <1>5 DEF Up

LEMMA SentHelloStdio ==
  ASSUME CapturesWork, StdioInv, NEW broken \in Breaks, SentHello(broken)
  PROVE  /\ StdioAt(log', target') /\ log'.capture_flags \in FlagSets \cup {{}}
         /\ Up' /\ AtRest'
<1> DEFINE flags == IF call.op = "init" \/ log.udp THEN {} ELSE log.capture_flags
<1>1. /\ log \in Logs /\ target \in [Streams -> Nat] /\ StdioAt(log, target) /\ Up
      /\ flags \in FlagSets \cup {{}} /\ log.capture_flags \in FlagSets \cup {{}}
  BY DEF StdioInv, BaseInv, Types, ChannelAt, SentHello, Sending
<1>2. /\ log' = (IF flags = {} THEN log ELSE Applied(log, flags, broken))
      /\ target' = AppliedTarget(log, flags, broken) /\ call' = Idle
  BY DEF SentHello, Return
<1> HIDE DEF flags
<1>3. CASE flags = {}
  <2>1. Reached(flags, broken) = {}
    BY <1>3 DEF Reached
  <2>2. \A f \in Streams : target'[f] = target[f]
    BY <1>2, <2>1 DEF AppliedTarget
  <2> QED BY <1>1, <1>2, <1>3, <2>2 DEF StdioAt, Up, AtRest, Idle
<1>4. CASE flags # {}
  <2>1. flags \in FlagSets
    BY <1>1, <1>4
  <2>2. /\ StdioAt(log', target') /\ log'.capture_flags = log.capture_flags
        /\ log'.fd = log.fd
    BY <1>1, <1>2, <1>4, <2>1, AppliedIsRight, AppliedType, LogAssumption,
       ZenonT(60)
  <2> QED BY <1>1, <1>2, <2>2 DEF Up, AtRest, Idle
<1> QED BY <1>3, <1>4

LEMMA NextStdio ==
  ASSUME CapturesWork, StdioInv, [ChannelNext]_<<vars, inside>> PROVE StdioInv'
<1>0. BaseInv'
  BY NextBase DEF StdioInv
<1>1. CASE PrintOutput \/ UNCHANGED <<vars, inside>>
  BY <1>0, <1>1 DEF PrintOutput, vars, inside, StdioInv, Up
<1>2. CASE \/ BeginReconnect \/ BeginLine \/ BeginRaw \/ (~Up /\ Line("failed"))
           \/ OpenSocket \/ SetNonblocking \/ ConnectPending \/ PollCreate
           \/ PollControl \/ PollReady \/ SendPart \/ SentRecord \/ SentRaw
  <2>1. /\ CaptureKept
        /\ ~Up' \/ (call'.step = "send" /\ call'.line \in {"BYE", "HELLO", "RESUME"})
             => AtHome(log, target)
    BY <1>2, KeptSteps
  <2>2. /\ StdioAt(log', target') /\ log'.capture_flags \in FlagSets \cup {{}}
        /\ AtHome(log, target) => AtHome(log', target')
    BY <2>1, KeptStdio
  <2> QED BY <1>0, <2>1, <2>2 DEF StdioInv
<1>3. CASE \/ \E conf \in Loadable : BeginInit(conf)
           \/ BeginClose \/ (~Up /\ Close("failed")) \/ ReleaseStdio
           \/ \E closing : GiveUp(closing)
           \/ Connected \/ SendFails
           \/ \E whole \in BOOLEAN : SaidBye(whole)
  <2>1. AtHome(log', target') /\ log'.capture_flags = log.capture_flags
    BY <1>3, HomeSteps
  <2>2. StdioAt(log', target')
    BY <2>1, HomeIsRight
  <2> QED BY <1>0, <2>1, <2>2 DEF StdioInv
<1>4. ASSUME NEW flags \in FlagSets, NEW broken \in Breaks, CaptureStdio(flags, broken),
             CallWithoutNetwork
      PROVE  StdioInv'
  <2>1. AtRest /\ call' = call /\ call = Idle
    BY <1>4 DEF CallWithoutNetwork, StdioInv, BaseInv, Shape
  <2>2. /\ StdioAt(log', target') /\ log'.capture_flags \in FlagSets \cup {{}}
        /\ ~Up' => AtHome(log', target')
    BY <1>4, <2>1, CaptureStdioInv
  <2> QED BY <1>0, <2>1, <2>2 DEF StdioInv, Idle
<1>5. ASSUME NEW broken \in Breaks, SentHello(broken) PROVE StdioInv'
  <2>1. /\ StdioAt(log', target') /\ log'.capture_flags \in FlagSets \cup {{}}
        /\ Up' /\ AtRest'
    BY <1>5, SentHelloStdio
  <2>2. call'.step = "none"
    BY <1>0, <2>1 DEF BaseInv, Shape, Idle
  <2> QED BY <1>0, <2>1, <2>2 DEF StdioInv
<1>6. OpenChannel =>
        \/ OpenSocket \/ SetNonblocking \/ ConnectPending \/ PollCreate
        \/ PollControl \/ PollReady \/ Connected
        \/ \E closing : GiveUp(closing)
  BY DEF OpenChannel, OpenSocketFails, SetNonblockingFails, ConnectFails,
     PollCreateFails, PollControlFails, PollTimesOutOrFails, SocketError
<1>7. CallWithoutNetwork =>
        \/ (~Up /\ Line("failed")) \/ (~Up /\ Close("failed")) \/ ReleaseStdio
        \/ \E flags \in FlagSets, broken \in Breaks : CaptureStdio(flags, broken)
  BY Zenon DEF CallWithoutNetwork
<1> QED BY <1>1, <1>2, <1>3, <1>4, <1>5, <1>6, <1>7, Zenon DEF ChannelNext, SendAll

(* When dup works and every capture names a stream, stdout and stderr never *)
(* point to a connection that was given up.                                 *)
THEOREM StdioComesHome ==
  ASSUME CapturesWork PROVE ChannelSpec => []StdioNeverStale
<1>1. ChannelInit => StdioInv
  <2>1. ASSUME ChannelInit PROVE AtHome(log, target) /\ log.capture_flags = {}
    BY <2>1 DEF ChannelInit, Init, AtHome
  <2> QED BY <2>1, InitBase, HomeIsRight DEF StdioInv
<1>2. StdioInv /\ [ChannelNext]_<<vars, inside>> => StdioInv'
  BY NextStdio
<1>3. StdioInv => StdioNeverStale
  BY DEF StdioInv, StdioAt, StdioNeverStale
<1> QED BY <1>1, <1>2, <1>3, PTL DEF ChannelSpec

-----------------------------------------------------------------------------
(* Every number is accounted for.  A record that is being sent has taken    *)
(* its number and is counted neither as sent nor as dropped yet.            *)
Settled == IF call.line = "RECORD" THEN log.seq - 1 ELSE log.seq

Counted ==
  /\ \A i \in DOMAIN wire : wire[i].run <= runs
  /\ log.lines_sent + log.lines_dropped = Settled
  /\ \A i \in Records(runs) : wire[i].seq \in 1 .. Settled
  /\ \A i, j \in Records(runs) : wire[i].seq = wire[j].seq => i = j
  /\ IsFiniteSet(Records(runs)) /\ Cardinality(Records(runs)) = log.lines_sent

CountInv == GapInv /\ Counted

LEMMA CountedIsAccounted == ASSUME CountInv, AtRest PROVE RecordsAccountedFor
<1> DEFINE R == Records(runs)
           numbers == {wire[i].seq : i \in R}
           f == [i \in R |-> wire[i].seq]
<1>1. /\ Settled = log.seq /\ log.lines_sent + log.lines_dropped = log.seq
      /\ \A i \in R : wire[i].seq \in 1 .. log.seq
      /\ \A i, j \in R : wire[i].seq = wire[j].seq => i = j
      /\ IsFiniteSet(R) /\ Cardinality(R) = log.lines_sent
  BY DEF CountInv, GapInv, BaseInv, Shape, Idle, Counted, Settled
<1>2. f \in [R -> numbers]
  OBVIOUS
<1> HIDE DEF R
<1>3. f \in Bijection(R, numbers)
  <2>1. \A i, j \in R : f[i] = f[j] => i = j
    BY <1>1
  <2>2. \A m \in numbers : \E i \in R : f[i] = m
    OBVIOUS
  <2> HIDE DEF f, numbers
  <2> QED BY <1>2, <2>1, <2>2 DEF Bijection, Injection, Surjection, IsInjective
<1>4. Cardinality(numbers) = Cardinality(R)
  <2> HIDE DEF f, numbers
  <2> QED BY <1>1, <1>3, FS_Bijection DEF ExistsBijection
<1>5. numbers \subseteq 1 .. log.seq
  BY <1>1
<1> QED BY <1>1, <1>4, <1>5 DEF RecordsAccountedFor, R

(* The records of the session after a line was handed over.                 *)
LEMMA AppendRecords ==
  ASSUME wire \in Seq(WireLines), NEW x, wire' = Append(wire, x), NEW run \in Nat
  PROVE  LET after == {i \in DOMAIN wire' : wire'[i].kind = "RECORD" /\ wire'[i].run = run}
             n     == Len(wire) + 1
         IN  /\ after = IF x.kind = "RECORD" /\ x.run = run
                          THEN Records(run) \cup {n} ELSE Records(run)
             /\ n \notin Records(run) /\ wire'[n] = x
             /\ \A i \in DOMAIN wire : wire'[i] = wire[i]
             /\ DOMAIN wire' = DOMAIN wire \cup {n}
<1>1. /\ Len(wire) \in Nat /\ DOMAIN wire = 1 .. Len(wire)
      /\ DOMAIN wire' = 1 .. Len(wire) + 1 /\ wire'[Len(wire) + 1] = x
      /\ \A i \in 1 .. Len(wire) : wire'[i] = wire[i]
  OBVIOUS
<1>2. DOMAIN wire' = DOMAIN wire \cup {Len(wire) + 1} /\ Len(wire) + 1 \notin DOMAIN wire
  BY <1>1
<1>3. \A i \in DOMAIN wire : wire'[i] = wire[i]
  BY <1>1
<1> QED BY <1>1, <1>2, <1>3, Zenon DEF Records

(* Steps that hand over no record and leave the counters of the session.    *)
CountersKept ==
  /\ log'.seq = log.seq /\ log'.lines_sent = log.lines_sent
  /\ log'.lines_dropped = log.lines_dropped /\ runs' = runs
  /\ \/ wire' = wire
     \/ \E x : wire' = Append(wire, x) /\ x.kind # "RECORD" /\ x.run = runs
  /\ call'.line = "RECORD" <=> call.line = "RECORD"

LEMMA KeptCount == ASSUME CountInv, CountersKept PROVE Counted'
<1>1. Settled' = Settled
  BY DEF CountersKept, Settled
<1>2. wire \in Seq(WireLines) /\ runs \in Nat
  BY DEF CountInv, GapInv, BaseInv, Types
<1>3. CASE wire' = wire
  BY <1>1, <1>3 DEF CountersKept, CountInv, Counted, Records
<1>4. CASE wire' # wire
  <2>1. PICK x : wire' = Append(wire, x) /\ x.kind # "RECORD" /\ x.run = runs
    BY <1>4 DEF CountersKept
  <2>2. /\ {i \in DOMAIN wire' : wire'[i].kind = "RECORD" /\ wire'[i].run = runs}
             = Records(runs)
        /\ wire'[Len(wire) + 1] = x
        /\ \A i \in DOMAIN wire : wire'[i] = wire[i]
        /\ DOMAIN wire' = DOMAIN wire \cup {Len(wire) + 1}
    BY <1>2, <2>1, AppendRecords
  <2>3. Records(runs)' = Records(runs)
    BY <2>2 DEF CountersKept, Records
  <2>4. \A i \in DOMAIN wire' : wire'[i].run <= runs
    BY <1>2, <2>1, <2>2 DEF CountInv, Counted
  <2>5. \A i \in Records(runs) : wire'[i] = wire[i]
    BY <2>2 DEF Records
  <2> QED BY <1>1, <2>3, <2>4, <2>5 DEF CountersKept, CountInv, Counted
<1> QED BY <1>3, <1>4

(* ps5log_init: nothing of the session is on the wire yet.                  *)
LEMMA FreshCount ==
  ASSUME CountInv, log'.seq = 0, log'.lines_sent = 0, log'.lines_dropped = 0,
         runs' = runs + 1, call'.line # "RECORD",
         \/ wire' = wire
         \/ \E x : wire' = Append(wire, x) /\ x.run = runs
  PROVE  Counted'
<1>1. wire \in Seq(WireLines) /\ runs \in Nat /\ \A i \in DOMAIN wire : wire[i].run <= runs
  BY DEF CountInv, Counted, GapInv, BaseInv, Types
<1>2. \A i \in DOMAIN wire : wire[i].run \in Nat
  <2>1. \A i \in DOMAIN wire : wire[i] \in WireLines
    BY <1>1
  <2> QED BY <2>1 DEF WireLines
<1>3. \A i \in DOMAIN wire' : wire'[i].run <= runs /\ wire'[i].run \in Nat
  <2>1. CASE wire' = wire
    BY <1>1, <1>2, <2>1
  <2>2. CASE wire' # wire
    <3>1. PICK x : wire' = Append(wire, x) /\ x.run = runs
      BY <2>2
    <3>2. /\ wire'[Len(wire) + 1] = x /\ \A i \in DOMAIN wire : wire'[i] = wire[i]
          /\ DOMAIN wire' = DOMAIN wire \cup {Len(wire) + 1}
      BY <1>1, <3>1, AppendRecords
    <3> QED BY <1>1, <1>2, <3>1, <3>2
  <2> QED BY <2>1, <2>2
<1>4. Records(runs)' = {}
  BY <1>1, <1>3 DEF Records
<1>5. Settled' = 0
  BY DEF Settled
<1>6. \A i \in DOMAIN wire' : wire'[i].run <= runs'
  BY <1>1, <1>3
<1>7. IsFiniteSet(Records(runs)') /\ Cardinality(Records(runs)') = log'.lines_sent
  BY <1>4, FS_EmptySet
<1> QED BY <1>4, <1>5, <1>6, <1>7 DEF Counted

LEMMA RestartCounts ==
  ASSUME NEW l \in Logs, NEW conf, Restart(l, conf)
  PROVE  /\ log'.seq = 0 /\ log'.lines_sent = 0 /\ log'.lines_dropped = 0
         /\ runs' = runs + 1
BY DEF Restart, Logs

LEMMA OpenLine ==
  ASSUME BaseInv, call.step \in OpenSteps PROVE call.line \in {"HELLO", "RESUME"}
BY DEF BaseInv, Shape, Calls, AtRest, Idle, OpenSteps

LEMMA KeptCountSteps ==
  ASSUME CountInv,
         \/ BeginReconnect \/ (~Up /\ Close("failed") /\ UNCHANGED call)
         \/ OpenChannel \/ (SendFails /\ call.line # "RECORD")
         \/ \E broken \in Breaks : SentHello(broken)
         \/ \E whole \in BOOLEAN : SaidBye(whole) /\ call.op # "init"
  PROVE  CountersKept
<1>1. /\ log \in Logs /\ call \in Calls /\ (AtRest => call = Idle)
      /\ target \in [Streams -> Nat] /\ BaseInv
      /\ (call.step \in OpenSteps => call.line \in {"HELLO", "RESUME"})
  BY OpenLine DEF CountInv, GapInv, BaseInv, Types, Shape
<1>2. CASE BeginReconnect
  BY <1>1, <1>2 DEF BeginReconnect, Enter, Idle, CountersKept, Logs
<1>3. ASSUME ~Up, Close("failed"), UNCHANGED call PROVE CountersKept
  BY <1>1, <1>3, StdioOnly DEF Close, Closed, Farewell, CountersKept
<1>4. ASSUME NEW closing, GiveUp(closing), call.step \in OpenSteps PROVE CountersKept
  <2>1. /\ log' = [Released(log) EXCEPT !.fd = NoFd, !.reason = "disabled"]
        /\ wire' = wire /\ runs' = runs /\ call' = Idle
    BY <1>4 DEF GiveUp, Disable, Return
  <2>2. Released(log) \in Logs
    BY <1>1, ReleasedType
  <2>3. /\ log'.seq = log.seq /\ log'.lines_sent = log.lines_sent
        /\ log'.lines_dropped = log.lines_dropped
    BY <1>1, <2>1, <2>2, StdioOnly DEF Logs
  <2> QED BY <1>1, <1>4, <2>1, <2>3 DEF CountersKept, Idle
<1>5. ASSUME call.step \in OpenSteps, UNCHANGED vars, call'.line = call.line
      PROVE  CountersKept
  BY <1>5 DEF vars, CountersKept
<1>6. CASE Connected
  <2>1. call'.line = call.line
    BY <1>1, <1>6 DEF Connected, Goto, Calls
  <2>2. /\ log'.seq = log.seq /\ log'.lines_sent = log.lines_sent
        /\ log'.lines_dropped = log.lines_dropped /\ wire' = wire /\ runs' = runs
    BY <1>1, <1>6 DEF Connected, Logs
  <2> QED BY <2>1, <2>2 DEF CountersKept
<1>7. CASE OpenChannel
  <2>1. \/ \E closing : GiveUp(closing) /\ call.step \in OpenSteps
        \/ call.step \in OpenSteps /\ UNCHANGED vars /\ \E step : Goto(step, call.line)
        \/ Connected
    BY <1>7 DEF OpenChannel, OpenSocketFails, SetNonblockingFails, ConnectFails,
       PollCreateFails, PollControlFails, PollTimesOutOrFails, SocketError, OpenSocket,
       SetNonblocking, ConnectPending, PollCreate, PollControl, PollReady, OpenStep,
       OpenSteps
  <2>2. ASSUME NEW step, Goto(step, call.line) PROVE call'.line = call.line
    BY <1>1, <2>2 DEF Goto, Calls
  <2> QED BY <1>4, <1>5, <1>6, <2>1, <2>2
<1>8. CASE SendFails /\ call.line # "RECORD"
  <2>1. [log EXCEPT !.lines_dropped = IF call.line = "RECORD" THEN @ + 1 ELSE @] = log
    BY <1>1, <1>8 DEF Logs
  <2>2. Disable(log) /\ wire' = wire /\ runs' = runs /\ call' = Idle
    BY <1>8, <2>1 DEF SendFails, Return
  <2>3. Released(log) \in Logs
    BY <1>1, ReleasedType
  <2>4. /\ log'.seq = log.seq /\ log'.lines_sent = log.lines_sent
        /\ log'.lines_dropped = log.lines_dropped
    BY <1>1, <2>2, <2>3, StdioOnly DEF Disable, Logs
  <2> QED BY <1>8, <2>2, <2>4 DEF CountersKept, Idle
<1>9. ASSUME NEW broken \in Breaks, SentHello(broken) PROVE CountersKept
  <2> DEFINE x == [run |-> runs, conn |-> log.fd, kind |-> call.line, seq |-> log.seq + 1]
  <2>1. /\ call.line \in {"HELLO", "RESUME"} /\ call' = Idle /\ runs' = runs
        /\ wire' = Append(wire, x)
    BY <1>9 DEF SentHello, Sending, Return, Hello
  <2>2. /\ log'.seq = log.seq /\ log'.lines_sent = log.lines_sent
        /\ log'.lines_dropped = log.lines_dropped
    BY <1>1, <1>9, StdioOnly DEF SentHello
  <2>3. x.kind = call.line /\ x.run = runs
    OBVIOUS
  <2> HIDE DEF x
  <2> QED BY <2>1, <2>2, <2>3 DEF CountersKept, Idle
<1>10. ASSUME NEW whole \in BOOLEAN, SaidBye(whole), call.op # "init"
       PROVE  CountersKept
  <2> DEFINE x == [run |-> runs, conn |-> log.fd, kind |-> "BYE", seq |-> log.seq]
  <2>1. /\ log' = [log EXCEPT !.fd = NoFd, !.reason = "closed"] /\ call' = Idle
        /\ runs' = runs /\ call.line = "BYE"
        /\ wire' = (IF whole THEN Append(wire, x) ELSE wire)
    BY <1>10 DEF SaidBye, Sending, Return
  <2>2. /\ log'.seq = log.seq /\ log'.lines_sent = log.lines_sent
        /\ log'.lines_dropped = log.lines_dropped
    BY <1>1, <2>1 DEF Logs
  <2>3. x.kind = "BYE" /\ x.run = runs
    OBVIOUS
  <2> HIDE DEF x
  <2> QED BY <2>1, <2>2, <2>3 DEF CountersKept, Idle
<1> QED BY <1>2, <1>3, <1>7, <1>8, <1>9, <1>10

(* A number is taken, and then counted as sent or as dropped.               *)
LEMMA TakenCount ==
  ASSUME CountInv,
         \/ BeginLine \/ (AtRest /\ ~Up /\ Line("failed") /\ UNCHANGED call)
         \/ (SendFails /\ call.line = "RECORD")
  PROVE  Counted'
<1> DEFINE Moved ==
      /\ wire' = wire /\ runs' = runs /\ log'.lines_sent = log.lines_sent
      /\ \/ Settled' = Settled /\ log'.lines_dropped = log.lines_dropped
         \/ Settled' = Settled + 1 /\ log'.lines_dropped = log.lines_dropped + 1
<1>1. /\ log \in Logs /\ call \in Calls /\ (AtRest => call = Idle)
      /\ target \in [Streams -> Nat]
  BY DEF CountInv, GapInv, BaseInv, Types, Shape
<1>2. ASSUME BeginLine PROVE Moved
  <2>1. /\ log' = [log EXCEPT !.seq = @ + 1] /\ wire' = wire /\ runs' = runs
        /\ call = Idle /\ call'.line = "RECORD"
    BY <1>1, <1>2 DEF BeginLine, Enter
  <2>2. /\ log'.seq = log.seq + 1 /\ log'.lines_sent = log.lines_sent
        /\ log'.lines_dropped = log.lines_dropped /\ log.seq \in Nat
    BY <1>1, <2>1 DEF Logs
  <2>3. Settled' = Settled
    BY <2>1, <2>2 DEF Settled, Idle
  <2> QED BY <2>1, <2>2, <2>3
<1>3. ASSUME AtRest, ~Up, Line("failed"), UNCHANGED call PROVE Moved
  <2> DEFINE numbered == [log EXCEPT !.seq = @ + 1]
  <2>1. /\ log' = [numbered EXCEPT !.lines_dropped = @ + 1]
        /\ UNCHANGED <<target, wire, runs, conns>>
    BY <1>3 DEF Line
  <2>2. /\ numbered \in Logs /\ numbered.seq = log.seq + 1
        /\ numbered.lines_sent = log.lines_sent
        /\ numbered.lines_dropped = log.lines_dropped
    BY <1>1 DEF Logs
  <2> HIDE DEF numbered
  <2>3. /\ log'.seq = log.seq + 1 /\ log'.lines_sent = log.lines_sent
        /\ log'.lines_dropped = log.lines_dropped + 1
    BY <2>1, <2>2 DEF Logs
  <2>4. Settled' = Settled + 1
    BY <1>1, <1>3, <2>3 DEF Settled, Idle
  <2> QED BY <2>1, <2>3, <2>4
<1>4. ASSUME SendFails, call.line = "RECORD" PROVE Moved
  <2> DEFINE l == [log EXCEPT !.lines_dropped = @ + 1]
  <2>1. Disable(l) /\ wire' = wire /\ runs' = runs /\ call' = Idle
    BY <1>4 DEF SendFails, Return
  <2>2. /\ l \in Logs /\ l.seq = log.seq /\ l.lines_sent = log.lines_sent
        /\ l.lines_dropped = log.lines_dropped + 1 /\ log.seq \in Nat
    BY <1>1 DEF Logs
  <2> HIDE DEF l
  <2>3. Released(l) \in Logs
    BY <1>1, <2>2, ReleasedType
  <2>4. /\ log'.seq = log.seq /\ log'.lines_sent = log.lines_sent
        /\ log'.lines_dropped = log.lines_dropped + 1
    BY <2>1, <2>2, <2>3, StdioOnly DEF Disable, Logs
  <2>5. Settled' = Settled + 1
    BY <1>4, <2>1, <2>2, <2>4 DEF Settled, Idle
  <2> QED BY <2>1, <2>4, <2>5
<1>5. Moved
  BY <1>2, <1>3, <1>4
<1>6. Records(runs)' = Records(runs)
  BY <1>5 DEF Records
<1>7. /\ Settled \in Int /\ log.lines_sent \in Nat /\ log.lines_dropped \in Nat
  BY <1>1 DEF Settled, Logs
<1> HIDE DEF Moved
<1>8. \A i \in Records(runs) : wire'[i].seq \in 1 .. Settled'
  <2>1. \A i \in Records(runs) : wire[i].seq \in 1 .. Settled
    BY DEF CountInv, Counted
  <2>2. Settled' = Settled \/ Settled' = Settled + 1
    BY <1>5 DEF Moved
  <2>3. wire' = wire
    BY <1>5 DEF Moved
  <2> QED BY <1>7, <2>1, <2>2, <2>3
<1>9. log'.lines_sent + log'.lines_dropped = Settled'
  BY <1>5, <1>7 DEF CountInv, Counted, Moved
<1> QED BY <1>5, <1>6, <1>8, <1>9 DEF CountInv, Counted, Moved

LEMMA SentRecordCount == ASSUME CountInv, SentRecord PROVE Counted'
<1> DEFINE x == [run |-> runs, conn |-> log.fd, kind |-> "RECORD", seq |-> log.seq]
           n == Len(wire) + 1
<1>1. /\ log \in Logs /\ call.line = "RECORD" /\ call' = Idle /\ runs' = runs
      /\ wire' = Append(wire, x) /\ wire \in Seq(WireLines) /\ runs \in Nat
      /\ log' = [log EXCEPT !.lines_sent = @ + 1]
  BY DEF SentRecord, Sending, Return, CountInv, GapInv, BaseInv, Types
<1>2. /\ log'.seq = log.seq /\ log'.lines_sent = log.lines_sent + 1
      /\ log'.lines_dropped = log.lines_dropped /\ log.seq \in Nat
      /\ log.lines_sent \in Nat /\ log.lines_dropped \in Nat
  BY <1>1 DEF Logs
<1>3. x.kind = "RECORD" /\ x.run = runs /\ x.seq = log.seq
  OBVIOUS
<1> HIDE DEF x
<1>4. /\ {i \in DOMAIN wire' : wire'[i].kind = "RECORD" /\ wire'[i].run = runs}
           = Records(runs) \cup {n}
      /\ n \notin Records(runs) /\ wire'[n] = x
      /\ \A i \in DOMAIN wire : wire'[i] = wire[i]
      /\ DOMAIN wire' = DOMAIN wire \cup {n}
  BY <1>1, <1>3, AppendRecords
<1>5. Records(runs)' = Records(runs) \cup {n}
  BY <1>1, <1>4 DEF Records
<1>6. \A i \in Records(runs) : wire'[i] = wire[i]
  BY <1>4 DEF Records
<1>7. /\ Settled = log.seq - 1 /\ Settled' = log.seq
  BY <1>1, <1>2 DEF Settled, Idle
<1> HIDE DEF n
<1>8. /\ \A i \in Records(runs) : wire[i].seq \in 1 .. log.seq - 1
      /\ \A i, j \in Records(runs) : wire[i].seq = wire[j].seq => i = j
      /\ log.lines_sent + log.lines_dropped = log.seq - 1
      /\ IsFiniteSet(Records(runs)) /\ Cardinality(Records(runs)) = log.lines_sent
      /\ \A i \in DOMAIN wire : wire[i].run <= runs
  BY <1>7 DEF CountInv, Counted
<1>9. \A i \in DOMAIN wire' : wire'[i].run <= runs
  BY <1>1, <1>3, <1>4, <1>8
<1>10. \A i \in Records(runs) \cup {n} : wire'[i].seq \in 1 .. log.seq
  <2>1. log.seq - 1 >= 0
    BY <1>2, <1>8
  <2>2. wire'[n].seq \in 1 .. log.seq
    BY <1>2, <1>3, <1>4, <2>1
  <2> QED BY <1>2, <1>6, <1>8, <2>2
<1>11. \A i, j \in Records(runs) \cup {n} : wire'[i].seq = wire'[j].seq => i = j
  <2>1. \A i \in Records(runs) : wire'[i].seq # log.seq
    BY <1>2, <1>6, <1>8
  <2> QED BY <1>3, <1>4, <1>6, <1>8, <2>1
<1>12. /\ IsFiniteSet(Records(runs) \cup {n})
       /\ Cardinality(Records(runs) \cup {n}) = log'.lines_sent
  BY <1>2, <1>4, <1>8, FS_AddElement
<1>13. log'.lines_sent + log'.lines_dropped = Settled'
  BY <1>2, <1>7, <1>8
<1> QED BY <1>1, <1>5, <1>7, <1>9, <1>10, <1>11, <1>12, <1>13 DEF Counted

LEMMA NextCount ==
  ASSUME CountInv, [ChannelNext]_<<vars, inside>> PROVE Counted'
<1>0. /\ GapInv /\ log \in Logs /\ call \in Calls /\ target \in [Streams -> Nat]
      /\ (AtRest => call = Idle) /\ Released(log) \in Logs
  BY ReleasedType DEF CountInv, GapInv, BaseInv, Types, Shape
<1>1. CASE PrintOutput \/ UNCHANGED <<vars, inside>>
  BY <1>1 DEF PrintOutput, vars, inside, CountInv, Counted, Records, Settled
<1>2. CASE \/ \E conf \in Loadable : Up /\ BeginInit(conf)
           \/ BeginRaw \/ BeginClose \/ SendPart \/ SentRaw
           \/ /\ CallWithoutNetwork
              /\ \/ \E flags \in FlagSets, broken \in Breaks : CaptureStdio(flags, broken)
                 \/ ReleaseStdio
  BY <1>0, <1>2, QuietSteps, KeptCount DEF Quiet, CountersKept
<1>3. CASE \/ BeginReconnect \/ (~Up /\ Close("failed") /\ UNCHANGED call)
           \/ OpenChannel \/ (SendFails /\ call.line # "RECORD")
           \/ \E broken \in Breaks : SentHello(broken)
           \/ \E whole \in BOOLEAN : SaidBye(whole) /\ call.op # "init"
  BY <1>3, KeptCountSteps, KeptCount
<1>4. CASE \/ BeginLine \/ (AtRest /\ ~Up /\ Line("failed") /\ UNCHANGED call)
           \/ (SendFails /\ call.line = "RECORD")
  BY <1>4, TakenCount
<1>5. ASSUME NEW conf \in Loadable, ~Up, BeginInit(conf) PROVE Counted'
  <2>1. /\ Restart(Released(log), conf) /\ wire' = wire
        /\ Enter("init", "socket", "HELLO", NoConf) \/ UNCHANGED call
    BY <1>5 DEF BeginInit
  <2>2. call'.line # "RECORD"
    BY <1>0, <1>5, <2>1 DEF BeginInit, Enter, Idle
  <2> QED BY <1>0, <2>1, <2>2, RestartCounts, FreshCount
<1>6. ASSUME NEW whole \in BOOLEAN, SaidBye(whole), call.op = "init" PROVE Counted'
  <2> DEFINE closed == [log EXCEPT !.fd = NoFd, !.reason = "closed"]
             x == [run |-> runs, conn |-> log.fd, kind |-> "BYE", seq |-> log.seq]
  <2>1. /\ Restart(closed, call.conf)
        /\ Goto("socket", "HELLO") \/ Return
        /\ wire' = (IF whole THEN Append(wire, x) ELSE wire)
    BY <1>6 DEF SaidBye
  <2>2. call'.line # "RECORD"
    BY <1>0, <2>1, CallTypes DEF Return, Idle, OpenSteps
  <2>3. closed \in Logs /\ x.run = runs
    BY <1>0 DEF Logs
  <2> HIDE DEF closed, x
  <2>4. wire' = wire \/ \E y : wire' = Append(wire, y) /\ y.run = runs
    BY <2>1, <2>3
  <2>5. /\ log'.seq = 0 /\ log'.lines_sent = 0 /\ log'.lines_dropped = 0
        /\ runs' = runs + 1
    BY <2>1, <2>3, RestartCounts
  <2> QED BY <2>2, <2>4, <2>5, FreshCount
<1>7. CASE SentRecord
  BY <1>7, SentRecordCount
<1>8. CallWithoutNetwork => AtRest /\ UNCHANGED call
  BY DEF CallWithoutNetwork
<1>9. CallWithoutNetwork =>
        \/ (AtRest /\ ~Up /\ Line("failed") /\ UNCHANGED call)
        \/ (~Up /\ Close("failed") /\ UNCHANGED call) \/ ReleaseStdio
        \/ \E flags \in FlagSets, broken \in Breaks : CaptureStdio(flags, broken)
  BY <1>8, Zenon DEF CallWithoutNetwork
<1> QED BY <1>1, <1>2, <1>3, <1>4, <1>5, <1>6, <1>7, <1>9, Zenon
     DEF ChannelNext, SendAll

(* Between calls each number of the session is on the wire once and counted *)
(* as sent, or it is counted as dropped, over any losses and reconnects.    *)
THEOREM NothingUncounted == ChannelSpec => []NumbersAccountedFor
<1>1. ChannelInit => CountInv
  <2>1. ASSUME ChannelInit PROVE GapInv
    <3>1. wire = <<>> /\ log.fd = NoFd /\ DOMAIN wire = {}
      <4>1. wire = <<>> /\ log.fd = NoFd
        BY <2>1 DEF ChannelInit, Init
      <4> QED BY <4>1
    <3> QED BY <2>1, <3>1, InitBase DEF GapInv, GapFree, LastLine, Up
  <2>2. ASSUME ChannelInit PROVE Counted
    <3>1. wire = <<>> /\ call = Idle /\ log.seq = 0 /\ log.lines_sent = 0
          /\ log.lines_dropped = 0
      BY <2>2 DEF ChannelInit, Init
    <3>2. DOMAIN wire = {}
      BY <3>1
    <3>3. Records(runs) = {}
      BY <3>2 DEF Records
    <3> QED BY <3>1, <3>2, <3>3, FS_EmptySet DEF Counted, Settled, Idle
  <2> QED BY <2>1, <2>2 DEF CountInv
<1>2. CountInv /\ [ChannelNext]_<<vars, inside>> => CountInv'
  BY NextCount, NextGap, NextBase DEF CountInv, GapInv
<1>3. CountInv => NumbersAccountedFor
  BY CountedIsAccounted DEF NumbersAccountedFor
<1> QED BY <1>1, <1>2, <1>3, PTL DEF ChannelSpec

-----------------------------------------------------------------------------
(* What the running call has made of the state in which it began.           *)
Entries ==
  [log : Logs, target : [Streams -> Nat], wire : Seq(WireLines), runs : Nat,
   conns : Nat]

(* The client of a session that has just begun.                             *)
FreshFrom(l, udp, fd) ==
  [l EXCEPT !.enabled = TRUE, !.udp = udp, !.initialized = TRUE, !.reason = "none",
            !.seq = 0, !.lines_sent = 0, !.lines_dropped = 0, !.fd = fd]

(* The socket of ps5log__open_channel, once it is the channel.              *)
OpenedFd == IF call.step = "send" THEN Socket ELSE NoFd

LineBegun ==
  /\ entry.log.fd # NoFd /\ entry.log.seq < MaxSeq
  /\ log = [entry.log EXCEPT !.seq = @ + 1]
  /\ target = entry.target /\ wire = entry.wire /\ runs = entry.runs

RawBegun ==
  /\ entry.log.fd # NoFd
  /\ log = entry.log
  /\ target = entry.target /\ wire = entry.wire /\ runs = entry.runs

ReconnectBegun ==
  /\ entry.log.initialized /\ entry.log.enabled /\ entry.log.fd = NoFd
  /\ log = [entry.log EXCEPT !.reason = "none", !.fd = OpenedFd]
  /\ target = entry.target /\ wire = entry.wire /\ runs = entry.runs

ByeBegun ==
  /\ entry.log.fd # NoFd
  /\ log = Released(entry.log)
  /\ target = ReleasedTarget(entry.log, entry.target)
  /\ wire = entry.wire /\ runs = entry.runs

SessionBegun ==
  /\ log = FreshFrom(Released(entry.log), log.udp, OpenedFd)
  /\ target = ReleasedTarget(entry.log, entry.target)
  /\ runs = entry.runs + 1
  /\ \/ wire = entry.wire
     \/ /\ entry.log.fd # NoFd
        /\ wire = Append(entry.wire, [run |-> entry.runs, conn |-> entry.log.fd,
                                      kind |-> "BYE", seq |-> entry.log.seq])

EntryAt ==
  /\ ~AtRest => entry \in Entries /\ conns = entry.conns
  /\ call.op = "line"      => LineBegun
  /\ call.op = "raw"       => RawBegun
  /\ call.op = "reconnect" => ReconnectBegun
  /\ call.line = "BYE"     => ByeBegun
  /\ call.line = "HELLO"   => SessionBegun
  /\ call.op = "init"      => entry.runs < MaxInits
  /\ Greeting              => conns < MaxConn

RefInv == BaseInv /\ EntryAt

LEMMA LogsEqual ==
  ASSUME NEW a \in Logs, NEW b \in Logs,
         a.fd = b.fd, a.initialized = b.initialized, a.enabled = b.enabled,
         a.udp = b.udp, a.capture_flags = b.capture_flags,
         a.capture_active = b.capture_active, a.saved = b.saved, a.seq = b.seq,
         a.lines_sent = b.lines_sent, a.lines_dropped = b.lines_dropped,
         a.reason = b.reason
  PROVE  a = b
BY DEF Logs

(* A session that is enabled begins in the state FreshFrom.                 *)
LEMMA RestartIsFresh ==
  ASSUME NEW l \in Logs, NEW k \in Logs, NEW conf \in Confs, Restart(l, conf),
         log'.enabled, l.fd = NoFd, k.capture_flags = l.capture_flags,
         k.capture_active = l.capture_active, k.saved = l.saved
  PROVE  log' = FreshFrom(k, log'.udp, NoFd)
<1> DEFINE usable == conf.enabled /\ conf.server # ""
<1>1. usable \in BOOLEAN /\ conf.udp \in BOOLEAN
  BY DEF Confs
<1>2. log' = [l EXCEPT !.enabled = usable, !.udp = conf.udp,
                       !.initialized = TRUE, !.seq = 0, !.lines_sent = 0,
                       !.lines_dropped = 0,
                       !.reason = IF usable THEN "none" ELSE "disabled"]
  BY DEF Restart
<1>3. usable = TRUE
  BY <1>1, <1>2 DEF Logs
<1> HIDE DEF usable
<1>4. /\ log' \in Logs /\ log'.fd = NoFd /\ log'.initialized = TRUE
      /\ log'.enabled = TRUE /\ log'.udp = conf.udp
      /\ log'.capture_flags = l.capture_flags
      /\ log'.capture_active = l.capture_active /\ log'.saved = l.saved
      /\ log'.seq = 0 /\ log'.lines_sent = 0 /\ log'.lines_dropped = 0
      /\ log'.reason = "none"
  BY <1>1, <1>2, <1>3 DEF Logs
<1> DEFINE f == FreshFrom(k, conf.udp, NoFd)
<1>5. /\ f \in Logs /\ f.fd = NoFd /\ f.initialized = TRUE /\ f.enabled = TRUE
      /\ f.udp = conf.udp /\ f.capture_flags = k.capture_flags
      /\ f.capture_active = k.capture_active /\ f.saved = k.saved
      /\ f.seq = 0 /\ f.lines_sent = 0 /\ f.lines_dropped = 0
      /\ f.reason = "none"
  <2>1. NoFd \in {NoFd} \cup Nat
    OBVIOUS
  <2>2. f = FreshFrom(k, conf.udp, NoFd)
    OBVIOUS
  <2> HIDE DEF f
  <2> QED BY <1>1, <2>1, <2>2 DEF FreshFrom, Logs
<1> HIDE DEF f
<1>6. log' = f
  BY <1>4, <1>5, LogsEqual
<1> QED BY <1>4, <1>6 DEF f

LEMMA BeginEntry ==
  ASSUME BaseInv,
         \/ \E conf \in Loadable : BeginInit(conf)
         \/ BeginReconnect \/ BeginLine \/ BeginRaw \/ BeginClose
  PROVE  EntryAt'
<1>1. /\ log \in Logs /\ target \in [Streams -> Nat] /\ wire \in Seq(WireLines)
      /\ runs \in Nat /\ conns \in Nat /\ call = Idle /\ call \in Calls
      /\ Released(log) \in Logs /\ Released(log).fd = log.fd
  BY ReleasedType
     DEF BaseInv, Types, Shape, BeginInit, BeginReconnect, BeginLine, BeginRaw, BeginClose
<1>2. ASSUME NEW op, NEW step, NEW line, NEW conf, Enter(op, step, line, conf)
      PROVE  /\ entry'.log = log /\ entry'.target = target /\ entry'.wire = wire
             /\ entry'.runs = runs /\ entry'.conns = conns /\ entry' \in Entries
             /\ call'.op = op /\ call'.step = step /\ call'.line = line
  BY <1>1, <1>2 DEF Enter, Entries
<1>3. CASE BeginLine
  <2>1. Enter("line", "send", "RECORD", NoConf)
    BY <1>3 DEF BeginLine
  <2>2. LineBegun'
    BY <1>2, <1>3, <2>1 DEF BeginLine, LineBegun, Up
  <2> QED BY <1>2, <1>3, <2>1, <2>2 DEF EntryAt, BeginLine, Greeting
<1>4. CASE BeginRaw
  <2>1. Enter("raw", "send", "RAW", NoConf) /\ UNCHANGED vars /\ Up
    BY <1>4 DEF BeginRaw
  <2>2. RawBegun'
    BY <1>2, <2>1 DEF RawBegun, Up, vars
  <2> QED BY <1>2, <2>1, <2>2 DEF EntryAt, Greeting, vars
<1>5. CASE BeginClose
  <2>1. Enter("close", "send", "BYE", NoConf)
    BY <1>5 DEF BeginClose
  <2>2. ByeBegun'
    BY <1>2, <1>5, <2>1 DEF BeginClose, ByeBegun, Up
  <2> QED BY <1>2, <1>5, <2>1, <2>2 DEF EntryAt, BeginClose, Greeting
<1>6. CASE BeginReconnect
  <2>1. /\ Enter("reconnect", "socket", "RESUME", NoConf) /\ log.fd = NoFd
        /\ log' = [log EXCEPT !.reason = "none"]
        /\ log.initialized /\ log.enabled /\ UNCHANGED <<target, wire, runs, conns>>
    BY <1>6 DEF BeginReconnect, Up
  <2>2. log' = [log EXCEPT !.reason = "none", !.fd = NoFd]
    BY <1>1, <2>1 DEF Logs
  <2>3. OpenedFd' = NoFd
    BY <1>2, <2>1 DEF OpenedFd
  <2>4. ReconnectBegun'
    BY <1>2, <2>1, <2>2, <2>3 DEF ReconnectBegun
  <2> QED BY <1>2, <2>1, <2>4 DEF EntryAt, Greeting
<1>7. ASSUME NEW conf \in Loadable, BeginInit(conf) PROVE EntryAt'
  <2>0. /\ conf \in Confs /\ runs < MaxInits /\ wire' = wire /\ conns' = conns
        /\ target' = ReleasedTarget(log, target)
    BY <1>7, LoadableType DEF BeginInit
  <2>1. CASE Up
    <3>1. log' = Released(log) /\ runs' = runs /\ Enter("init", "send", "BYE", conf)
      BY <1>7, <2>1 DEF BeginInit
    <3>2. ByeBegun'
      BY <1>2, <2>0, <2>1, <3>1 DEF ByeBegun, Up
    <3> QED BY <1>2, <2>0, <3>1, <3>2 DEF EntryAt, Greeting
  <2>2. CASE ~Up
    <3>1. Restart(Released(log), conf) /\ runs' = runs + 1
      BY <1>7, <2>2 DEF BeginInit, Restart
    <3>2. CASE ~log'.enabled
      <4>1. call' = Idle
        BY <1>1, <1>7, <2>2, <3>2 DEF BeginInit
      <4> QED BY <4>1 DEF EntryAt, AtRest, Idle, Greeting
    <3>3. CASE log'.enabled
      <4>1. Enter("init", "socket", "HELLO", NoConf)
        BY <1>7, <2>2, <3>3 DEF BeginInit
      <4>2. log' = FreshFrom(Released(log), log'.udp, NoFd)
        BY <1>1, <2>0, <2>2, <3>1, <3>3, RestartIsFresh DEF Up
      <4>3. SessionBegun'
        BY <1>2, <2>0, <3>1, <4>1, <4>2 DEF SessionBegun, OpenedFd
      <4> QED BY <1>2, <2>0, <4>1, <4>3 DEF EntryAt, Greeting
    <3> QED BY <3>2, <3>3
  <2> QED BY <2>1, <2>2
<1> QED BY <1>3, <1>4, <1>5, <1>6, <1>7

(* A step that leaves the client and goes on within ps5log__open_channel.   *)
LEMMA OpenGoesOnEntry ==
  ASSUME RefInv,
         \/ OpenSocket \/ SetNonblocking \/ ConnectPending \/ PollCreate
         \/ PollControl \/ PollReady
  PROVE  EntryAt' /\ UNCHANGED <<vars, entry>> /\ ~AtRest /\ ~AtRest'
<1>1. /\ UNCHANGED vars /\ call \in Calls /\ call.step \in OpenSteps
      /\ \E step \in OpenSteps : Goto(step, call.line)
  BY DEF OpenSocket, SetNonblocking, ConnectPending, PollCreate, PollControl,
     PollReady, OpenStep, OpenSteps, RefInv, BaseInv, Shape
<1>2. /\ entry' = entry /\ call'.op = call.op /\ call'.line = call.line
      /\ call'.step \in OpenSteps
  BY <1>1 DEF Goto, Calls
<1>3. OpenedFd' = OpenedFd /\ AtRest' = AtRest /\ ~Greeting'
  BY <1>1, <1>2 DEF OpenedFd, OpenSteps, vars, Socket, AtRest, Greeting
<1>4. ~AtRest
  BY <1>1 DEF RefInv, BaseInv, Shape, Idle, OpenSteps
<1> QED BY <1>1, <1>2, <1>3, <1>4 DEF RefInv, EntryAt, LineBegun, RawBegun,
     ReconnectBegun, ByeBegun, SessionBegun, vars

LEMMA ConnectedEntry ==
  ASSUME RefInv, Connected
  PROVE  EntryAt' /\ UNCHANGED entry /\ ~AtRest /\ ~AtRest'
<1>1. /\ call \in Calls /\ call.step \in OpenSteps /\ log \in Logs /\ conns < MaxConn
      /\ log' = [log EXCEPT !.fd = Socket] /\ conns \in Nat
      /\ Goto("send", call.line) /\ UNCHANGED <<target, wire, runs, conns>>
      /\ call.line \in {"HELLO", "RESUME"}
  BY OpenLine DEF Connected, OpenSteps, RefInv, BaseInv, Shape, Types
<1>2. /\ entry' = entry /\ call'.op = call.op /\ call'.line = call.line
      /\ call'.step = "send"
  BY <1>1 DEF Goto, Calls
<1>3. OpenedFd = NoFd /\ OpenedFd' = Socket
  BY <1>1, <1>2 DEF OpenedFd, OpenSteps, Socket
<1>4. ~AtRest /\ ~AtRest'
  BY <1>1, <1>2 DEF AtRest, RefInv, BaseInv, Shape, Idle, OpenSteps
<1>5. entry \in Entries /\ entry.log \in Logs /\ Released(entry.log) \in Logs
  BY <1>4, ReleasedType DEF RefInv, EntryAt, Entries
<1>6. CASE call.op = "reconnect"
  <2>1. log = [entry.log EXCEPT !.reason = "none", !.fd = NoFd]
    BY <1>3, <1>6 DEF RefInv, EntryAt, ReconnectBegun
  <2>2. log' = [entry.log EXCEPT !.reason = "none", !.fd = Socket]
    BY <1>1, <1>5, <2>1 DEF Logs
  <2>3. ReconnectBegun'
    BY <1>1, <1>2, <1>3, <1>6, <2>2 DEF RefInv, EntryAt, ReconnectBegun
  <2>4. call.line = "RESUME"
    BY <1>6 DEF RefInv, BaseInv, Shape
  <2> QED BY <1>1, <1>2, <1>4, <1>6, <2>3, <2>4 DEF RefInv, EntryAt, Greeting
<1>7. CASE call.op # "reconnect"
  <2>1. call.op = "init" /\ call.line = "HELLO"
    BY <1>1, <1>4, <1>7 DEF RefInv, BaseInv, Shape, Calls, OpenSteps, AtRest
  <2>2. log = FreshFrom(Released(entry.log), log.udp, NoFd)
    BY <1>3, <2>1 DEF RefInv, EntryAt, SessionBegun
  <2>3. log'.udp = log.udp /\ log.udp \in BOOLEAN /\ Socket \in Nat
    BY <1>1 DEF Logs, Socket
  <2>4. log' = FreshFrom(Released(entry.log), log'.udp, Socket)
    <3> DEFINE k == Released(entry.log)
    <3> HIDE DEF k
    <3>1. k \in Logs /\ log = FreshFrom(k, log.udp, NoFd)
      BY <1>5, <2>2 DEF k
    <3>2. log' = FreshFrom(k, log.udp, Socket)
      BY <1>1, <2>3, <3>1 DEF FreshFrom, Logs
    <3> QED BY <2>3, <3>2 DEF k
  <2>5. SessionBegun'
    BY <1>1, <1>2, <1>3, <2>1, <2>4 DEF RefInv, EntryAt, SessionBegun
  <2> QED BY <1>1, <1>2, <1>4, <2>1, <2>5 DEF RefInv, EntryAt, Greeting
<1> QED BY <1>2, <1>4, <1>6, <1>7

LEMMA SendPartEntry ==
  ASSUME RefInv, SendPart
  PROVE  EntryAt' /\ UNCHANGED <<vars, entry>> /\ (AtRest' <=> AtRest)
<1>1. /\ UNCHANGED <<vars, entry>> /\ call'.op = call.op /\ call'.step = call.step
      /\ call'.line = call.line
  BY DEF SendPart, RefInv, BaseInv, Shape, Calls
<1>2. OpenedFd' = OpenedFd /\ AtRest' = AtRest /\ Greeting' = Greeting
  BY <1>1 DEF OpenedFd, vars, Socket, AtRest, Greeting
<1> QED BY <1>1, <1>2 DEF RefInv, EntryAt, LineBegun, RawBegun,
     ReconnectBegun, ByeBegun, SessionBegun, vars

(* ps5log_init goes on from BYE to the new session.                         *)
LEMMA SaidByeEntry ==
  ASSUME RefInv, NEW whole \in BOOLEAN, SaidBye(whole), call.op = "init", log'.enabled
  PROVE  EntryAt' /\ UNCHANGED entry /\ ~AtRest /\ ~AtRest'
<1> DEFINE closed == [log EXCEPT !.fd = NoFd, !.reason = "closed"]
           x == [run |-> runs, conn |-> log.fd, kind |-> "BYE", seq |-> log.seq]
<1>1. /\ call \in Calls /\ call.line = "BYE" /\ Goto("socket", "HELLO")
      /\ Restart(closed, call.conf) /\ log \in Logs /\ call.conf \in Confs
      /\ wire' = (IF whole THEN Append(wire, x) ELSE wire)
      /\ runs' = runs + 1 /\ UNCHANGED <<target, conns>>
  BY DEF SaidBye, Sending, Restart, RefInv, BaseInv, Shape, Types, Calls
<1>2. /\ entry' = entry /\ call'.op = "init" /\ call'.line = "HELLO"
      /\ call'.step = "socket"
  BY <1>1 DEF Goto, Calls
<1>3. ~AtRest /\ ~AtRest' /\ ~Greeting' /\ OpenedFd' = NoFd
  BY <1>2 DEF AtRest, Greeting, OpenedFd
<1>4. /\ entry \in Entries /\ entry.log \in Logs /\ Released(entry.log) \in Logs
      /\ entry.runs < MaxInits /\ conns = entry.conns
  BY <1>3, ReleasedType DEF RefInv, EntryAt, Entries
<1>5. /\ log = Released(entry.log) /\ entry.log.fd # NoFd
      /\ target = ReleasedTarget(entry.log, entry.target)
      /\ wire = entry.wire /\ runs = entry.runs
  BY <1>1 DEF RefInv, EntryAt, ByeBegun
<1>6. closed \in Logs /\ closed.fd = NoFd /\ closed.capture_flags = log.capture_flags
      /\ closed.capture_active = log.capture_active /\ closed.saved = log.saved
  BY <1>1 DEF Logs
<1>7. log' = FreshFrom(Released(entry.log), log'.udp, NoFd)
  <2> HIDE DEF closed
  <2>1. log' = FreshFrom(log, log'.udp, NoFd)
    BY <1>1, <1>6, RestartIsFresh
  <2> QED BY <1>5, <2>1
<1>8. x = [run |-> entry.runs, conn |-> entry.log.fd, kind |-> "BYE", seq |-> entry.log.seq]
  BY <1>4, <1>5, StdioOnly
<1> HIDE DEF x, closed
<1>9. SessionBegun'
  BY <1>1, <1>2, <1>3, <1>5, <1>7, <1>8 DEF SessionBegun
<1> QED BY <1>1, <1>2, <1>3, <1>4, <1>9 DEF EntryAt

(* Between calls there is nothing to say of the running call.               *)
LEMMA RestEntry == ASSUME call = Idle PROVE EntryAt
BY DEF EntryAt, AtRest, Idle, Greeting

-----------------------------------------------------------------------------
(* The refinement: where a call returns, the session of Ps5Log takes the    *)
(* whole call as one step; everywhere else it does nothing.                 *)
LEMMA SeenAt ==
  /\ AtRest => /\ Seen.log = log /\ Seen.target = target /\ Seen.wire = wire
               /\ Seen.runs = runs /\ Seen.conns = conns
  /\ ~AtRest => Seen = entry
BY DEF Seen

LEMMA SeenNext ==
  /\ AtRest' => /\ Seen'.log = log' /\ Seen'.target = target' /\ Seen'.wire = wire'
                /\ Seen'.runs = runs' /\ Seen'.conns = conns'
  /\ ~AtRest' => Seen' = entry'
BY DEF Seen

LEMMA SessionOps ==
  /\ \A l : Session!Released(l) = Released(l)
  /\ \A l, t : Session!ReleasedTarget(l, t) = ReleasedTarget(l, t)
  /\ \A flags, broken : Session!Reached(flags, broken) = Reached(flags, broken)
  /\ Session!Streams = Streams
BY DEF Session!Released, Session!ReleasedTarget, Session!Reached, Session!Streams,
       Session!NoFd, Released, ReleasedTarget, Reached, Streams, NoFd

LEMMA IdleAtRest == ASSUME call' = Idle PROVE AtRest'
BY DEF AtRest, Idle

(* ps5log_line and ps5log_raw.                                              *)
LEMMA RecordReturns == ASSUME RefInv, SentRecord PROVE Session!Line("sent")
<1>1. /\ call \in Calls /\ call.line = "RECORD" /\ call.step = "send" /\ call' = Idle
      /\ log \in Logs /\ UNCHANGED <<target, runs, conns>>
      /\ log' = [log EXCEPT !.lines_sent = @ + 1]
      /\ wire' = Append(wire, [run |-> runs, conn |-> log.fd, kind |-> "RECORD",
                               seq |-> log.seq])
  BY DEF SentRecord, Sending, Return, RefInv, BaseInv, Shape, Types
<1>2. call.op = "line" /\ ~AtRest
  BY <1>1 DEF RefInv, BaseInv, Shape, Calls, AtRest, Idle
<1>3. LineBegun /\ entry \in Entries /\ conns = entry.conns
  BY <1>2 DEF RefInv, EntryAt
<1>4. /\ Seen = entry /\ Seen'.log = log' /\ Seen'.target = target'
      /\ Seen'.wire = wire' /\ Seen'.runs = runs' /\ Seen'.conns = conns'
  BY <1>1, <1>2, SeenAt, SeenNext, IdleAtRest
<1> DEFINE numbered == [entry.log EXCEPT !.seq = @ + 1]
<1>5. /\ log = numbered /\ entry.log \in Logs /\ numbered.fd = entry.log.fd
      /\ numbered.seq = entry.log.seq + 1
  BY <1>3 DEF LineBegun, Entries, Logs
<1>6. Seen'.log = [numbered EXCEPT !.lines_sent = @ + 1]
  BY <1>1, <1>4, <1>5
<1>7. Seen'.wire = Append(entry.wire, [run |-> entry.runs, conn |-> entry.log.fd,
                                       kind |-> "RECORD", seq |-> numbered.seq])
  BY <1>1, <1>3, <1>4, <1>5 DEF LineBegun
<1> QED BY <1>1, <1>3, <1>4, <1>6, <1>7
     DEF LineBegun, NoFd, Session!Line, Session!Up, Session!NoFd

LEMMA RecordFails ==
  ASSUME RefInv, SendFails, call.line = "RECORD" PROVE Session!Line("failed")
<1> DEFINE numbered == [entry.log EXCEPT !.seq = @ + 1]
           dropped == [numbered EXCEPT !.lines_dropped = @ + 1]
<1>1. /\ call \in Calls /\ call.step = "send" /\ call' = Idle
      /\ log \in Logs /\ UNCHANGED <<wire, runs, conns>>
      /\ Disable([log EXCEPT !.lines_dropped = @ + 1])
  BY DEF SendFails, Sending, Return, RefInv, BaseInv, Shape, Types
<1>2. call.op = "line" /\ ~AtRest
  BY <1>1 DEF RefInv, BaseInv, Shape, Calls, AtRest, Idle
<1>3. LineBegun /\ entry \in Entries /\ conns = entry.conns
  BY <1>2 DEF RefInv, EntryAt
<1>4. /\ Seen = entry /\ Seen'.log = log' /\ Seen'.target = target'
      /\ Seen'.wire = wire' /\ Seen'.runs = runs' /\ Seen'.conns = conns'
  BY <1>1, <1>2, SeenAt, SeenNext, IdleAtRest
<1>5. Disable(dropped)
  BY <1>1, <1>3 DEF LineBegun
<1> HIDE DEF dropped
<1>6. /\ Seen'.log = [Released(dropped) EXCEPT !.fd = NoFd, !.reason = "disabled"]
      /\ Seen'.target = ReleasedTarget(dropped, entry.target)
  BY <1>3, <1>4, <1>5 DEF Disable, LineBegun
<1>7. Session!Disable(dropped)
  BY <1>4, <1>6, SessionOps DEF Session!Disable, Session!NoFd, NoFd
<1> QED BY <1>1, <1>3, <1>4, <1>7
     DEF dropped, LineBegun, NoFd, Session!Line, Session!Up, Session!NoFd

LEMMA RawReturns == ASSUME RefInv, SentRaw PROVE UNCHANGED Session!vars
<1>1. /\ call \in Calls /\ call.line = "RAW" /\ call.step = "send" /\ call' = Idle
      /\ UNCHANGED vars
  BY DEF SentRaw, Sending, Return, RefInv, BaseInv, Shape
<1>2. call.op = "raw" /\ ~AtRest
  BY <1>1 DEF RefInv, BaseInv, Shape, Calls, AtRest, Idle
<1>3. RawBegun /\ conns = entry.conns
  BY <1>2 DEF RefInv, EntryAt
<1>4. /\ Seen = entry /\ Seen'.log = log' /\ Seen'.target = target'
      /\ Seen'.wire = wire' /\ Seen'.runs = runs' /\ Seen'.conns = conns'
  BY <1>1, <1>2, SeenAt, SeenNext, IdleAtRest
<1> QED BY <1>1, <1>3, <1>4 DEF RawBegun, vars, Session!vars

(* A failing send of anything but a record counts nothing.                  *)
LEMMA UncountedFails ==
  ASSUME RefInv, SendFails, call.line # "RECORD"
  PROVE  Disable(log) /\ UNCHANGED <<wire, runs, conns>> /\ call' = Idle
<1>1. log \in Logs
  BY DEF RefInv, BaseInv, Types
<1>2. [log EXCEPT !.lines_dropped = IF call.line = "RECORD" THEN @ + 1 ELSE @] = log
  BY <1>1 DEF Logs
<1> QED BY <1>2 DEF SendFails, Return

LEMMA RawIsRefused ==
  ASSUME RefInv, SendFails, call.line = "RAW" PROVE Session!RawFails
<1>1. /\ call \in Calls /\ call' = Idle /\ UNCHANGED <<wire, runs, conns>>
      /\ Disable(log)
  BY UncountedFails DEF RefInv, BaseInv, Shape
<1>2. call.op = "raw" /\ ~AtRest
  BY <1>1 DEF RefInv, BaseInv, Shape, Calls, AtRest, Idle
<1>3. RawBegun /\ conns = entry.conns
  BY <1>2 DEF RefInv, EntryAt
<1>4. /\ Seen = entry /\ Seen'.log = log' /\ Seen'.target = target'
      /\ Seen'.wire = wire' /\ Seen'.runs = runs' /\ Seen'.conns = conns'
  BY <1>1, <1>2, SeenAt, SeenNext, IdleAtRest
<1>5. Session!Disable(entry.log)
  BY <1>1, <1>3, <1>4, SessionOps DEF RawBegun, Disable, Session!Disable, Session!NoFd, NoFd
<1> QED BY <1>1, <1>3, <1>4, <1>5
     DEF RawBegun, NoFd, Session!RawFails, Session!Up, Session!NoFd

LEMMA ReleasedFields ==
  ASSUME NEW l \in Logs
  PROVE  /\ Released(l) \in Logs /\ Released(l).fd = l.fd
         /\ Released(l).initialized = l.initialized
         /\ Released(l).enabled = l.enabled /\ Released(l).udp = l.udp
         /\ Released(l).capture_flags = l.capture_flags
         /\ Released(l).capture_active = FALSE
         /\ Released(l).saved = IF l.capture_active THEN [f \in Streams |-> NoFd]
                                                    ELSE l.saved
         /\ Released(l).seq = l.seq /\ Released(l).lines_sent = l.lines_sent
         /\ Released(l).lines_dropped = l.lines_dropped
         /\ Released(l).reason = l.reason
<1> DEFINE none == [f \in Streams |-> NoFd]
<1>1. none \in [Streams -> {NoFd} \cup Nat]
  OBVIOUS
<1>2. Released(l) = IF l.capture_active THEN [l EXCEPT !.saved = none, !.capture_active = FALSE]
                                        ELSE l
  BY DEF Released
<1> HIDE DEF none
<1>3. Released(l) \in Logs
  BY ReleasedType, <1>1, <1>2 DEF Logs
<1>4. CASE l.capture_active
  BY <1>1, <1>2, <1>3, <1>4 DEF Logs, none
<1>5. CASE ~l.capture_active
  BY <1>2, <1>3, <1>5 DEF Logs
<1> QED BY <1>4, <1>5

(* ps5log_reconnect: a socket that did not become the channel is forgotten. *)
LEMMA DisableForgets ==
  ASSUME NEW l \in Logs, NEW k \in Logs,
         k.initialized = l.initialized, k.enabled = l.enabled, k.udp = l.udp,
         k.capture_flags = l.capture_flags, k.capture_active = l.capture_active,
         k.saved = l.saved, k.seq = l.seq, k.lines_sent = l.lines_sent,
         k.lines_dropped = l.lines_dropped
  PROVE  [Released(k) EXCEPT !.fd = NoFd, !.reason = "disabled"]
              = [Released(l) EXCEPT !.fd = NoFd, !.reason = "disabled"]
<1> DEFINE rk == Released(k)
           rl == Released(l)
<1>3. /\ rk \in Logs /\ rl \in Logs /\ rk.saved = rl.saved
      /\ rk.capture_active = rl.capture_active
      /\ rk.initialized = rl.initialized /\ rk.enabled = rl.enabled
      /\ rk.udp = rl.udp /\ rk.capture_flags = rl.capture_flags
      /\ rk.seq = rl.seq /\ rk.lines_sent = rl.lines_sent
      /\ rk.lines_dropped = rl.lines_dropped
  <2>1. rk.saved = rl.saved
    BY ReleasedFields
  <2>2. /\ rk \in Logs /\ rl \in Logs /\ rk.capture_active = rl.capture_active
        /\ rk.initialized = rl.initialized /\ rk.enabled = rl.enabled
        /\ rk.udp = rl.udp
    BY ReleasedFields
  <2> QED BY <2>1, <2>2, ReleasedFields
<1> HIDE DEF rk, rl
<1>4. [rk EXCEPT !.fd = NoFd, !.reason = "disabled"]
        = [rl EXCEPT !.fd = NoFd, !.reason = "disabled"]
  BY <1>3 DEF Logs
<1> QED BY <1>4 DEF rk, rl

LEMMA ReconnectFails ==
  ASSUME RefInv, call.op = "reconnect", Disable(log), UNCHANGED <<wire, runs, conns>>,
         call' = Idle
  PROVE  \E broken \in Session!Breaks : Session!Reconnect("failed", broken)
<1>1. ReconnectBegun /\ entry \in Entries /\ conns = entry.conns /\ ~AtRest
  BY DEF RefInv, EntryAt, AtRest
<1>2. /\ Seen = entry /\ Seen'.log = log' /\ Seen'.target = target'
      /\ Seen'.wire = wire' /\ Seen'.runs = runs' /\ Seen'.conns = conns'
  BY <1>1, SeenAt, SeenNext, IdleAtRest
<1>3. /\ entry.log \in Logs /\ OpenedFd \in {NoFd} \cup Nat
      /\ log = [entry.log EXCEPT !.reason = "none", !.fd = OpenedFd]
      /\ target = entry.target
  BY <1>1 DEF ReconnectBegun, Entries, OpenedFd, Socket, RefInv, BaseInv, Types
<1>4. /\ [Released(log) EXCEPT !.fd = NoFd, !.reason = "disabled"]
           = [Released(entry.log) EXCEPT !.fd = NoFd, !.reason = "disabled"]
      /\ ReleasedTarget(log, target) = ReleasedTarget(entry.log, target)
  <2>1. /\ log \in Logs /\ log.initialized = entry.log.initialized
        /\ log.enabled = entry.log.enabled /\ log.udp = entry.log.udp
        /\ log.capture_flags = entry.log.capture_flags
        /\ log.capture_active = entry.log.capture_active
        /\ log.saved = entry.log.saved /\ log.seq = entry.log.seq
        /\ log.lines_sent = entry.log.lines_sent
        /\ log.lines_dropped = entry.log.lines_dropped
    BY <1>3 DEF Logs
  <2>2. ReleasedTarget(log, target) = ReleasedTarget(entry.log, target)
    BY <2>1 DEF ReleasedTarget
  <2> QED BY <1>3, <2>1, <2>2, DisableForgets
<1>5. Session!Disable(entry.log)
  BY <1>2, <1>3, <1>4, SessionOps DEF Disable, Session!Disable, Session!NoFd, NoFd
<1>6. "nothing" \in Session!Breaks
  BY DEF Session!Breaks
<1>7. /\ Seen.log.initialized /\ Seen.log.enabled /\ Seen.log.fd = NoFd
      /\ Seen'.wire = Seen.wire /\ Seen'.runs = Seen.runs /\ Seen'.conns = Seen.conns
  BY <1>1, <1>2 DEF ReconnectBegun
<1>8. Session!Disable(Seen.log)
  BY <1>2, <1>5
<1>9. Session!Reconnect("failed", "nothing")
  BY <1>7, <1>8 DEF NoFd, Session!Reconnect, Session!Up, Session!NoFd
<1> QED BY <1>6, <1>9

LEMMA SessionApplied ==
  ASSUME Seen.target = target
  PROVE  \A l, flags, broken :
           /\ Session!Applied(l, flags, broken) = Applied(l, flags, broken)
           /\ Session!AppliedTarget(l, flags, broken) = AppliedTarget(l, flags, broken)
BY SessionOps,
   ZenonT(60) DEF Session!Applied, Session!AppliedTarget, Applied, AppliedTarget,
   Session!NoFd, NoFd

LEMMA ReconnectSucceeds ==
  ASSUME RefInv, NEW broken \in Breaks, SentHello(broken), call.op = "reconnect"
  PROVE  \E b \in Session!Breaks : Session!Reconnect("up", b)
<1> DEFINE flags == IF log.udp THEN {} ELSE log.capture_flags
<1>1. /\ call.line = "RESUME" /\ call.step = "send" /\ call' = Idle /\ runs' = runs
      /\ wire' = Append(wire, Hello(log, "RESUME", runs, log.fd)) /\ conns' = log.fd
      /\ log' = (IF flags = {} THEN log ELSE Applied(log, flags, broken))
      /\ target' = AppliedTarget(log, flags, broken)
  BY DEF SentHello, Sending, Return, RefInv, BaseInv, Shape
<1>2. ReconnectBegun /\ entry \in Entries /\ conns = entry.conns /\ ~AtRest
      /\ conns < MaxConn /\ OpenedFd = conns + 1
  BY <1>1 DEF RefInv, EntryAt, AtRest, Greeting, OpenedFd, Socket
<1>3. /\ Seen = entry /\ Seen'.log = log' /\ Seen'.target = target'
      /\ Seen'.wire = wire' /\ Seen'.runs = runs' /\ Seen'.conns = conns'
  BY <1>1, <1>2, SeenAt, SeenNext, IdleAtRest
<1>4. /\ log = [Seen.log EXCEPT !.fd = Seen.conns + 1, !.reason = "none"]
      /\ log.fd = Seen.conns + 1 /\ log.seq = Seen.log.seq
      /\ Seen.target = target /\ Seen.wire = wire /\ Seen.runs = runs
  <2>1. /\ entry.log \in Logs
        /\ log = [entry.log EXCEPT !.reason = "none", !.fd = conns + 1]
        /\ entry.target = target /\ entry.wire = wire /\ entry.runs = runs
    BY <1>2 DEF ReconnectBegun, Entries
  <2>2. log = [entry.log EXCEPT !.fd = conns + 1, !.reason = "none"]
    BY <2>1 DEF Logs
  <2>3. log.fd = conns + 1 /\ log.seq = entry.log.seq
    BY <2>1 DEF Logs
  <2> QED BY <1>2, <1>3, <2>1, <2>2, <2>3
<1>5. broken \in Session!Breaks
  BY DEF Breaks, Session!Breaks, Streams, Session!Streams
<1>6. /\ Seen'.log = (IF flags = {} THEN log ELSE Session!Applied(log, flags, broken))
      /\ Seen'.target = Session!AppliedTarget(log, flags, broken)
      /\ Seen'.conns = Seen.conns + 1 /\ Seen'.runs = Seen.runs
  BY <1>1, <1>3, <1>4, SessionApplied
<1>7. Seen'.wire = Append(Seen.wire, Session!Hello(Seen.log, "RESUME", Seen.runs,
                                                    Seen.conns + 1))
  BY <1>1, <1>3, <1>4 DEF Hello, Session!Hello
<1>8. /\ Seen.log.initialized /\ Seen.log.enabled /\ Seen.log.fd = NoFd
      /\ Seen.conns < MaxConn
  BY <1>2, <1>3 DEF ReconnectBegun
<1>9. Session!Reconnect("up", broken)
  <2> DEFINE l == [Seen.log EXCEPT !.fd = Seen.conns + 1, !.reason = "none"]
             fl == IF l.udp THEN {} ELSE l.capture_flags
  <2>1. l = log /\ fl = flags
    BY <1>4
  <2>2. /\ Seen'.log = (IF fl = {} THEN l ELSE Session!Applied(l, fl, broken))
        /\ Seen'.target = Session!AppliedTarget(l, fl, broken)
    BY <1>6, <2>1
  <2> HIDE DEF flags
  <2> QED BY <1>6, <1>7, <1>8, <2>2 DEF NoFd, Session!Reconnect, Session!Up, Session!NoFd
<1> QED BY <1>5, <1>9

(* ps5log_init: the state in which the session opens a channel.             *)
LEMMA SessionClosed ==
  ASSUME Seen.log \in Logs
  PROVE  LET r == Released(Seen.log)
         IN  /\ Session!Closed \in Logs /\ Session!Closed.fd = NoFd
             /\ Session!Closed.capture_flags = r.capture_flags
             /\ Session!Closed.capture_active = r.capture_active
             /\ Session!Closed.saved = r.saved
             /\ Seen.log.fd # NoFd =>
                  Session!Closed = [r EXCEPT !.fd = NoFd, !.reason = "closed"]
             /\ Seen.log.fd = NoFd => Session!Closed = r
<1> DEFINE r == Released(Seen.log)
<1>1. r \in Logs /\ r.fd = Seen.log.fd
  BY ReleasedFields
<1>2. Session!Closed = IF Seen.log.fd # NoFd THEN [r EXCEPT !.fd = NoFd, !.reason = "closed"]
                                              ELSE r
  BY SessionOps DEF Session!Closed, Session!Up, Session!NoFd, NoFd
<1> HIDE DEF r
<1>3. /\ Session!Closed \in Logs /\ Session!Closed.fd = NoFd
      /\ Session!Closed.capture_flags = r.capture_flags
      /\ Session!Closed.capture_active = r.capture_active
      /\ Session!Closed.saved = r.saved
  BY <1>1, <1>2 DEF Logs
<1> QED BY <1>2, <1>3 DEF r

(* The fresh client of a session, as Ps5Log writes it.                      *)
SessionFresh(enabled, udp) ==
  [Session!Closed EXCEPT !.enabled = enabled, !.udp = udp,
                         !.initialized = TRUE, !.reason = "none", !.seq = 0,
                         !.lines_sent = 0, !.lines_dropped = 0]

LEMMA SessionFreshFields ==
  ASSUME Seen.log \in Logs, NEW enabled \in BOOLEAN, NEW udp \in BOOLEAN
  PROVE  /\ SessionFresh(enabled, udp) \in Logs
         /\ SessionFresh(enabled, udp).fd = NoFd
         /\ SessionFresh(enabled, udp).initialized = TRUE
         /\ SessionFresh(enabled, udp).enabled = enabled
         /\ SessionFresh(enabled, udp).udp = udp
         /\ SessionFresh(enabled, udp).capture_flags = Released(Seen.log).capture_flags
         /\ SessionFresh(enabled, udp).capture_active = Released(Seen.log).capture_active
         /\ SessionFresh(enabled, udp).saved = Released(Seen.log).saved
         /\ SessionFresh(enabled, udp).seq = 0
         /\ SessionFresh(enabled, udp).lines_sent = 0
         /\ SessionFresh(enabled, udp).lines_dropped = 0
         /\ SessionFresh(enabled, udp).reason = "none"
<1> DEFINE c == Session!Closed
<1>1. /\ c \in Logs /\ c.fd = NoFd
      /\ c.capture_flags = Released(Seen.log).capture_flags
      /\ c.capture_active = Released(Seen.log).capture_active
      /\ c.saved = Released(Seen.log).saved
  BY SessionClosed
<1>2. SessionFresh(enabled, udp) =
        [c EXCEPT !.enabled = enabled, !.udp = udp,
                  !.initialized = TRUE, !.reason = "none", !.seq = 0,
                  !.lines_sent = 0, !.lines_dropped = 0]
  BY DEF SessionFresh
<1> DEFINE s == SessionFresh(enabled, udp)
<1> HIDE DEF c, s
<1>3. s = [c EXCEPT !.enabled = enabled, !.udp = udp,
                    !.initialized = TRUE, !.reason = "none", !.seq = 0,
                    !.lines_sent = 0, !.lines_dropped = 0]
  BY <1>2 DEF s
<1>4. s \in Logs
  BY <1>1, <1>3 DEF Logs
<1>5. /\ s.fd = NoFd /\ s.initialized = TRUE /\ s.enabled = enabled /\ s.udp = udp
      /\ s.seq = 0 /\ s.lines_sent = 0 /\ s.lines_dropped = 0 /\ s.reason = "none"
  BY <1>1, <1>3 DEF Logs
<1>6. /\ s.capture_flags = c.capture_flags
      /\ s.capture_active = c.capture_active /\ s.saved = c.saved
  BY <1>1, <1>3 DEF Logs
<1> QED BY <1>1, <1>4, <1>5, <1>6 DEF s

(* What the client is while ps5log_init opens its channel.                  *)
LEMMA BegunFields ==
  ASSUME RefInv, ~AtRest, call.line = "HELLO"
  PROVE  /\ Seen = entry /\ entry.log \in Logs
         /\ log.fd = OpenedFd /\ log.initialized = TRUE /\ log.enabled = TRUE
         /\ log.udp \in BOOLEAN /\ log \in Logs
         /\ log.capture_flags = Released(Seen.log).capture_flags
         /\ log.capture_active = Released(Seen.log).capture_active
         /\ log.capture_active = FALSE
         /\ log.saved = Released(Seen.log).saved
         /\ log.seq = 0 /\ log.lines_sent = 0 /\ log.lines_dropped = 0
         /\ log.reason = "none"
         /\ target = ReleasedTarget(Seen.log, Seen.target)
         /\ target \in [Streams -> Nat]
         /\ runs = Seen.runs + 1 /\ conns = Seen.conns /\ Seen.runs < MaxInits
         /\ call.op = "init"
<1>1. /\ SessionBegun /\ entry \in Entries /\ conns = entry.conns /\ log \in Logs
      /\ Seen = entry /\ target \in [Streams -> Nat] /\ conns \in Nat
  BY SeenAt DEF RefInv, EntryAt, BaseInv, Types
<1>2. call.op = "init" /\ entry.runs < MaxInits
  BY DEF RefInv, EntryAt, BaseInv, Shape, Calls, AtRest
<1> DEFINE k == Released(entry.log)
<1>3. k \in Logs /\ k.capture_active = FALSE /\ entry.log \in Logs
  BY <1>1, ReleasedFields DEF Entries
<1>4. log = FreshFrom(k, log.udp, OpenedFd)
  BY <1>1 DEF SessionBegun
<1>5. log.udp \in BOOLEAN /\ OpenedFd \in {NoFd} \cup Nat
  BY <1>1 DEF Logs, OpenedFd, Socket
<1> HIDE DEF k
<1>6. /\ log.fd = OpenedFd /\ log.initialized = TRUE /\ log.enabled = TRUE
      /\ log.capture_flags = k.capture_flags
      /\ log.capture_active = k.capture_active /\ log.saved = k.saved
      /\ log.seq = 0 /\ log.lines_sent = 0 /\ log.lines_dropped = 0
      /\ log.reason = "none"
  BY <1>3, <1>4, <1>5 DEF FreshFrom, Logs
<1> QED BY <1>1, <1>2, <1>3, <1>5, <1>6 DEF SessionBegun, k

LEMMA SessionFarewell ==
  ASSUME RefInv, ~AtRest, call.line = "HELLO"
  PROVE  \E bye \in {"sent", "failed"} : Session!Farewell(bye) = wire
<1>1. SessionBegun /\ Seen = entry
  BY SeenAt DEF RefInv, EntryAt
<1>2. CASE wire = entry.wire
  BY <1>1, <1>2 DEF Session!Farewell
<1>3. CASE wire # entry.wire
  BY <1>1, <1>3 DEF SessionBegun, Session!Farewell, Session!Up, Session!NoFd, NoFd
<1> QED BY <1>2, <1>3

LEMMA InitFails ==
  ASSUME RefInv, ~AtRest, call.line = "HELLO", Disable(log),
         UNCHANGED <<wire, runs, conns>>, call' = Idle
  PROVE  \E udp \in BOOLEAN, bye \in {"sent", "failed"} :
           Session!InitLog(TRUE, udp, bye, "failed")
<1> DEFINE f == SessionFresh(TRUE, log.udp)
<1>1. PICK bye \in {"sent", "failed"} : Session!Farewell(bye) = wire
  BY SessionFarewell
<1>2. /\ Seen'.log = log' /\ Seen'.target = target' /\ Seen'.wire = wire
      /\ Seen'.runs = runs /\ Seen'.conns = conns
  BY SeenNext, IdleAtRest
<1>3. /\ Seen.log \in Logs /\ log.udp \in BOOLEAN /\ log \in Logs
      /\ log.capture_active = FALSE
      /\ target = ReleasedTarget(Seen.log, Seen.target)
      /\ target \in [Streams -> Nat]
      /\ runs = Seen.runs + 1 /\ conns = Seen.conns /\ Seen.runs < MaxInits
  BY BegunFields
<1>4. log' = [log EXCEPT !.fd = NoFd, !.reason = "disabled"] /\ target' = target
  BY <1>3 DEF Disable, Released, ReleasedTarget
<1>5. /\ f \in Logs /\ f.fd = NoFd /\ f.initialized = TRUE /\ f.enabled = TRUE
      /\ f.udp = log.udp /\ f.capture_flags = log.capture_flags
      /\ f.capture_active = log.capture_active /\ f.saved = log.saved
      /\ f.seq = log.seq /\ f.lines_sent = log.lines_sent
      /\ f.lines_dropped = log.lines_dropped
      /\ log.initialized = TRUE /\ log.enabled = TRUE
  BY <1>3, BegunFields, SessionFreshFields
<1>6. log' = [f EXCEPT !.reason = "disabled"]
  <2> HIDE DEF f
  <2> QED BY <1>3, <1>4, <1>5, ZenonT(60) DEF Logs
<1>7. Session!InitLog(TRUE, log.udp, bye, "failed")
  BY <1>1, <1>2, <1>3, <1>4, <1>6, SessionOps DEF SessionFresh, Session!InitLog
<1> QED BY <1>3, <1>7

LEMMA InitSucceeds ==
  ASSUME RefInv, NEW broken \in Breaks, SentHello(broken), call.line = "HELLO"
  PROVE  \E udp \in BOOLEAN, bye \in {"sent", "failed"} :
           Session!InitLog(TRUE, udp, bye, "up")
<1> DEFINE f == SessionFresh(TRUE, log.udp)
<1>0. call.step = "send" /\ ~AtRest /\ call.op = "init"
  BY DEF SentHello, Sending, RefInv, BaseInv, Shape, Calls, AtRest, Idle
<1>1. PICK bye \in {"sent", "failed"} : Session!Farewell(bye) = wire
  BY <1>0, SessionFarewell
<1>2. /\ log' = log /\ target' = AppliedTarget(log, {}, broken) /\ call' = Idle
      /\ wire' = Append(wire, Hello(log, "HELLO", runs, log.fd))
      /\ conns' = log.fd /\ runs' = runs
  BY <1>0 DEF SentHello, Return
<1>3. /\ Seen'.log = log /\ Seen'.target = target' /\ Seen'.wire = wire'
      /\ Seen'.runs = runs /\ Seen'.conns = conns'
  BY <1>2, SeenNext, IdleAtRest
<1>4. /\ Seen.log \in Logs /\ log.udp \in BOOLEAN /\ log \in Logs
      /\ target = ReleasedTarget(Seen.log, Seen.target)
      /\ target \in [Streams -> Nat] /\ log.seq = 0
      /\ runs = Seen.runs + 1 /\ conns = Seen.conns /\ Seen.runs < MaxInits
      /\ log.fd = OpenedFd
  BY <1>0, BegunFields
<1>5. conns < MaxConn /\ log.fd = Seen.conns + 1
  BY <1>0, <1>4 DEF RefInv, EntryAt, Greeting, OpenedFd, Socket
<1>6. target' = target
  <2>1. Reached({}, broken) = {}
    BY DEF Reached
  <2> QED BY <1>2, <1>4, <2>1 DEF AppliedTarget
<1>7. /\ f \in Logs /\ f.fd = NoFd /\ f.initialized = TRUE /\ f.enabled = TRUE
      /\ f.udp = log.udp /\ f.capture_flags = log.capture_flags
      /\ f.capture_active = log.capture_active /\ f.saved = log.saved
      /\ f.seq = log.seq /\ f.lines_sent = log.lines_sent
      /\ f.lines_dropped = log.lines_dropped /\ f.reason = log.reason
      /\ log.initialized = TRUE /\ log.enabled = TRUE
  BY <1>0, <1>4, BegunFields, SessionFreshFields
<1>8. log = [f EXCEPT !.fd = Seen.conns + 1]
  <2> HIDE DEF f
  <2> QED BY <1>4, <1>5, <1>7 DEF Logs
<1>9. wire' = Append(Session!Farewell(bye),
                     Session!Hello(f, "HELLO", Seen.runs + 1, Seen.conns + 1))
  <2> HIDE DEF f
  <2> QED BY <1>1, <1>2, <1>4, <1>5, <1>7 DEF Hello, Session!Hello
<1>10. Session!InitLog(TRUE, log.udp, bye, "up")
  BY <1>2, <1>3, <1>4, <1>5, <1>6, <1>8, <1>9, SessionOps
     DEF SessionFresh, Session!InitLog
<1> QED BY <1>4, <1>10

(* ps5log_init with a configuration that leaves the client disabled.        *)
LEMMA InitDisabled ==
  ASSUME Seen.log \in Logs, NEW l \in Logs, NEW conf \in Confs, Restart(l, conf),
         ~log'.enabled, l.fd = NoFd,
         l.capture_flags = Released(Seen.log).capture_flags,
         l.capture_active = Released(Seen.log).capture_active,
         l.saved = Released(Seen.log).saved,
         Seen.runs < MaxInits, runs = Seen.runs, conns' = Seen.conns,
         target' = ReleasedTarget(Seen.log, Seen.target),
         NEW bye \in {"sent", "failed"}, wire' = Session!Farewell(bye), AtRest'
  PROVE  Session!InitLog(FALSE, conf.udp, bye, "failed")
<1> DEFINE usable == conf.enabled /\ conf.server # ""
           f == SessionFresh(FALSE, conf.udp)
<1>1. usable \in BOOLEAN /\ conf.udp \in BOOLEAN
  BY DEF Confs
<1>2. log' = [l EXCEPT !.enabled = usable, !.udp = conf.udp,
                       !.initialized = TRUE, !.seq = 0, !.lines_sent = 0,
                       !.lines_dropped = 0,
                       !.reason = IF usable THEN "none" ELSE "disabled"]
      /\ runs' = runs + 1
  BY DEF Restart
<1>3. usable = FALSE
  BY <1>1, <1>2 DEF Logs
<1>4. /\ f \in Logs /\ f.fd = NoFd /\ f.initialized = TRUE /\ f.enabled = FALSE
      /\ f.udp = conf.udp /\ f.capture_flags = l.capture_flags
      /\ f.capture_active = l.capture_active /\ f.saved = l.saved
      /\ f.seq = 0 /\ f.lines_sent = 0 /\ f.lines_dropped = 0
  BY <1>1, SessionFreshFields
<1>5. log' = [f EXCEPT !.reason = "disabled"]
  <2> HIDE DEF f, usable
  <2>1. /\ log' \in Logs /\ log'.fd = NoFd /\ log'.initialized = TRUE
        /\ log'.enabled = FALSE /\ log'.udp = conf.udp
        /\ log'.capture_flags = l.capture_flags
        /\ log'.capture_active = l.capture_active /\ log'.saved = l.saved
        /\ log'.seq = 0 /\ log'.lines_sent = 0 /\ log'.lines_dropped = 0
        /\ log'.reason = "disabled"
    BY <1>1, <1>2, <1>3 DEF Logs
  <2> QED BY <1>1, <1>4, <2>1 DEF Logs
<1>6. /\ Seen'.log = log' /\ Seen'.target = target' /\ Seen'.wire = wire'
      /\ Seen'.runs = runs' /\ Seen'.conns = conns'
  BY SeenNext
<1> HIDE DEF usable
<1> QED BY <1>2, <1>5, <1>6, SessionOps DEF SessionFresh, Session!InitLog

(* BYE: ps5log_close returns, ps5log_init returns or goes on.               *)
LEMMA ByeWasSent ==
  ASSUME RefInv, NEW whole \in BOOLEAN, SaidBye(whole)
  PROVE  LET closed  == [log EXCEPT !.fd = NoFd, !.reason = "closed"]
             outcome == IF whole THEN "sent" ELSE "failed"
         IN  /\ ~AtRest /\ Seen = entry /\ entry.log \in Logs /\ closed \in Logs
             /\ closed = Session!Closed /\ closed.fd = NoFd
             /\ closed.capture_flags = Released(Seen.log).capture_flags
             /\ closed.capture_active = Released(Seen.log).capture_active
             /\ closed.saved = Released(Seen.log).saved
             /\ target' = ReleasedTarget(Seen.log, Seen.target)
             /\ wire' = Session!Farewell(outcome)
             /\ runs = Seen.runs /\ conns' = Seen.conns
<1> DEFINE closed == [log EXCEPT !.fd = NoFd, !.reason = "closed"]
           outcome == IF whole THEN "sent" ELSE "failed"
<1>1. /\ call.step = "send" /\ call.line = "BYE" /\ log \in Logs
      /\ target' = target /\ conns' = conns
      /\ wire' = (IF whole THEN Append(wire, [run |-> runs, conn |-> log.fd,
                                              kind |-> "BYE", seq |-> log.seq])
                           ELSE wire)
  BY DEF SaidBye, Sending, RefInv, BaseInv, Types
<1>2. ~AtRest
  BY <1>1 DEF RefInv, BaseInv, Shape, Idle
<1>3. Seen = entry /\ entry.log \in Logs /\ ByeBegun /\ conns = entry.conns
  BY <1>1, <1>2, SeenAt DEF RefInv, EntryAt, Entries
<1>4. /\ log = Released(entry.log) /\ entry.log.fd # NoFd /\ log.fd = entry.log.fd
      /\ log.seq = entry.log.seq
  BY <1>3, ReleasedFields DEF ByeBegun
<1>5. closed \in Logs /\ closed.fd = NoFd /\ closed.capture_flags = log.capture_flags
      /\ closed.capture_active = log.capture_active /\ closed.saved = log.saved
  BY <1>1 DEF Logs
<1>6. closed = Session!Closed
  BY <1>3, <1>4, SessionClosed
<1>7. wire' = Session!Farewell(outcome)
  BY <1>1, <1>3, <1>4 DEF ByeBegun, Session!Farewell, Session!Up, Session!NoFd, NoFd
<1> HIDE DEF outcome
<1>8. /\ target' = ReleasedTarget(Seen.log, Seen.target)
      /\ runs = Seen.runs /\ conns' = Seen.conns
  BY <1>1, <1>3 DEF ByeBegun
<1>9. log = Released(Seen.log)
  BY <1>3, <1>4
<1> HIDE DEF closed
<1> QED BY <1>2, <1>3, <1>5, <1>6, <1>7, <1>8, <1>9 DEF closed, outcome

LEMMA CloseReturns ==
  ASSUME RefInv, NEW whole \in BOOLEAN, SaidBye(whole), call.op # "init"
  PROVE  \E outcome \in {"sent", "failed"} : Session!Close(outcome)
<1> DEFINE closed == [log EXCEPT !.fd = NoFd, !.reason = "closed"]
           outcome == IF whole THEN "sent" ELSE "failed"
<1>1. log' = closed /\ call' = Idle /\ runs' = runs
  BY DEF SaidBye, Return
<1>2. /\ Seen'.log = log' /\ Seen'.target = target' /\ Seen'.wire = wire'
      /\ Seen'.runs = runs' /\ Seen'.conns = conns'
  BY <1>1, SeenNext, IdleAtRest
<1>3. /\ closed = Session!Closed
      /\ target' = ReleasedTarget(Seen.log, Seen.target)
      /\ wire' = Session!Farewell(outcome)
      /\ runs = Seen.runs /\ conns' = Seen.conns
  BY ByeWasSent
<1>4. outcome \in {"sent", "failed"}
  OBVIOUS
<1> HIDE DEF closed, outcome
<1>5. Session!Close(outcome)
  BY <1>1, <1>2, <1>3, SessionOps DEF Session!Close
<1> QED BY <1>4, <1>5

LEMMA InitEndsAfterBye ==
  ASSUME RefInv, NEW whole \in BOOLEAN, SaidBye(whole), call.op = "init", ~log'.enabled
  PROVE  \E udp \in BOOLEAN, bye \in {"sent", "failed"} :
           Session!InitLog(FALSE, udp, bye, "failed")
<1> DEFINE closed == [log EXCEPT !.fd = NoFd, !.reason = "closed"]
           outcome == IF whole THEN "sent" ELSE "failed"
<1>1. Restart(closed, call.conf) /\ call' = Idle /\ call.conf \in Confs
  BY DEF SaidBye, Return, RefInv, BaseInv, Shape, Calls
<1>2. /\ ~AtRest /\ Seen = entry /\ entry.log \in Logs /\ closed \in Logs
      /\ closed.fd = NoFd
      /\ closed.capture_flags = Released(Seen.log).capture_flags
      /\ closed.capture_active = Released(Seen.log).capture_active
      /\ closed.saved = Released(Seen.log).saved
      /\ target' = ReleasedTarget(Seen.log, Seen.target)
      /\ wire' = Session!Farewell(outcome)
      /\ runs = Seen.runs /\ conns' = Seen.conns
  BY ByeWasSent
<1>3. outcome \in {"sent", "failed"} /\ AtRest'
  BY <1>1, IdleAtRest
<1>4. Seen.log \in Logs /\ Seen.runs < MaxInits
  BY <1>2 DEF RefInv, EntryAt
<1>5. call.conf.udp \in BOOLEAN
  BY <1>1 DEF Confs
<1> HIDE DEF closed, outcome
<1>6. Session!InitLog(FALSE, call.conf.udp, outcome, "failed")
  BY <1>1, <1>2, <1>3, <1>4, InitDisabled
<1> QED BY <1>3, <1>5, <1>6

LEMMA InitEndsAtOnce ==
  ASSUME RefInv, NEW conf \in Loadable, BeginInit(conf), ~Up, ~log'.enabled
  PROVE  \E udp \in BOOLEAN, bye \in {"sent", "failed"} :
           Session!InitLog(FALSE, udp, bye, "failed")
<1>1. /\ Restart(Released(log), conf) /\ conf \in Confs /\ AtRest /\ UNCHANGED call
      /\ log \in Logs /\ log.fd = NoFd /\ runs < MaxInits
      /\ target' = ReleasedTarget(log, target) /\ wire' = wire /\ conns' = conns
  BY LoadableType DEF BeginInit, RefInv, BaseInv, Types, Up
<1>2. AtRest'
  BY <1>1 DEF AtRest
<1>3. /\ Seen.log = log /\ Seen.target = target /\ Seen.wire = wire
      /\ Seen.runs = runs /\ Seen.conns = conns
  BY <1>1, SeenAt
<1>4. wire' = Session!Farewell("failed")
  BY <1>1, <1>3 DEF Session!Farewell
<1>5. Released(log) \in Logs /\ Released(log).fd = NoFd /\ conf.udp \in BOOLEAN
  BY <1>1, ReleasedFields DEF Confs
<1>6. Session!InitLog(FALSE, conf.udp, "failed", "failed")
  BY <1>1, <1>2, <1>3, <1>4, <1>5, InitDisabled
<1> QED BY <1>5, <1>6

(* The calls that make no network call are already those of Ps5Log.         *)
LEMMA RestReturns ==
  ASSUME RefInv, CallWithoutNetwork
  PROVE  \/ Session!Line("failed") \/ Session!Close("failed")
         \/ \E flags \in FlagSets, broken \in Session!Breaks :
              Session!CaptureStdio(flags, broken)
         \/ Session!ReleaseStdio
<1>1. AtRest /\ AtRest'
  BY DEF CallWithoutNetwork, AtRest
<1>2. /\ Seen.log = log /\ Seen.target = target /\ Seen.wire = wire
      /\ Seen.runs = runs /\ Seen.conns = conns
      /\ Seen'.log = log' /\ Seen'.target = target' /\ Seen'.wire = wire'
      /\ Seen'.runs = runs' /\ Seen'.conns = conns'
  BY <1>1, SeenAt, SeenNext
<1>3. ASSUME ~Up, Line("failed") PROVE Session!Line("failed")
  BY <1>2, <1>3 DEF Line, Session!Line, Up, Session!Up, NoFd, Session!NoFd
<1>4. ASSUME ~Up, Close("failed") PROVE Session!Close("failed")
  <2>1. Session!Closed = Closed /\ Session!Farewell("failed") = Farewell("failed")
    BY <1>2, <1>4, SessionOps DEF Closed, Farewell, Session!Closed, Session!Farewell,
       Up, Session!Up, NoFd, Session!NoFd
  <2> QED BY <1>2, <1>4, <2>1, SessionOps DEF Close, Session!Close
<1>5. ASSUME NEW flags \in FlagSets, NEW broken \in Breaks, CaptureStdio(flags, broken)
      PROVE  broken \in Session!Breaks /\ Session!CaptureStdio(flags, broken)
  <2>1. broken \in Session!Breaks
    BY DEF Breaks, Session!Breaks, Streams, Session!Streams
  <2>2. /\ \A l : /\ Session!Applied(l, flags, broken) = Applied(l, flags, broken)
                  /\ Session!AppliedTarget(l, flags, broken)
                       = AppliedTarget(l, flags, broken)
        /\ \A l, t : Session!ReleasedTarget(l, t) = ReleasedTarget(l, t)
        /\ \A l : Session!Released(l) = Released(l)
    BY <1>2, SessionApplied, SessionOps
  <2>3. Session!Up = Up
    BY <1>2 DEF Up, Session!Up, NoFd, Session!NoFd
  <2>4. Session!CaptureStdio(flags, broken)
    BY <1>2, <1>5, <2>2, <2>3 DEF CaptureStdio, Session!CaptureStdio
  <2> QED BY <2>1, <2>4
<1>6. ASSUME ReleaseStdio PROVE Session!ReleaseStdio
  BY <1>2, <1>6, SessionOps DEF ReleaseStdio, Session!ReleaseStdio
<1> QED BY <1>3, <1>4, <1>5, <1>6, Zenon DEF CallWithoutNetwork

LEMMA RestEntryNext == ASSUME call' = Idle PROVE EntryAt'
BY DEF EntryAt, AtRest, Idle, Greeting

(* Within a call the session does not move.                                 *)
LEMMA CallGoesOn ==
  ASSUME ~AtRest, ~AtRest', UNCHANGED entry PROVE UNCHANGED Session!vars
<1>1. Seen = entry /\ Seen' = entry
  BY SeenAt, SeenNext
<1> QED BY <1>1 DEF Session!vars

LEMMA CallBegins ==
  ASSUME AtRest, NEW op, NEW step, NEW line, NEW conf, op # "none",
         Enter(op, step, line, conf)
  PROVE  UNCHANGED Session!vars
<1>1. /\ ~AtRest' /\ entry'.log = log /\ entry'.target = target
      /\ entry'.wire = wire /\ entry'.runs = runs /\ entry'.conns = conns
  BY DEF Enter, AtRest
<1>2. /\ Seen.log = log /\ Seen.target = target /\ Seen.wire = wire
      /\ Seen.runs = runs /\ Seen.conns = conns /\ Seen' = entry'
  BY <1>1, SeenAt, SeenNext
<1> QED BY <1>1, <1>2 DEF Session!vars

LEMMA BeginSteps ==
  ASSUME RefInv,
         \/ \E conf \in Loadable : BeginInit(conf)
         \/ BeginReconnect \/ BeginLine \/ BeginRaw \/ BeginClose
  PROVE  [Session!Next]_(Session!vars)
<1>1. ASSUME NEW conf \in Loadable, BeginInit(conf), ~Up, ~log'.enabled
      PROVE  Session!Next
  BY <1>1, InitEndsAtOnce DEF Session!Next
<1>2. ASSUME NEW conf \in Loadable, BeginInit(conf), Up \/ log'.enabled
      PROVE  UNCHANGED Session!vars
  <2>1. AtRest /\ (Enter("init", "send", "BYE", conf)
                   \/ Enter("init", "socket", "HELLO", NoConf))
    BY <1>2 DEF BeginInit
  <2> QED BY <2>1, CallBegins
<1>3. ASSUME BeginReconnect \/ BeginLine \/ BeginRaw \/ BeginClose
      PROVE  UNCHANGED Session!vars
  <2>1. /\ AtRest
        /\ \/ Enter("reconnect", "socket", "RESUME", NoConf)
           \/ Enter("line", "send", "RECORD", NoConf)
           \/ Enter("raw", "send", "RAW", NoConf)
           \/ Enter("close", "send", "BYE", NoConf)
    BY <1>3 DEF BeginReconnect, BeginLine, BeginRaw, BeginClose
  <2> QED BY <2>1, CallBegins
<1> QED BY <1>1, <1>2, <1>3

(* What a failure to open or to greet means to the caller.                  *)
LEMMA FailedOpening ==
  ASSUME RefInv, ~AtRest, call.line \in {"HELLO", "RESUME"}, Disable(log),
         UNCHANGED <<wire, runs, conns>>, call' = Idle
  PROVE  Session!Next
<1>1. CASE call.line = "HELLO"
  BY <1>1, InitFails DEF Session!Next
<1>2. CASE call.line = "RESUME"
  <2>1. call.op = "reconnect"
    BY <1>2 DEF RefInv, BaseInv, Shape, Calls, AtRest
  <2> QED BY <2>1, ReconnectFails DEF Session!Next
<1> QED BY <1>1, <1>2

LEMMA OpeningSteps ==
  ASSUME RefInv, OpenChannel
  PROVE  [Session!Next]_(Session!vars) /\ EntryAt'
<1>1. CASE Connected
  BY <1>1, ConnectedEntry, CallGoesOn
<1>2. CASE \/ OpenSocket \/ SetNonblocking \/ ConnectPending \/ PollCreate
           \/ PollControl \/ PollReady
  BY <1>2, OpenGoesOnEntry, CallGoesOn
<1>3. CASE call.step \in OpenSteps /\ \E closing : GiveUp(closing)
  <2>1. /\ ~AtRest /\ call.line \in {"HELLO", "RESUME"} /\ Disable(log)
        /\ UNCHANGED <<wire, runs, conns>> /\ call' = Idle
    BY <1>3, OpenLine DEF RefInv, BaseInv, Shape, Idle, OpenSteps, GiveUp, Return
  <2> QED BY <2>1, FailedOpening, RestEntryNext
<1>4. \/ Connected
      \/ \/ OpenSocket \/ SetNonblocking \/ ConnectPending \/ PollCreate
         \/ PollControl \/ PollReady
      \/ call.step \in OpenSteps /\ \E closing : GiveUp(closing)
  BY DEF OpenChannel, OpenSocketFails, SetNonblockingFails, ConnectFails,
     PollCreateFails, PollControlFails, PollTimesOutOrFails, SocketError, OpenSteps
<1> QED BY <1>1, <1>2, <1>3, <1>4

LEMMA SendSteps ==
  ASSUME RefInv, SendAll
  PROVE  [Session!Next]_(Session!vars) /\ EntryAt'
<1>1. CASE SendPart
  <2>1. ~AtRest
    BY <1>1 DEF SendPart, RefInv, BaseInv, Shape, Idle
  <2> QED BY <1>1, <2>1, SendPartEntry, CallGoesOn
<1>2. CASE SentRecord
  <2>1. call' = Idle
    BY <1>2 DEF SentRecord, Return
  <2> QED BY <1>2, <2>1, RecordReturns, RestEntryNext DEF Session!Next
<1>3. CASE SentRaw
  <2>1. call' = Idle
    BY <1>3 DEF SentRaw, Return
  <2> QED BY <1>3, <2>1, RawReturns, RestEntryNext
<1>4. CASE SendFails
  <2>1. /\ call.line \in {"RECORD", "RAW", "HELLO", "RESUME"} /\ call' = Idle
        /\ ~AtRest
    BY <1>4 DEF SendFails, Sending, Return, RefInv, BaseInv, Shape, Idle
  <2>2. CASE call.line = "RECORD"
    BY <1>4, <2>1, <2>2, RecordFails, RestEntryNext DEF Session!Next
  <2>3. CASE call.line = "RAW"
    BY <1>4, <2>1, <2>3, RawIsRefused, RestEntryNext DEF Session!Next
  <2>4. CASE call.line \in {"HELLO", "RESUME"}
    BY <1>4, <2>1, <2>4, UncountedFails, FailedOpening, RestEntryNext
  <2> QED BY <2>1, <2>2, <2>3, <2>4
<1>5. ASSUME NEW broken \in Breaks, SentHello(broken)
      PROVE  Session!Next /\ EntryAt'
  <2>1. call' = Idle /\ call.line \in {"HELLO", "RESUME"} /\ ~AtRest
    BY <1>5 DEF SentHello, Sending, Return, RefInv, BaseInv, Shape, Idle
  <2>2. CASE call.line = "HELLO"
    BY <1>5, <2>1, <2>2, InitSucceeds, RestEntryNext DEF Session!Next
  <2>3. CASE call.line = "RESUME"
    <3>1. call.op = "reconnect"
      BY <2>1, <2>3 DEF RefInv, BaseInv, Shape, Calls, AtRest
    <3> QED BY <1>5, <2>1, <3>1, ReconnectSucceeds, RestEntryNext DEF Session!Next
  <2> QED BY <2>1, <2>2, <2>3
<1>6. ASSUME NEW whole \in BOOLEAN, SaidBye(whole)
      PROVE  [Session!Next]_(Session!vars) /\ EntryAt'
  <2>1. CASE call.op = "init" /\ log'.enabled
    BY <1>6, <2>1, SaidByeEntry, CallGoesOn
  <2>2. CASE call.op = "init" /\ ~log'.enabled
    <3>1. call' = Idle
      BY <1>6, <2>2 DEF SaidBye, Return
    <3> QED BY <1>6, <2>2, <3>1, InitEndsAfterBye, RestEntryNext DEF Session!Next
  <2>3. CASE call.op # "init"
    <3>1. call' = Idle
      BY <1>6, <2>3 DEF SaidBye, Return
    <3> QED BY <1>6, <2>3, <3>1, CloseReturns, RestEntryNext DEF Session!Next
  <2> QED BY <2>1, <2>2, <2>3
<1> QED BY <1>1, <1>2, <1>3, <1>4, <1>5, <1>6 DEF SendAll

LEMMA NextSession ==
  ASSUME RefInv, [ChannelNext]_<<vars, inside>>
  PROVE  [Session!Next]_(Session!vars) /\ EntryAt'
<1>1. CASE PrintOutput \/ UNCHANGED <<vars, inside>>
  <2>1. UNCHANGED <<log, target, wire, runs, conns, call, entry>>
    BY <1>1 DEF PrintOutput, vars, inside
  <2>2. Seen' = Seen
    BY <2>1 DEF Seen, AtRest
  <2>3. EntryAt'
    BY <2>1 DEF RefInv, EntryAt, AtRest, LineBegun, RawBegun, ReconnectBegun,
       ByeBegun, SessionBegun, OpenedFd, Socket, Greeting
  <2> QED BY <2>2, <2>3 DEF Session!vars
<1>2. CASE \/ \E conf \in Loadable : BeginInit(conf)
           \/ BeginReconnect \/ BeginLine \/ BeginRaw \/ BeginClose
  BY <1>2, BeginSteps, BeginEntry DEF RefInv
<1>3. CASE OpenChannel
  BY <1>3, OpeningSteps
<1>4. CASE SendAll
  BY <1>4, SendSteps
<1>5. CASE CallWithoutNetwork
  <2>1. call' = Idle
    BY <1>5 DEF CallWithoutNetwork, RefInv, BaseInv, Shape
  <2> QED BY <1>5, <2>1, RestReturns, RestEntryNext DEF Session!Next
<1> QED BY <1>1, <1>2, <1>3, <1>4, <1>5 DEF ChannelNext

(* Cut at its network calls and let fail at any of them, each call is, to   *)
(* its caller, one of the calls of Ps5Log.                                  *)
THEOREM CallsAreWhole == ChannelSpec => ImplementsSession
<1>1. ChannelInit => RefInv /\ Session!Init
  <2>1. ASSUME ChannelInit PROVE RefInv
    <3>1. call = Idle
      BY <2>1 DEF ChannelInit
    <3> QED BY <2>1, <3>1, InitBase, RestEntry DEF RefInv
  <2>2. ASSUME ChannelInit PROVE Session!Init
    <3>1. Init /\ AtRest
      BY <2>2 DEF ChannelInit, AtRest, Idle
    <3> QED BY <3>1, SeenAt DEF Init, Session!Init, Streams, Session!Streams,
               NoFd, Session!NoFd, Console, Session!Console
  <2> QED BY <2>1, <2>2
<1>2. RefInv /\ [ChannelNext]_<<vars, inside>> => RefInv' /\ [Session!Next]_(Session!vars)
  BY NextSession, NextBase DEF RefInv
<1> QED BY <1>1, <1>2, PTL DEF ChannelSpec, ImplementsSession, Session!Spec
=============================================================================
