-------------------------- MODULE NativeAppProofs --------------------------
(***************************************************************************)
(* What NativeApp promises of main() and cleanup(), proved.                 *)
(*                                                                          *)
(* The argument: while main() acquires, what is held and what the flags say *)
(* are functions of how far down Chain it is, so that every prefix of Chain *)
(* is closed under Needs and leaves at most one block of memory unflagged;  *)
(* while cleanup() runs, everything before its place in Teardown is gone,   *)
(* the buffers whose unregistration was deferred excepted, and those only   *)
(* for as long as VideoOut is open.                                         *)
(***************************************************************************)
EXTENDS NativeApp, SequenceTheorems, TLAPS

(* The place in Chain after which an object is held, and after which its    *)
(* flag is set.  The exit control is not in Chain.                          *)
GotAt(r) ==
  CASE r = "agc"             -> 1
    [] r = "command_range"   -> 3
    [] r = "command_mem"     -> 4
    [] r = "command_map"     -> 5
    [] r = "framebuffer_mem" -> 6
    [] r = "framebuffer_map" -> 7
    [] r = "video"           -> 8
    [] r = "equeue"          -> 9
    [] r = "flip_event"      -> 10
    [] r = "video_buffers"   -> 12
    [] r = "shader_mem"      -> 13
    [] r = "shader_map"      -> 14
    [] r = "depth_mem"       -> 15
    [] r = "depth_map"       -> 16
    [] OTHER                 -> 20

FlagAt(r) ==
  CASE r = "framebuffer_mem" -> 7
    [] r = "shader_mem"      -> 14
    [] r = "depth_mem"       -> 16
    [] OTHER                 -> GotAt(r)

(* The place in Teardown.                                                   *)
TearAt(r) ==
  CASE r = "pad"             -> 1
    [] r = "user_service"    -> 2
    [] r = "video_buffers"   -> 3
    [] r = "flip_event"      -> 4
    [] r = "equeue"          -> 5
    [] r = "video"           -> 6
    [] r = "framebuffer_map" -> 7
    [] r = "framebuffer_mem" -> 8
    [] r = "depth_map"       -> 9
    [] r = "depth_mem"       -> 10
    [] r = "shader_map"      -> 11
    [] r = "shader_mem"      -> 12
    [] r = "command_map"     -> 13
    [] r = "command_mem"     -> 14
    [] r = "command_range"   -> 15
    [] OTHER                 -> 16

Blocks == {"framebuffer_mem", "shader_mem", "depth_mem"}

All == {"pad", "user_service", "video_buffers", "flip_event", "equeue", "video",
        "framebuffer_map", "framebuffer_mem", "depth_map", "depth_mem",
        "shader_map", "shader_mem", "command_map", "command_mem",
        "command_range", "agc"}

TypeOK ==
  /\ held \subseteq All /\ owned \subseteq All
  /\ main \in {"acquiring", "exit_control", "looping", "cleanup", "ended"}
  /\ next \in Nat \ {0}
  /\ cleaned \in {"ok", "auxiliary", "failed"}
  /\ ending \in {"none", "return", "_exit", "park"}

(* While main() acquires, its place in Chain says everything.               *)
Acquiring ==
  main = "acquiring" =>
    /\ next <= 19
    /\ \A r \in All : r \in held <=> GotAt(r) < next
    /\ \A r \in All : r \in owned <=> FlagAt(r) < next
    /\ cleaned = "ok" /\ ending = "none"

(* Once it has everything, the flags are the truth.                         *)
Running ==
  main \in {"exit_control", "looping"} =>
    held = owned /\ cleaned = "ok" /\ ending = "none"

(* What is behind cleanup() is no longer owned, deferred buffers excepted.  *)
Behind ==
  main = "cleanup" =>
    /\ next <= 17
    /\ \A r \in owned :
         TearAt(r) < next => r = "video_buffers" /\ "video" \in owned

(* What is held with no flag to say so, by how the teardown was entered.    *)
Unflagged ==
  main \in {"cleanup", "ended"} =>
    /\ ending = "return" /\ cleaned = "ok" =>
         \E mem \in Blocks : held \ owned \subseteq {mem}
    /\ ending = "return" => owned \cap Auxiliary = {} /\ cleaned # "auxiliary"
    /\ ending = "_exit" =>
         /\ cleaned = "ok" => held = owned
         /\ cleaned = "auxiliary" => held \ owned \subseteq Auxiliary
    /\ held \ owned \subseteq Blocks \cup Auxiliary
    /\ main = "cleanup" => ending \in {"return", "_exit"} /\ cleaned # "failed"

(* A teardown that ended without a failure owns nothing.                    *)
Emptied ==
  main = "ended" /\ ending \in {"return", "_exit"} /\ cleaned # "failed" =>
    owned = {}

IInv ==
  TypeOK /\ FlagsAreTrue /\ HeldInOrder
    /\ Acquiring /\ Running /\ Behind /\ Unflagged /\ Emptied

-----------------------------------------------------------------------------
(* The constant sequences, element by element.                              *)
LEMMA DirectIs ==
  ASSUME NEW mem, NEW map
  PROVE  /\ Len(Direct(mem, map)) = 2
         /\ Direct(mem, map)[1] = [gets |-> {mem}, flags |-> {}]
         /\ Direct(mem, map)[2] = [gets |-> {map}, flags |-> {mem, map}]
         /\ Direct(mem, map) \in Seq([gets : SUBSET {mem, map}, flags : SUBSET {mem, map}])
BY DEF Direct

Entry == [gets : SUBSET All, flags : SUBSET All]

(* Two sequences of known lengths, one after the other.                     *)
Joined(u, s, m, t, k) ==
  /\ u \in Seq(Entry) /\ Len(u) = m + k
  /\ \A n \in 1..m : u[n] = s[n]
  /\ \A n \in 1..k : u[m + n] = t[n]

LEMMA JoinedIs ==
  ASSUME NEW s \in Seq(Entry), NEW t \in Seq(Entry), NEW m, NEW k,
         Len(s) = m, Len(t) = k
  PROVE  Joined(s \o t, s, m, t, k)
<1>1. /\ s \o t \in Seq(Entry) /\ Len(s \o t) = Len(s) + Len(t)
      /\ \A n \in 1..Len(s) + Len(t) :
           (s \o t)[n] = IF n <= Len(s) THEN s[n] ELSE t[n - Len(s)]
  BY ConcatProperties
<1>2. Len(s) \in Nat /\ Len(t) \in Nat
  OBVIOUS
<1>3. \A n \in 1..Len(s) : n \in 1..Len(s) + Len(t) /\ n <= Len(s)
  BY <1>2
<1>4. \A n \in 1..Len(t) :
        /\ Len(s) + n \in 1..Len(s) + Len(t)
        /\ ~(Len(s) + n <= Len(s))
        /\ Len(s) + n - Len(s) = n
  BY <1>2
<1>5. \A n \in 1..Len(s) : (s \o t)[n] = s[n]
  BY <1>1, <1>3
<1>6. \A n \in 1..Len(t) : (s \o t)[Len(s) + n] = t[n]
  BY <1>1, <1>4
<1> QED BY <1>1, <1>5, <1>6 DEF Joined

Start == <<Get("agc"), Check>> \o MapCommand

LEMMA StartIs ==
  /\ Start \in Seq(Entry) /\ Len(Start) = 5
  /\ Start[1] = Get("agc") /\ Start[2] = Check /\ Start[3] = Get("command_range")
  /\ Start[4] = Get("command_mem") /\ Start[5] = Get("command_map")
<1>1. <<Get("agc"), Check>> \in Seq(Entry)
  BY DEF Get, Check, Entry, All
<1>2. MapCommand \in Seq(Entry)
  BY DEF MapCommand, Get, Entry, All
<1>3. MapCommand = <<Get("command_range"), Get("command_mem"), Get("command_map")>>
  BY DEF MapCommand
<1> QED BY <1>1, <1>2, <1>3 DEF Start

VideoPart == Start \o Direct("framebuffer_mem", "framebuffer_map") \o VideoOutOpen

LEMMA VideoPartIs ==
  /\ VideoPart \in Seq(Entry) /\ Len(VideoPart) = 12
  /\ \A n \in 1..5 : VideoPart[n] = Start[n]
  /\ VideoPart[6] = [gets |-> {"framebuffer_mem"}, flags |-> {}]
  /\ VideoPart[7] = [gets |-> {"framebuffer_map"},
                     flags |-> {"framebuffer_mem", "framebuffer_map"}]
  /\ VideoPart[8] = Get("video") /\ VideoPart[9] = Get("equeue")
  /\ VideoPart[10] = Get("flip_event") /\ VideoPart[11] = Check
  /\ VideoPart[12] = Get("video_buffers")
<1> DEFINE d == Direct("framebuffer_mem", "framebuffer_map")
<1>1. d \in Seq(Entry) /\ Len(d) = 2
  BY DEF Direct, Entry, All
<1>2. Start \in Seq(Entry) /\ Len(Start) = 5
  BY StartIs
<1>3. VideoOutOpen \in Seq(Entry) /\ Len(VideoOutOpen) = 5
  BY DEF VideoOutOpen, Get, Check, Entry, All
<1>4. /\ d[1] = [gets |-> {"framebuffer_mem"}, flags |-> {}]
      /\ d[2] = [gets |-> {"framebuffer_map"},
                 flags |-> {"framebuffer_mem", "framebuffer_map"}]
  BY DirectIs
<1>5. /\ VideoOutOpen[1] = Get("video") /\ VideoOutOpen[2] = Get("equeue")
      /\ VideoOutOpen[3] = Get("flip_event") /\ VideoOutOpen[4] = Check
      /\ VideoOutOpen[5] = Get("video_buffers")
  BY DEF VideoOutOpen
<1> HIDE DEF d
<1> DEFINE e == Start \o d
<1>6. VideoPart = e \o VideoOutOpen
  BY DEF VideoPart, d
<1>7. Joined(e, Start, 5, d, 2)
  BY <1>1, <1>2, JoinedIs, Zenon
<1> HIDE DEF e
<1>8. e \in Seq(Entry) /\ Len(e) = 7
  BY <1>7 DEF Joined
<1>9. Joined(VideoPart, e, 7, VideoOutOpen, 5)
  BY <1>3, <1>6, <1>8, JoinedIs, Zenon
<1>10. /\ \A n \in 1..5 : e[n] = Start[n]
       /\ e[6] = d[1] /\ e[7] = d[2]
  <2>1. e[5 + 1] = d[1] /\ e[5 + 2] = d[2]
    BY <1>7 DEF Joined
  <2> QED BY <1>7, <2>1 DEF Joined
<1>11. /\ \A n \in 1..5 : VideoPart[n] = Start[n]
       /\ VideoPart[6] = d[1] /\ VideoPart[7] = d[2]
  BY <1>9, <1>10 DEF Joined
<1>12. /\ VideoPart[7 + 1] = VideoOutOpen[1] /\ VideoPart[7 + 2] = VideoOutOpen[2]
       /\ VideoPart[7 + 3] = VideoOutOpen[3] /\ VideoPart[7 + 4] = VideoOutOpen[4]
       /\ VideoPart[7 + 5] = VideoOutOpen[5]
  BY <1>9 DEF Joined
<1>13. VideoPart \in Seq(Entry) /\ Len(VideoPart) = 12
  BY <1>9 DEF Joined
<1> QED BY <1>4, <1>5, <1>11, <1>12, <1>13

LEMMA ChainIs ==
  /\ Len(Chain) = 18
  /\ \A n \in 1..12 : Chain[n] = VideoPart[n]
  /\ Chain[13] = [gets |-> {"shader_mem"}, flags |-> {}]
  /\ Chain[14] = [gets |-> {"shader_map"}, flags |-> {"shader_mem", "shader_map"}]
  /\ Chain[15] = [gets |-> {"depth_mem"}, flags |-> {}]
  /\ Chain[16] = [gets |-> {"depth_map"}, flags |-> {"depth_mem", "depth_map"}]
  /\ Chain[17] = Check /\ Chain[18] = Check
<1> DEFINE s == Direct("shader_mem", "shader_map")
           d == Direct("depth_mem", "depth_map")
           c == <<Check, Check>>
<1>1. s \in Seq(Entry) /\ Len(s) = 2 /\ d \in Seq(Entry) /\ Len(d) = 2
  BY DEF Direct, Entry, All
<1>2. /\ s[1] = [gets |-> {"shader_mem"}, flags |-> {}]
      /\ s[2] = [gets |-> {"shader_map"}, flags |-> {"shader_mem", "shader_map"}]
      /\ d[1] = [gets |-> {"depth_mem"}, flags |-> {}]
      /\ d[2] = [gets |-> {"depth_map"}, flags |-> {"depth_mem", "depth_map"}]
  BY DirectIs
<1>3. c \in Seq(Entry) /\ Len(c) = 2 /\ c[1] = Check /\ c[2] = Check
  BY DEF Check, Entry, All
<1>4. VideoPart \in Seq(Entry) /\ Len(VideoPart) = 12
  BY VideoPartIs
<1> HIDE DEF c
<1>5. Chain = ((VideoPart \o s) \o d) \o c
  BY DEF Chain, VideoPart, Start, c
<1> HIDE DEF s, d
<1> DEFINE p == VideoPart \o s
           q == p \o d
<1>6. Joined(p, VideoPart, 12, s, 2)
  BY <1>1, <1>4, JoinedIs, Zenon
<1>7. Chain = q \o c
  BY <1>5
<1> HIDE DEF p
<1>8. p \in Seq(Entry) /\ Len(p) = 14
  BY <1>6 DEF Joined
<1>9. Joined(q, p, 14, d, 2)
  BY <1>1, <1>8, JoinedIs, Zenon
<1> HIDE DEF q
<1>10. q \in Seq(Entry) /\ Len(q) = 16
  BY <1>9 DEF Joined
<1>11. Joined(Chain, q, 16, c, 2)
  BY <1>3, <1>7, <1>10, JoinedIs, Zenon
<1>12. \A n \in 1..12 : Chain[n] = VideoPart[n]
  BY <1>6, <1>9, <1>11 DEF Joined
<1>13. p[12 + 1] = s[1] /\ p[12 + 2] = s[2]
  BY <1>6 DEF Joined
<1>14. q[14 + 1] = d[1] /\ q[14 + 2] = d[2]
  BY <1>9 DEF Joined
<1>15. Chain[16 + 1] = c[1] /\ Chain[16 + 2] = c[2] /\ Len(Chain) = 18
  BY <1>11 DEF Joined
<1>16. Chain[13] = s[1] /\ Chain[14] = s[2] /\ Chain[15] = d[1] /\ Chain[16] = d[2]
  BY <1>9, <1>11, <1>13, <1>14 DEF Joined
<1> QED BY <1>2, <1>3, <1>12, <1>15, <1>16

(* An entry of Chain gets what GotAt places there, and sets what FlagAt     *)
(* places there.                                                            *)
LEMMA ChainEntries ==
  ASSUME NEW n \in 1..18
  PROVE  /\ \A r \in All : r \in Chain[n].gets <=> GotAt(r) = n
         /\ \A r \in All : r \in Chain[n].flags <=> FlagAt(r) = n
         /\ Chain[n].gets \subseteq All /\ Chain[n].flags \subseteq All
<1> USE DEF Get, Check, All, GotAt, FlagAt
<1>1. CASE n \in 1..5
  <2>1. Chain[n] = Start[n]
    BY <1>1, ChainIs, VideoPartIs
  <2> QED BY <1>1, <2>1, StartIs
<1>2. CASE n = 6 BY <1>2, ChainIs, VideoPartIs
<1>3. CASE n = 7
  <2>1. Chain[7] = [gets |-> {"framebuffer_map"},
                    flags |-> {"framebuffer_mem", "framebuffer_map"}]
    BY ChainIs, VideoPartIs
  <2> QED BY <1>3, <2>1
<1>4. CASE n = 8 BY <1>4, ChainIs, VideoPartIs
<1>5. CASE n = 9 BY <1>5, ChainIs, VideoPartIs
<1>6. CASE n = 10 BY <1>6, ChainIs, VideoPartIs
<1>7. CASE n = 11 BY <1>7, ChainIs, VideoPartIs
<1>8. CASE n = 12 BY <1>8, ChainIs, VideoPartIs
<1>9. CASE n = 13 BY <1>9, ChainIs
<1>10. CASE n = 14 BY <1>10, ChainIs
<1>11. CASE n = 15 BY <1>11, ChainIs
<1>12. CASE n = 16 BY <1>12, ChainIs
<1>13. CASE n = 17 BY <1>13, ChainIs
<1>14. CASE n = 18 BY <1>14, ChainIs
<1> QED BY <1>1, <1>2, <1>3, <1>4, <1>5, <1>6, <1>7, <1>8, <1>9, <1>10,
           <1>11, <1>12, <1>13, <1>14

LEMMA TeardownIs ==
  /\ Len(Teardown) = 16
  /\ \A n \in 1..16 : Teardown[n] \in All /\ TearAt(Teardown[n]) = n
  /\ \A r \in All : TearAt(r) \in 1..16 /\ Teardown[TearAt(r)] = r
  /\ Objects = All
<1>1. Len(Teardown) = 16 /\ DOMAIN Teardown = 1..16
  BY DEF Teardown
<1>2. \A n \in 1..16 : Teardown[n] \in All /\ TearAt(Teardown[n]) = n
  BY DEF Teardown, TearAt, All
<1>3. \A r \in All : TearAt(r) \in 1..16 /\ Teardown[TearAt(r)] = r
  BY DEF Teardown, TearAt, All
<1> QED BY <1>1, <1>2, <1>3 DEF Objects

(* open_exit_control gets only what is Auxiliary, and flags all it gets.    *)
LEMMA ExitControlIs ==
  /\ Len(ExitControl) = 4
  /\ \A n \in 1..4 : /\ ExitControl[n].gets \subseteq Auxiliary
                     /\ ExitControl[n].flags = ExitControl[n].gets
BY DEF ExitControl, Get, Check, Auxiliary

(* What stands on something was got after it, and goes before it, but for   *)
(* the deferred buffers, which go when VideoOut goes.                       *)
LEMMA NeedsInOrder ==
  ASSUME NEW r \in All, NEW s \in Needs(r)
  PROVE  /\ s \in All /\ GotAt(s) < GotAt(r) /\ GotAt(s) < 20
         /\ TearAt(r) < TearAt(s)
         /\ r \notin Blocks \cup Auxiliary
BY DEF Needs, GotAt, TearAt, All, Blocks, Auxiliary

LEMMA AuxiliaryNeeds == \A r \in Auxiliary : Needs(r) = {} /\ r \in All
BY DEF Auxiliary, Needs, All

-----------------------------------------------------------------------------
(* Acquiring.                                                               *)
LEMMA AcquireHolds == ASSUME IInv, AcquireNext PROVE IInv'
<1> USE DEF AcquireNext, Take
<1>1. next \in 1..18 /\ main = "acquiring"
  BY ChainIs DEF IInv, TypeOK
<1>2. /\ \A r \in All : r \in Chain[next].gets <=> GotAt(r) = next
      /\ \A r \in All : r \in Chain[next].flags <=> FlagAt(r) = next
      /\ Chain[next].gets \subseteq All /\ Chain[next].flags \subseteq All
  BY <1>1, ChainEntries
<1>3. \A r \in All : GotAt(r) \in Nat /\ FlagAt(r) \in Nat /\ GotAt(r) <= FlagAt(r)
  BY DEF All, GotAt, FlagAt
<1>4. TypeOK'
  BY <1>1, <1>2 DEF IInv, TypeOK
<1>5. Acquiring'
  <2>1. /\ held' = held \cup Chain[next].gets
        /\ owned' = owned \cup Chain[next].flags /\ next' = next + 1
    OBVIOUS
  <2>2. \A r \in All : r \in held' <=> GotAt(r) < next'
    BY <1>1, <1>2, <1>3, <2>1 DEF IInv, Acquiring
  <2>3. \A r \in All : r \in owned' <=> FlagAt(r) < next'
    BY <1>1, <1>2, <1>3, <2>1 DEF IInv, Acquiring
  <2> QED BY <1>1, <2>2, <2>3 DEF IInv, Acquiring
<1>6. HeldInOrder'
  <2> SUFFICES ASSUME NEW r \in held', NEW s \in Needs(r) PROVE s \in held'
    BY DEF HeldInOrder
  <2>1. r \in All /\ GotAt(r) < next'
    BY <1>1, <1>4, <1>5 DEF TypeOK, Acquiring
  <2>2. s \in All /\ GotAt(s) < GotAt(r)
    BY <2>1, NeedsInOrder
  <2>3. GotAt(s) < next' /\ next' \in Nat
    BY <1>1, <1>3, <2>1, <2>2
  <2> QED BY <1>1, <1>5, <2>2, <2>3 DEF Acquiring
<1>7. FlagsAreTrue'
  <2> SUFFICES ASSUME NEW r \in owned' PROVE r \in held'
    BY DEF FlagsAreTrue
  <2>1. r \in All /\ FlagAt(r) < next' /\ next' \in Nat
    BY <1>1, <1>4, <1>5 DEF TypeOK, Acquiring
  <2>2. GotAt(r) < next'
    BY <1>3, <2>1
  <2> QED BY <1>1, <1>5, <2>1, <2>2 DEF Acquiring
<1>8. Running' /\ Behind' /\ Unflagged' /\ Emptied'
  BY <1>1 DEF Running, Behind, Unflagged, Emptied
<1> QED BY <1>4, <1>5, <1>6, <1>7, <1>8 DEF IInv

(* A prefix of Chain leaves one block at most without its flag.             *)
LEMMA AcquireFailsHolds == ASSUME IInv, AcquireFails PROVE IInv'
<1> USE DEF AcquireFails
<1>1. next \in 1..18 /\ main = "acquiring" /\ cleaned = "ok"
  BY ChainIs DEF IInv, TypeOK, Acquiring
<1>2. /\ \A r \in All : r \in held <=> GotAt(r) < next
      /\ \A r \in All : r \in owned <=> FlagAt(r) < next
      /\ held \subseteq All /\ owned \subseteq All
  BY <1>1 DEF IInv, Acquiring, TypeOK
<1>3. TypeOK' /\ FlagsAreTrue' /\ HeldInOrder' /\ Acquiring' /\ Running' /\ Emptied'
  BY DEF IInv, TypeOK, FlagsAreTrue, HeldInOrder, Acquiring, Running, Emptied
<1>4. Behind'
  BY <1>2, TeardownIs DEF Behind
<1>5. owned \cap Auxiliary = {}
  BY <1>1, <1>2 DEF Auxiliary, All, FlagAt, GotAt
<1>6. \A r \in held \ owned : GotAt(r) < next /\ ~(FlagAt(r) < next)
  BY <1>2
<1>7. \A r \in held \ owned :
        \/ r = "framebuffer_mem" /\ next = 7
        \/ r = "shader_mem" /\ next = 14
        \/ r = "depth_mem" /\ next = 16
  BY <1>1, <1>2, <1>6 DEF All, FlagAt, GotAt
<1>8. \E mem \in Blocks : held \ owned \subseteq {mem}
  <2>1. CASE next = 7
    <3>1. held \ owned \subseteq {"framebuffer_mem"} BY <1>7, <2>1
    <3> QED BY <3>1 DEF Blocks
  <2>2. CASE next = 14
    <3>1. held \ owned \subseteq {"shader_mem"} BY <1>7, <2>2
    <3> QED BY <3>1 DEF Blocks
  <2>3. CASE next \notin {7, 14}
    <3>1. held \ owned \subseteq {"depth_mem"} BY <1>7, <2>3
    <3> QED BY <3>1 DEF Blocks
  <2> QED BY <2>1, <2>2, <2>3
<1>9. Unflagged'
  BY <1>1, <1>5, <1>8 DEF Unflagged
<1> QED BY <1>3, <1>4, <1>9 DEF IInv

LEMMA AcquiredHolds == ASSUME IInv, Acquired PROVE IInv'
<1> USE DEF Acquired
<1>1. next = 19 /\ main = "acquiring"
  BY ChainIs DEF IInv, TypeOK, Acquiring
<1>2. \A r \in All : GotAt(r) < 19 <=> FlagAt(r) < 19
  BY DEF All, GotAt, FlagAt
<1>3. held = owned
  BY <1>1, <1>2 DEF IInv, TypeOK, Acquiring
<1>4. TypeOK' /\ FlagsAreTrue' /\ HeldInOrder'
  BY DEF IInv, TypeOK, FlagsAreTrue, HeldInOrder
<1>5. Acquiring' /\ Running' /\ Behind' /\ Unflagged' /\ Emptied'
  BY <1>1, <1>3 DEF IInv, Acquiring, Running, Behind, Unflagged, Emptied
<1> QED BY <1>4, <1>5 DEF IInv

-----------------------------------------------------------------------------
(* The exit control and the loop.                                           *)
LEMMA ExitControlHolds ==
  ASSUME IInv, ExitControlNext \/ ExitControlReturns PROVE IInv'
<1>1. main = "exit_control" /\ held = owned /\ cleaned = "ok" /\ ending = "none"
  BY DEF IInv, Running, ExitControlNext, ExitControlReturns
<1>2. CASE ExitControlNext
  <2> USE <1>2 DEF ExitControlNext, Take
  <2>1. next \in 1..4
    BY ExitControlIs DEF IInv, TypeOK
  <2>2. /\ ExitControl[next].gets \subseteq Auxiliary
        /\ ExitControl[next].flags = ExitControl[next].gets
    BY <2>1, ExitControlIs
  <2>3. TypeOK' /\ held' = owned'
    BY <1>1, <2>1, <2>2, AuxiliaryNeeds DEF IInv, TypeOK
  <2>4. HeldInOrder'
    BY <2>2, AuxiliaryNeeds DEF IInv, HeldInOrder
  <2> QED BY <1>1, <2>3, <2>4
       DEF IInv, FlagsAreTrue, Acquiring, Running, Behind, Unflagged, Emptied
<1>3. CASE ExitControlReturns
  BY <1>1, <1>3 DEF ExitControlReturns, IInv, TypeOK, FlagsAreTrue, HeldInOrder,
                    Acquiring, Running, Behind, Unflagged, Emptied
<1> QED BY <1>2, <1>3

LEMMA LoopHolds == ASSUME IInv, LoopParks \/ LoopDrained PROVE IInv'
<1>1. main = "looping" /\ held = owned /\ cleaned = "ok" /\ owned \subseteq All
  BY DEF IInv, Running, TypeOK, LoopParks, LoopDrained
<1>2. TypeOK' /\ FlagsAreTrue' /\ HeldInOrder' /\ Acquiring' /\ Running' /\ Emptied'
  BY <1>1 DEF LoopParks, LoopDrained, IInv, TypeOK, FlagsAreTrue, HeldInOrder,
              Acquiring, Running, Emptied
<1>3. Unflagged'
  BY <1>1 DEF LoopParks, LoopDrained, Unflagged
<1>4. Behind'
  BY <1>1, TeardownIs DEF LoopParks, LoopDrained, Behind
<1> QED BY <1>2, <1>3, <1>4 DEF IInv

-----------------------------------------------------------------------------
(* cleanup().                                                               *)

(* Where cleanup() stands.                                                  *)
LEMMA CleaningAt ==
  ASSUME IInv, NEW r, Cleaning(r)
  PROVE  /\ main = "cleanup" /\ next \in 1..16 /\ r \in All /\ TearAt(r) = next
         /\ \A q \in All : TearAt(q) \in Nat
         /\ \A q \in All : TearAt(q) < next + 1 => TearAt(q) < next \/ q = r
BY TeardownIs DEF IInv, TypeOK, Cleaning

(* Whatever needs something is flagged.                                     *)
LEMMA NeedyIsOwned ==
  ASSUME IInv, main = "cleanup", NEW q \in held, NEW s \in Needs(q)
  PROVE  q \in owned /\ s \in held /\ q \in All /\ s \in All
BY NeedsInOrder DEF IInv, TypeOK, HeldInOrder, Unflagged

LEMMA SkipHolds == ASSUME IInv, SkipUnowned \/ UnregisterDeferred PROVE IInv'
<1>1. CASE SkipUnowned
  <2> PICK r \in Objects \ owned : Cleaning(r) /\ next' = next + 1
                 /\ UNCHANGED <<held, owned, main, cleaned, ending>>
    BY <1>1 DEF SkipUnowned
  <2>1. Behind'
    BY CleaningAt DEF IInv, TypeOK, Behind
  <2>2. main = "cleanup" /\ next \in 1..16
    BY CleaningAt
  <2> QED BY <2>1, <2>2 DEF IInv, TypeOK, FlagsAreTrue, HeldInOrder, Acquiring,
                            Running, Unflagged, Emptied
<1>2. CASE UnregisterDeferred
  <2> USE <1>2 DEF UnregisterDeferred
  <2>1. main = "cleanup" /\ next \in 1..16
    BY CleaningAt
  <2>2. "video" \in held /\ "video_buffers" \in held
    BY DEF IInv, FlagsAreTrue, HeldInOrder, Needs
  <2>3. "video" \in owned
    BY <2>1, <2>2 DEF IInv, Unflagged, Blocks, Auxiliary
  <2>4. Behind'
    BY <2>3, CleaningAt DEF IInv, TypeOK, Behind
  <2> QED BY <2>1, <2>4 DEF IInv, TypeOK, FlagsAreTrue, HeldInOrder, Acquiring,
                            Running, Unflagged, Emptied
<1> QED BY <1>1, <1>2

LEMMA ReleaseHolds == ASSUME IInv, ReleaseNext PROVE IInv'
<1> PICK r \in owned : /\ Cleaning(r)
                       /\ held' = held \ Releases(r) /\ owned' = owned \ Releases(r)
                       /\ next' = next + 1 /\ UNCHANGED <<main, cleaned, ending>>
  BY DEF ReleaseNext
<1>1. main = "cleanup" /\ next \in 1..16 /\ r \in All /\ TearAt(r) = next
  BY CleaningAt
<1>2. TypeOK' /\ FlagsAreTrue' /\ Acquiring' /\ Running' /\ Emptied'
  BY <1>1 DEF IInv, TypeOK, FlagsAreTrue, Acquiring, Running, Emptied
<1>3. HeldInOrder'
  <2> SUFFICES ASSUME NEW q \in held', NEW s \in Needs(q), s \in Releases(r)
               PROVE  FALSE
    BY DEF IInv, HeldInOrder
  <2>1. q \in held /\ q \notin Releases(r)
    OBVIOUS
  <2>2. q \in owned /\ q \in All /\ s \in All
    BY <1>1, <2>1, NeedyIsOwned
  <2>3. TearAt(q) < TearAt(s) /\ s # "video_buffers"
    BY <2>2, NeedsInOrder DEF Needs
  <2>4. s = r
    BY <2>3 DEF Releases
  <2>5. q = "video_buffers" /\ "video" \in owned
    BY <1>1, <2>2, <2>3, <2>4 DEF IInv, Behind
  <2>6. r = "framebuffer_map"
    BY <2>1, <2>4, <2>5 DEF Needs, Releases
  <2>7. TearAt("video") < next
    BY <1>1, <2>6 DEF TearAt
  <2> QED BY <1>1, <2>5, <2>7 DEF IInv, Behind
<1>4. Behind'
  <2> SUFFICES ASSUME NEW q \in owned', TearAt(q) < next'
               PROVE  q = "video_buffers" /\ "video" \in owned'
    BY <1>1 DEF Behind
  <2>1. q \in owned /\ q # r /\ q \in All
    BY DEF Releases, IInv, TypeOK
  <2>2. TearAt(q) < next
    BY <2>1, CleaningAt
  <2>3. q = "video_buffers" /\ "video" \in owned
    BY <1>1, <2>1, <2>2 DEF IInv, Behind
  <2>4. r # "video"
    BY <2>3 DEF Releases
  <2> QED BY <2>3, <2>4 DEF Releases
<1>5. Unflagged'
  BY <1>1 DEF IInv, Unflagged, Releases
<1> QED BY <1>2, <1>3, <1>4, <1>5 DEF IInv

LEMMA AuxiliaryFailsHolds == ASSUME IInv, AuxiliaryFails PROVE IInv'
<1> PICK r \in owned \cap Auxiliary :
           /\ Cleaning(r)
           /\ owned' = owned \ {r} /\ cleaned' = "auxiliary" /\ next' = next + 1
           /\ UNCHANGED <<held, main, ending>>
  BY DEF AuxiliaryFails
<1>1. main = "cleanup" /\ next \in 1..16 /\ TearAt(r) = next
  BY CleaningAt
<1>2. ending = "_exit" /\ cleaned # "failed"
  BY <1>1 DEF IInv, Unflagged
<1>3. TypeOK' /\ FlagsAreTrue' /\ HeldInOrder' /\ Acquiring' /\ Running' /\ Emptied'
  BY <1>1 DEF IInv, TypeOK, FlagsAreTrue, HeldInOrder, Acquiring, Running, Emptied
<1>4. Behind'
  <2> SUFFICES ASSUME NEW q \in owned', TearAt(q) < next'
               PROVE  q = "video_buffers" /\ "video" \in owned'
    BY <1>1 DEF Behind
  <2>1. q \in owned /\ q # r /\ q \in All
    BY DEF IInv, TypeOK
  <2>2. q = "video_buffers" /\ "video" \in owned
    BY <1>1, <2>1, CleaningAt DEF IInv, Behind
  <2> QED BY <2>2 DEF Auxiliary
<1>5. held \ owned \subseteq Auxiliary
  BY <1>1, <1>2 DEF IInv, TypeOK, Unflagged
<1>6. Unflagged'
  BY <1>1, <1>2, <1>5 DEF Unflagged
<1> QED BY <1>3, <1>4, <1>6 DEF IInv

LEMMA CleanupEndsHolds == ASSUME IInv, ReleaseFails \/ CleanupReturns PROVE IInv'
<1>1. CASE ReleaseFails
  <2>1. main = "cleanup" /\ main' = "ended" /\ cleaned' = "failed"
        /\ UNCHANGED <<held, owned, next, ending>>
    BY <1>1 DEF ReleaseFails, Cleaning
  <2> QED BY <2>1 DEF IInv, TypeOK, FlagsAreTrue, HeldInOrder, Acquiring, Running,
                      Behind, Unflagged, Emptied
<1>2. CASE CleanupReturns
  <2> USE <1>2 DEF CleanupReturns
  <2>1. next = 17 /\ main = "cleanup"
    BY TeardownIs DEF IInv, TypeOK, Behind
  <2>2. \A r \in owned : r \in All /\ TearAt(r) < next
    BY <2>1, TeardownIs DEF IInv, TypeOK
  <2>3. owned = {}
    <3> SUFFICES ASSUME NEW r \in owned PROVE FALSE
      OBVIOUS
    <3>1. "video" \in owned
      BY <2>1, <2>2 DEF IInv, Behind
    <3> QED BY <2>1, <2>2, <3>1 DEF IInv, Behind
  <2> QED BY <2>1, <2>3 DEF IInv, TypeOK, FlagsAreTrue, HeldInOrder, Acquiring, Running,
                      Behind, Unflagged, Emptied
<1> QED BY <1>1, <1>2

-----------------------------------------------------------------------------
LEMMA InitHolds == ASSUME Init PROVE IInv
<1>1. \A r \in All : ~(GotAt(r) < 1) /\ ~(FlagAt(r) < 1)
  BY DEF All, GotAt, FlagAt
<1> QED BY <1>1 DEF Init, IInv, TypeOK, FlagsAreTrue, HeldInOrder, Acquiring, Running,
                    Behind, Unflagged, Emptied

LEMMA NextHolds == ASSUME IInv, [Next]_vars PROVE IInv'
<1>1. CASE UNCHANGED vars
  BY <1>1 DEF vars, IInv, TypeOK, FlagsAreTrue, HeldInOrder, Acquiring, Running,
              Behind, Unflagged, Emptied
<1>2. CASE Next
  BY <1>2, AcquireHolds, AcquireFailsHolds, AcquiredHolds, ExitControlHolds, LoopHolds,
     SkipHolds, ReleaseHolds, AuxiliaryFailsHolds, CleanupEndsHolds DEF Next
<1> QED BY <1>1, <1>2

(* Every reachable state of the process's life satisfies the invariant.     *)
THEOREM LifeInvariant == Spec => []IInv
<1>1. Init => IInv BY InitHolds
<1>2. IInv /\ [Next]_vars => IInv' BY NextHolds
<1> QED BY <1>1, <1>2, PTL DEF Spec

(* The flags never claim what the process does not hold, so that cleanup()  *)
(* releases nothing twice and nothing it never got.                         *)
THEOREM FlagsTellTruth == Spec => []FlagsAreTrue
<1>1. IInv => FlagsAreTrue BY DEF IInv
<1> QED BY <1>1, LifeInvariant, PTL

(* Wherever an acquisition or a release fails, nothing is taken away from   *)
(* under what stands on it.                                                 *)
THEOREM TeardownInOrder == Spec => []HeldInOrder
<1>1. IInv => HeldInOrder BY DEF IInv
<1> QED BY <1>1, LifeInvariant, PTL

(* _exit(0) means that everything was given back.                           *)
THEOREM ExitGaveBack == Spec => []CleanExit
<1>1. IInv => CleanExit
  BY DEF IInv, Unflagged, Emptied, CleanExit
<1> QED BY <1>1, LifeInvariant, PTL

(* A failed start that reports a clean teardown has lost one block at most. *)
THEOREM FailedStartLosesOneBlock == Spec => []FailedStartLeavesOneBlock
<1>1. IInv => FailedStartLeavesOneBlock
  <2> SUFFICES ASSUME IInv, main = "ended", ending = "return", cleaned = "ok"
               PROVE  \E mem \in {"framebuffer_mem", "shader_mem", "depth_mem"} :
                        held \subseteq {mem}
    BY DEF FailedStartLeavesOneBlock
  <2>1. PICK mem \in Blocks : held \ owned \subseteq {mem}
    BY DEF IInv, Unflagged
  <2>2. owned = {}
    BY DEF IInv, Emptied
  <2> QED BY <2>1, <2>2 DEF Blocks
<1> QED BY <1>1, LifeInvariant, PTL
=============================================================================
