------------------------------- MODULE EsefProofs -------------------------------
(***************************************************************************)
(* Proofs about the SPARE-PIM simulator.                                   *)
(*                                                                         *)
(* First GenericDRAM: any number of channels, any device, requests that    *)
(* expand to any well-formed list of operations, and an environment that   *)
(* sends them in any order.                                                *)
(*                                                                         *)
(* Then the whole system: any trace, any clock ratios and queue size, any  *)
(* number of channels.  What ExpansionProofs shows of each single          *)
(* expansion is carried over to every interleaving of ticks, channels and  *)
(* requests.  (HorizonAssumption is not used: it is about the history that *)
(* HBM3Device adds to the device.)                                         *)
(***************************************************************************)
EXTENDS EsefSystem, ExpansionProofs, HBM3DeviceProofs

(* Facts about sequences.                                                  *)
Elements(s) == {s[i] : i \in 1..Len(s)}
NoRepeat(s) == \A i, j \in 1..Len(s) : s[i] = s[j] => i = j

LEMMA TailElements ==
    ASSUME NEW S, NEW s \in Seq(S), s # <<>>, NoRepeat(s)
    PROVE  /\ Tail(s) \in Seq(S) /\ Len(Tail(s)) = Len(s) - 1
           /\ Head(s) \in S /\ Head(s) \in Elements(s)
           /\ Elements(Tail(s)) = Elements(s) \ {Head(s)}
           /\ NoRepeat(Tail(s))
<1>1. /\ Tail(s) \in Seq(S) /\ Len(Tail(s)) = Len(s) - 1 /\ Len(s) \in Nat /\ Len(s) > 0
      /\ Head(s) = s[1] /\ Head(s) \in S
      /\ \A i \in 1..Len(Tail(s)) : Tail(s)[i] = s[i + 1]
  OBVIOUS
<1>2. Head(s) \in Elements(s)
  BY <1>1 DEF Elements
<1>3. Elements(Tail(s)) \subseteq Elements(s) \ {Head(s)}
  <2> SUFFICES ASSUME NEW i \in 1..Len(Tail(s))
               PROVE  Tail(s)[i] \in Elements(s) \ {Head(s)}
    BY DEF Elements
  <2>1. i + 1 \in 1..Len(s) /\ 1 \in 1..Len(s) /\ i + 1 # 1 /\ Tail(s)[i] = s[i + 1]
    BY <1>1
  <2> QED
    BY <2>1, <1>1 DEF Elements, NoRepeat
<1>4. Elements(s) \ {Head(s)} \subseteq Elements(Tail(s))
  <2> SUFFICES ASSUME NEW i \in 1..Len(s), s[i] # Head(s)
               PROVE  s[i] \in Elements(Tail(s))
    BY DEF Elements
  <2>1. i - 1 \in 1..Len(Tail(s)) /\ s[i] = s[(i - 1) + 1]
    BY <1>1
  <2> QED
    BY <2>1, <1>1 DEF Elements
<1>5. NoRepeat(Tail(s))
  <2> SUFFICES ASSUME NEW i \in 1..Len(Tail(s)), NEW j \in 1..Len(Tail(s)), Tail(s)[i] = Tail(s)[j]
               PROVE  i = j
    BY DEF NoRepeat
  <2>1. i + 1 \in 1..Len(s) /\ j + 1 \in 1..Len(s) /\ s[i + 1] = s[j + 1]
    BY <1>1
  <2>2. i + 1 = j + 1
    BY <2>1 DEF NoRepeat
  <2> QED
    BY <2>2
<1> QED
  BY <1>1, <1>2, <1>3, <1>4, <1>5

LEMMA AddElement ==
    ASSUME NEW S, NEW s \in Seq(S), NEW e \in S, e \notin Elements(s), NoRepeat(s),
           NEW t, t = Append(s, e) \/ t = <<e>> \o s
    PROVE  /\ t \in Seq(S) /\ Len(t) = Len(s) + 1
           /\ Elements(t) = Elements(s) \cup {e}
           /\ NoRepeat(t)
<1>1. CASE t = Append(s, e)
  <2>1. /\ t \in Seq(S) /\ Len(t) = Len(s) + 1 /\ Len(s) \in Nat /\ t[Len(s) + 1] = e
        /\ \A i \in 1..Len(s) : t[i] = s[i]
    BY <1>1
  <2>2. \A i \in 1..Len(t) : i \in 1..Len(s) \/ i = Len(s) + 1
    BY <2>1
  <2>3. Elements(t) = Elements(s) \cup {e}
    BY <2>1, <2>2 DEF Elements
  <2>4. NoRepeat(t)
    BY <2>1, <2>2 DEF Elements, NoRepeat
  <2> QED
    BY <2>1, <2>3, <2>4
<1>2. CASE t = <<e>> \o s
  <2>1. /\ t \in Seq(S) /\ Len(t) = Len(s) + 1 /\ Len(s) \in Nat /\ t[1] = e
        /\ \A i \in 1..Len(s) : t[i + 1] = s[i]
    BY <1>2
  <2>2. \A i \in 1..Len(t) : i = 1 \/ (i - 1 \in 1..Len(s) /\ t[i] = s[i - 1])
    <3> TAKE i \in 1..Len(t)
    <3>1. CASE i # 1
      <4>1. i - 1 \in 1..Len(s) /\ (i - 1) + 1 = i
        BY <3>1, <2>1
      <4>2. t[(i - 1) + 1] = s[i - 1]
        BY <4>1, <2>1
      <4> QED
        BY <4>1, <4>2
    <3> QED
      BY <3>1
  <2>3. Elements(t) \subseteq Elements(s) \cup {e}
    BY <2>1, <2>2 DEF Elements
  <2>4. e \in Elements(t)
    BY <2>1 DEF Elements
  <2>5. Elements(s) \subseteq Elements(t)
    <3> SUFFICES ASSUME NEW i \in 1..Len(s) PROVE s[i] \in Elements(t)
      BY DEF Elements
    <3>1. i + 1 \in 1..Len(t) /\ t[i + 1] = s[i]
      BY <2>1
    <3> QED
      BY <3>1 DEF Elements
  <2>6. NoRepeat(t)
    <3> SUFFICES ASSUME NEW i \in 1..Len(t), NEW j \in 1..Len(t), t[i] = t[j] PROVE i = j
      BY DEF NoRepeat
    <3>1. CASE i = 1 /\ j # 1
      BY <3>1, <2>1, <2>2 DEF Elements
    <3>2. CASE i # 1 /\ j = 1
      BY <3>2, <2>1, <2>2 DEF Elements
    <3>3. CASE i # 1 /\ j # 1
      <4>1. i - 1 \in 1..Len(s) /\ j - 1 \in 1..Len(s) /\ s[i - 1] = s[j - 1]
        BY <3>3, <2>2
      <4>2. i - 1 = j - 1
        BY <4>1 DEF NoRepeat
      <4> QED
        BY <4>2
    <3> QED
      BY <3>1, <3>2, <3>3
  <2> QED
    BY <2>1, <2>3, <2>4, <2>5, <2>6
<1> QED
  BY <1>1, <1>2

-----------------------------------------------------------------------------
(* Facts about operation lists.                                            *)
LEMMA OpsTail ==
    ASSUME NEW s \in Seq(Ops), s # <<>>, WellFormed(s)
    PROVE  /\ Tail(s) \in Seq(Ops) /\ WellFormed(Tail(s))
           /\ s[Len(s)].request \in Reqs
           /\ Head(s).kind = "Complete" => Tail(s) = <<>> /\ Head(s) = s[Len(s)]
           /\ Head(s).kind # "Complete" =>
                 Tail(s) # <<>> /\ Tail(s)[Len(Tail(s))].request = s[Len(s)].request
<1>1. /\ Tail(s) \in Seq(Ops) /\ Len(Tail(s)) = Len(s) - 1 /\ Len(s) \in Nat /\ Len(s) > 0
      /\ Head(s) = s[1] /\ \A i \in 1..Len(Tail(s)) : Tail(s)[i] = s[i + 1]
      /\ Tail(s) = <<>> <=> Len(s) = 1
  <2>1. /\ Tail(s) \in Seq(Ops) /\ Len(Tail(s)) = Len(s) - 1 /\ Len(s) \in Nat /\ Len(s) > 0
        /\ Head(s) = s[1]
    OBVIOUS
  <2>2. \A i \in 1..Len(Tail(s)) : Tail(s)[i] = s[i + 1]
    OBVIOUS
  <2>3. Tail(s) = <<>> <=> Len(Tail(s)) = 0
    BY <2>1
  <2> QED
    BY <2>1, <2>2, <2>3
<1>2. WellFormed(Tail(s))
  <2> SUFFICES ASSUME NEW i \in 1..Len(Tail(s))
               PROVE  /\ Tail(s)[i].kind = "Complete" <=> i = Len(Tail(s))
                      /\ Tail(s)[i].kind = "Complete" => Tail(s)[i].request \in Reqs
                      /\ Tail(s)[i].kind = "Command" => Tail(s)[i].command \in Commands
                      /\ Tail(s)[i].kind = "Delay" => Tail(s)[i].cycles > 0
                      /\ Tail(s)[i].kind = "ConfigureSPM" =>
                            Tail(s)[i].cycles > 0 /\ Tail(s)[i].cycles \in SpmLatencies
    BY DEF WellFormed
  <2>1. i + 1 \in 1..Len(s) /\ Tail(s)[i] = s[i + 1] /\ (i + 1 = Len(s) <=> i = Len(Tail(s)))
    BY <1>1
  <2> QED
    BY <2>1 DEF WellFormed
<1>3. Len(s) \in 1..Len(s) /\ 1 \in 1..Len(s)
  BY <1>1
<1>4. s[Len(s)].request \in Reqs
  BY <1>3, Zenon DEF WellFormed
<1>5. Head(s).kind = "Complete" <=> Len(s) = 1
  BY <1>1, <1>3 DEF WellFormed
<1>6. Len(s) # 1 => Tail(s)[Len(Tail(s))] = s[Len(s)]
  <2> SUFFICES ASSUME Len(s) # 1 PROVE Tail(s)[Len(Tail(s))] = s[Len(s)]
    OBVIOUS
  <2>1. Len(Tail(s)) \in 1..Len(Tail(s)) /\ Len(Tail(s)) + 1 = Len(s)
    BY <1>1
  <2> QED
    BY <2>1, <1>1
<1> QED
  BY <1>1, <1>2, <1>4, <1>5, <1>6

-----------------------------------------------------------------------------
(* The state a controller's tick starts from.                              *)
Shape == TypeOK /\ OperationsWellFormed

(* The request a tick works on.                                            *)
Current(ch) == IF Loads(ch) THEN Head(queue[ch]) ELSE Serving(ch)

LEMMA PendingOps ==
    ASSUME Shape, NEW ch \in Channels, ~Idle(ch)
    PROVE  /\ Pending(ch) \in Seq(Ops) /\ Pending(ch) # <<>> /\ WellFormed(Pending(ch))
           /\ Pending(ch)[Len(Pending(ch))].request = Current(ch)
           /\ Current(ch) \in Reqs
           /\ HeadOp(ch) \in Ops
           /\ HeadOp(ch).kind = "Command" => HeadOp(ch).command \in Commands
           /\ HeadOp(ch).kind = "Delay" => HeadOp(ch).cycles > 0
           /\ HeadOp(ch).kind = "ConfigureSPM" =>
                 HeadOp(ch).cycles > 0 /\ HeadOp(ch).cycles \in SpmLatencies
<1>1. queue[ch] \in Seq(Reqs) /\ opq[ch] \in Seq(Ops) /\ WellFormed(opq[ch])
  BY DEF Shape, TypeOK, ControllerTypeOK, OperationsWellFormed
<1>2. /\ Pending(ch) \in Seq(Ops) /\ Pending(ch) # <<>> /\ WellFormed(Pending(ch))
      /\ Pending(ch)[Len(Pending(ch))].request = Current(ch)
  <2>1. CASE Loads(ch)
    <3>1. Head(queue[ch]) \in Reqs
      BY <1>1, <2>1 DEF Loads
    <3>2. Pending(ch) = Program[Head(queue[ch])] /\ Current(ch) = Head(queue[ch])
      BY <2>1 DEF Pending, Current
    <3> DEFINE p == Program[Head(queue[ch])]
    <3>3. p \in Seq(Ops) /\ Len(p) > 0 /\ WellFormed(p) /\ p[Len(p)].request = Head(queue[ch])
      BY <3>1, ControllerAssumption, ProgramAssumption
    <3>4. p # <<>>
      BY <3>3
    <3> QED
      BY <3>2, <3>3, <3>4
  <2>2. CASE ~Loads(ch)
    BY <1>1, <2>2 DEF Loads, Idle, Pending, Current, Serving
  <2> QED
    BY <2>1, <2>2
<1> DEFINE s == Pending(ch)
<1>3. s[Len(s)].request \in Reqs
  BY <1>2, OpsTail
<1>4. Head(s) \in Ops /\ 1 \in 1..Len(s) /\ Head(s) = s[1]
  BY <1>2
<1> QED
  BY <1>2, <1>3, <1>4 DEF HeadOp, WellFormed

(* What a tick does to the queues: nothing, or it takes a request if there *)
(* was no operation, and keeps the operations that are left or pops one.   *)
LEMMA TickQueues ==
    ASSUME Shape, NEW ch \in Channels, ControllerTick(ch)
    PROVE  \/ Idle(ch) /\ UNCHANGED memoryVars
           \/ /\ ~Idle(ch)
              /\ Load(ch)
              /\ \/ Keep(ch) /\ HeadOp(ch).kind # "Complete" /\ done' = done
                 \/ Pop(ch) /\ HeadOp(ch).kind # "Complete" /\ done' = done
                 \/ /\ Pop(ch) /\ HeadOp(ch).kind = "Complete"
                    /\ done' = [done EXCEPT ![ch] = @ \cup {HeadOp(ch).request}]
<1>1. delay[ch] \in Nat
  BY DEF Shape, TypeOK, ControllerTypeOK
<1>2. CASE TickIdle(ch)
  BY <1>2 DEF TickIdle
<1>3. CASE TickDelay(ch)
  <2>1. delay[ch] = 0 \/ delay[ch] > 1 \/ delay[ch] = 1
    BY <1>1
  <2> QED
    BY <1>3, <2>1 DEF TickDelay, HeadIs
<1>4. CASE TickConfigureSPM(ch)
  BY <1>4 DEF TickConfigureSPM, HeadIs
<1>5. CASE TickIssue(ch)
  BY <1>5 DEF TickIssue, HeadIs
<1>6. CASE TickStall(ch)
  BY <1>6 DEF TickStall, HeadIs
<1>7. CASE TickComplete(ch)
  BY <1>7 DEF TickComplete, HeadIs
<1> QED
  BY <1>2, <1>3, <1>4, <1>5, <1>6, <1>7 DEF ControllerTick

(* The operations after a tick.                                            *)
LEMMA TickOps ==
    ASSUME Shape, NEW ch \in Channels, ControllerTick(ch)
    PROVE  /\ opq' \in [Channels -> Seq(Ops)]
           /\ OperationsWellFormed'
           /\ \A c \in Channels : c # ch => opq'[c] = opq[c]
           /\ ~Idle(ch) => IF HeadOp(ch).kind = "Complete"
                           THEN opq'[ch] = <<>> /\ HeadOp(ch).request = Current(ch)
                           ELSE opq'[ch] # <<>> /\ opq'[ch][Len(opq'[ch])].request = Current(ch)
<1>1. opq \in [Channels -> Seq(Ops)] /\ \A c \in Channels : WellFormed(opq[c])
  BY DEF Shape, TypeOK, ControllerTypeOK, OperationsWellFormed
<1>2. CASE Idle(ch)
  BY <1>1, <1>2, TickQueues DEF memoryVars, controllerVars, OperationsWellFormed
<1>3. CASE ~Idle(ch)
  <2> DEFINE s == Pending(ch)
  <2>1. s \in Seq(Ops) /\ s # <<>> /\ WellFormed(s) /\ s[Len(s)].request = Current(ch)
    BY <1>3, PendingOps
  <2>2. HeadOp(ch) = Head(s)
    BY DEF HeadOp
  <2> HIDE DEF s
  <2>3. /\ Tail(s) \in Seq(Ops) /\ WellFormed(Tail(s))
        /\ Head(s).kind = "Complete" => Tail(s) = <<>> /\ Head(s) = s[Len(s)]
        /\ Head(s).kind # "Complete" =>
              Tail(s) # <<>> /\ Tail(s)[Len(Tail(s))].request = s[Len(s)].request
    BY <2>1, OpsTail
  <2>4. \/ Keep(ch) /\ HeadOp(ch).kind # "Complete"
        \/ Pop(ch)
    BY <1>3, TickQueues
  <2>5. CASE Keep(ch) /\ HeadOp(ch).kind # "Complete"
    <3>1. opq' = [opq EXCEPT ![ch] = s]
      BY <2>5 DEF Keep, s
    <3>2. opq'[ch] = s /\ \A c \in Channels : c # ch => opq'[c] = opq[c]
      BY <3>1, <1>1
    <3> QED
      BY <1>1, <2>1, <2>5, <3>1, <3>2 DEF OperationsWellFormed
  <2>6. CASE Pop(ch)
    <3>1. opq' = [opq EXCEPT ![ch] = Tail(s)]
      BY <2>6 DEF Pop, s
    <3>2. opq'[ch] = Tail(s) /\ \A c \in Channels : c # ch => opq'[c] = opq[c]
      BY <3>1, <1>1
    <3> QED
      BY <1>1, <2>1, <2>2, <2>3, <3>1, <3>2 DEF OperationsWellFormed
  <2> QED
    BY <2>4, <2>5, <2>6
<1> QED
  BY <1>2, <1>3

-----------------------------------------------------------------------------
(* Types.                                                                  *)
LEMMA InitShape == Init => Shape
<1> SUFFICES ASSUME Init PROVE Shape
  OBVIOUS
<1>1. DeviceTypeOK
  BY InitDeviceType DEF Init, ControllerInit
<1>2. ControllerTypeOK
  BY ControllerAssumption DEF Init, ControllerInit, ControllerTypeOK
<1>3. OperationsWellFormed
  BY DEF Init, ControllerInit, OperationsWellFormed, WellFormed
<1> QED
  BY <1>1, <1>2, <1>3, ChannelsAssumption DEF Init, Shape, TypeOK

LEMMA LoadType ==
    ASSUME Shape, NEW ch \in Channels, Load(ch)
    PROVE  queue' \in [Channels -> Seq(Reqs)] /\ stats' \in [Channels -> [StatKeys -> Nat]]
<1>1. /\ queue \in [Channels -> Seq(Reqs)] /\ stats \in [Channels -> [StatKeys -> Nat]]
  BY DEF Shape, TypeOK, ControllerTypeOK
<1>2. CASE Loads(ch)
  <2>1. Tail(queue[ch]) \in Seq(Reqs) /\ Head(queue[ch]) \in Reqs
    BY <1>1, <1>2 DEF Loads
  <2>2. StatsDelta[Head(queue[ch])] \in [StatKeys -> Nat]
    BY <2>1, ControllerAssumption
  <2>3. [k \in StatKeys |-> stats[ch][k] + StatsDelta[Head(queue[ch])][k]] \in [StatKeys -> Nat]
    BY <1>1, <2>2
  <2> QED
    BY <1>1, <1>2, <2>1, <2>3 DEF Load
<1>3. CASE ~Loads(ch)
  BY <1>1, <1>3 DEF Load
<1> QED
  BY <1>2, <1>3

LEMMA TickControllerType ==
    ASSUME Shape, NEW ch \in Channels, ControllerTick(ch)
    PROVE  DeviceTypeOK' /\ ControllerTypeOK' /\ OperationsWellFormed'
<1>0. DeviceTypeOK /\ ControllerTypeOK /\ OperationsWellFormed
  BY DEF Shape, TypeOK
<1>1. opq' \in [Channels -> Seq(Ops)] /\ OperationsWellFormed'
  BY TickOps
<1>2. CASE TickIdle(ch)
  BY <1>0, <1>2 DEF TickIdle, memoryVars, deviceVars, controllerVars, DeviceTypeOK,
                    ControllerTypeOK, OperationsWellFormed
<1>3. CASE TickDelay(ch)
  <2>1. queue' \in [Channels -> Seq(Reqs)] /\ stats' \in [Channels -> [StatKeys -> Nat]]
    BY <1>3, LoadType DEF TickDelay
  <2>2. delay' \in [Channels -> Nat]
    <3>1. HeadOp(ch).cycles \in Nat
      BY <1>3, PendingOps DEF TickDelay, HeadIs, Ops
    <3>2. delay[ch] \in Nat /\ delay \in [Channels -> Nat]
      BY <1>0 DEF ControllerTypeOK
    <3>3. delay[ch] = 0 \/ delay[ch] > 1 \/ delay[ch] = 1
      BY <3>2
    <3>4. CASE delay[ch] = 0
      BY <1>3, <3>1, <3>2, <3>4 DEF TickDelay
    <3>5. CASE delay[ch] > 1
      <4>1. delay' = [delay EXCEPT ![ch] = @ - 1]
        BY <1>3, <3>2, <3>5 DEF TickDelay
      <4>2. delay[ch] - 1 \in Nat
        BY <3>2, <3>5
      <4> QED
        BY <3>2, <4>1, <4>2
    <3>6. CASE delay[ch] = 1
      <4>1. delay' = [delay EXCEPT ![ch] = 0]
        BY <1>3, <3>6 DEF TickDelay
      <4> QED
        BY <3>2, <4>1
    <3> QED
      BY <3>3, <3>4, <3>5, <3>6
  <2> QED
    BY <1>0, <1>1, <1>3, <2>1, <2>2 DEF TickDelay, deviceVars, DeviceTypeOK, ControllerTypeOK
<1>4. CASE TickConfigureSPM(ch)
  <2>1. queue' \in [Channels -> Seq(Reqs)] /\ stats' \in [Channels -> [StatKeys -> Nat]]
    BY <1>4, LoadType DEF TickConfigureSPM
  <2>2. HeadOp(ch).cycles \in Nat
    BY <1>4, PendingOps DEF TickConfigureSPM, HeadIs, Ops
  <2>3. DeviceTypeOK'
    BY <1>0, <1>4, <2>2, NotifyDeviceType DEF TickConfigureSPM
  <2> QED
    BY <1>0, <1>1, <1>4, <2>1, <2>2, <2>3 DEF TickConfigureSPM, ControllerTypeOK
<1>5. CASE TickIssue(ch)
  <2>1. queue' \in [Channels -> Seq(Reqs)] /\ stats' \in [Channels -> [StatKeys -> Nat]]
    BY <1>5, LoadType DEF TickIssue
  <2>2. HeadOp(ch).command \in Commands /\ HeadOp(ch).addr \in Addrs
    BY <1>5, PendingOps DEF TickIssue, HeadIs, Ops
  <2>3. DeviceTypeOK'
    BY <1>0, <1>5, <2>2, IssueDeviceType DEF TickIssue
  <2>4. issued' \in [Channels -> [Counted -> Nat]]
    BY <1>0, <1>5 DEF TickIssue, ControllerTypeOK
  <2> QED
    BY <1>0, <1>1, <1>5, <2>1, <2>3, <2>4 DEF TickIssue, ControllerTypeOK
<1>6. CASE TickStall(ch)
  <2>1. queue' \in [Channels -> Seq(Reqs)] /\ stats' \in [Channels -> [StatKeys -> Nat]]
    BY <1>6, LoadType DEF TickStall
  <2> QED
    BY <1>0, <1>1, <1>6, <2>1 DEF TickStall, deviceVars, DeviceTypeOK, ControllerTypeOK
<1>7. CASE TickComplete(ch)
  <2>1. queue' \in [Channels -> Seq(Reqs)] /\ stats' \in [Channels -> [StatKeys -> Nat]]
    BY <1>7, LoadType DEF TickComplete
  <2>2. HeadOp(ch).request \in Reqs
    BY <1>7, PendingOps, TickOps DEF TickComplete, HeadIs
  <2>3. done' \in [Channels -> SUBSET Reqs]
    BY <1>0, <1>7, <2>2 DEF TickComplete, ControllerTypeOK
  <2> QED
    BY <1>0, <1>1, <1>7, <2>1, <2>3 DEF TickComplete, deviceVars, DeviceTypeOK, ControllerTypeOK
<1> QED
  BY <1>2, <1>3, <1>4, <1>5, <1>6, <1>7 DEF ControllerTick

LEMMA StepShape == Shape /\ [Next]_vars => Shape'
<1> SUFFICES ASSUME Shape, [Next]_vars PROVE Shape'
  OBVIOUS
<1>0. DeviceTypeOK /\ ControllerTypeOK /\ OperationsWellFormed /\ turn \in 0..NumChannels
      /\ accepted \subseteq Reqs
  BY DEF Shape, TypeOK
<1>1. ASSUME NEW r \in Reqs \ accepted, MemorySend(r) \/ MemoryPrioritySend(r)
      PROVE  Shape'
  <2>1. ChannelOf[r] \in Channels /\ queue[ChannelOf[r]] \in Seq(Reqs)
    BY <1>0, ControllerAssumption DEF ControllerTypeOK
  <2>2. Append(queue[ChannelOf[r]], r) \in Seq(Reqs) /\ <<r>> \o queue[ChannelOf[r]] \in Seq(Reqs)
    BY <2>1
  <2>3. queue' \in [Channels -> Seq(Reqs)]
    BY <1>0, <1>1, <2>2 DEF MemorySend, MemoryPrioritySend, Send, PrioritySend, ControllerTypeOK
  <2>4. accepted' \subseteq Reqs /\ turn' = turn
    BY <1>0, <1>1 DEF MemorySend, MemoryPrioritySend
  <2>5. UNCHANGED <<deviceVars, opq, delay, asked, stats, issued, done>>
    BY <1>1 DEF MemorySend, MemoryPrioritySend, Send, PrioritySend
  <2> QED
    BY <1>0, <2>3, <2>4, <2>5 DEF deviceVars, Shape, TypeOK, DeviceTypeOK, ControllerTypeOK,
                                  OperationsWellFormed
<1>2. CASE TickDram
  <2>1. DeviceTypeOK'
    BY <1>0, <1>2, TickDeviceType DEF TickDram
  <2>2. turn' \in 0..NumChannels
    BY <1>2, ChannelsAssumption DEF TickDram
  <2> QED
    BY <1>0, <1>2, <2>1, <2>2 DEF TickDram, controllerVars, Shape, TypeOK, ControllerTypeOK,
                                  OperationsWellFormed
<1>3. CASE TickController
  <2>1. turn - 1 \in Channels /\ ControllerTick(turn - 1)
    BY <1>0, <1>3, ChannelsAssumption DEF TickController
  <2>2. turn' \in 0..NumChannels /\ accepted' = accepted
    BY <1>0, <1>3, ChannelsAssumption DEF TickController
  <2> QED
    BY <1>0, <2>1, <2>2, TickControllerType DEF Shape, TypeOK
<1>4. CASE UNCHANGED vars
  BY <1>0, <1>4 DEF vars, memoryVars, deviceVars, controllerVars, Shape, TypeOK, DeviceTypeOK,
                    ControllerTypeOK, OperationsWellFormed
<1> QED
  BY <1>1, <1>2, <1>3, <1>4 DEF Next, Environment

(* Types, and the shape of what is left of an expansion.                   *)
THEOREM TypeCorrect == Spec => [](TypeOK /\ OperationsWellFormed)
<1> QED
  BY InitShape, StepShape, PTL DEF Spec, Shape

-----------------------------------------------------------------------------
(* Where the requests are.                                                 *)
Inv == Shape /\ ExactlyOnePlace /\ QueueBounded /\ DelayBelongsToHead

Held(ch) == Elements(queue[ch]) \cup InService(ch) \cup done[ch]

(* ExactlyOnePlace, channel by channel.                                    *)
PlacedAt(ch) ==
    /\ \A r \in Held(ch) : ChannelOf[r] = ch
    /\ NoRepeat(queue[ch])
    /\ Elements(queue[ch]) \cap (InService(ch) \cup done[ch]) = {}
    /\ InService(ch) \cap done[ch] = {}

LEMMA PlacesByChannel ==
    ExactlyOnePlace <=> /\ accepted = UNION {Held(ch) : ch \in Channels}
                        /\ \A ch \in Channels : PlacedAt(ch)
BY DEF ExactlyOnePlace, Queued, Held, PlacedAt, Elements, NoRepeat

LEMMA TickPlaces ==
    ASSUME Shape, NEW ch \in Channels, ControllerTick(ch), PlacedAt(ch)
    PROVE  /\ \A c \in Channels : c # ch =>
                 queue'[c] = queue[c] /\ opq'[c] = opq[c] /\ done'[c] = done[c]
           /\ Held(ch)' = Held(ch)
           /\ PlacedAt(ch)'
<1>0. /\ queue \in [Channels -> Seq(Reqs)] /\ done \in [Channels -> SUBSET Reqs]
      /\ opq \in [Channels -> Seq(Ops)]
  BY DEF Shape, TypeOK, ControllerTypeOK
<1>1. CASE Idle(ch)
  <2>1. queue' = queue /\ opq' = opq /\ done' = done
    BY <1>1, TickQueues DEF memoryVars, controllerVars
  <2> QED
    BY <2>1 DEF Held, PlacedAt, InService, Serving
<1>2. CASE ~Idle(ch)
  <2> DEFINE r == Current(ch)
  <2>1. Load(ch) /\ r \in Reqs /\ NoReq \notin Reqs
    BY <1>2, TickQueues, PendingOps, ControllerAssumption
  <2>2. /\ \A c \in Channels : c # ch => queue'[c] = queue[c]
        /\ queue'[ch] = IF Loads(ch) THEN Tail(queue[ch]) ELSE queue[ch]
    BY <1>0, <2>1 DEF Load
  <2>3. /\ \A c \in Channels : c # ch => opq'[c] = opq[c]
        /\ InService(ch)' = IF HeadOp(ch).kind = "Complete" THEN {} ELSE {r}
    <3>1. IF HeadOp(ch).kind = "Complete" THEN opq'[ch] = <<>>
          ELSE opq'[ch] # <<>> /\ opq'[ch][Len(opq'[ch])].request = r
      BY <1>2, TickOps
    <3> QED
      BY <2>1, <3>1, TickOps DEF InService, Serving
  <2>4. /\ \A c \in Channels : c # ch => done'[c] = done[c]
        /\ done'[ch] = IF HeadOp(ch).kind = "Complete" THEN done[ch] \cup {r} ELSE done[ch]
    <3>1. HeadOp(ch).kind = "Complete" => HeadOp(ch).request = r
      BY <1>2, TickOps
    <3>2. \/ HeadOp(ch).kind # "Complete" /\ done' = done
          \/ /\ HeadOp(ch).kind = "Complete"
             /\ done' = [done EXCEPT ![ch] = done[ch] \cup {HeadOp(ch).request}]
      BY <1>2, TickQueues
    <3> HIDE DEF r
    <3> QED
      BY <1>0, <3>1, <3>2
  <2>5. CASE Loads(ch)
    <3>1. /\ Elements(Tail(queue[ch])) = Elements(queue[ch]) \ {r} /\ r \in Elements(queue[ch])
          /\ NoRepeat(Tail(queue[ch]))
      BY <1>0, <2>5, TailElements DEF Loads, PlacedAt, Current
    <3>2. InService(ch) = {}
      BY <2>5 DEF Loads, InService, Serving
    <3> HIDE DEF r
    <3> QED
      BY <2>2, <2>3, <2>4, <2>5, <3>1, <3>2 DEF Held, PlacedAt
  <2>6. CASE ~Loads(ch)
    <3>1. InService(ch) = {r}
      BY <1>2, <2>1, <2>6 DEF InService, Current, Serving, Loads, Idle
    <3> HIDE DEF r
    <3> QED
      BY <2>2, <2>3, <2>4, <2>6, <3>1 DEF Held, PlacedAt
  <2> QED
    BY <2>5, <2>6
<1> QED
  BY <1>1, <1>2

LEMMA SendPlaces ==
    ASSUME Inv, NEW r \in Reqs \ accepted, MemorySend(r) \/ MemoryPrioritySend(r)
    PROVE  ExactlyOnePlace' /\ QueueBounded'
<1> DEFINE ch == ChannelOf[r]
<1>0. /\ queue \in [Channels -> Seq(Reqs)] /\ ch \in Channels /\ QueueSize \in Nat
  BY ControllerAssumption DEF Inv, Shape, TypeOK, ControllerTypeOK
<1>1. opq' = opq /\ done' = done
  BY DEF MemorySend, MemoryPrioritySend, Send, PrioritySend
<1>2. CASE queue' = queue /\ accepted' = accepted
  BY <1>1, <1>2 DEF Inv, ExactlyOnePlace, QueueBounded, Queued, InService, Serving
<1>3. CASE /\ HasRoom(ch) /\ accepted' = accepted \cup {r}
           /\ \/ queue' = [queue EXCEPT ![ch] = Append(@, r)]
              \/ queue' = [queue EXCEPT ![ch] = <<r>> \o @]
  <2>1. /\ accepted = UNION {Held(c) : c \in Channels}
        /\ \A c \in Channels : PlacedAt(c)
    BY PlacesByChannel DEF Inv
  <2>2. r \notin Held(ch)
    BY <1>0, <2>1
  <2>3. queue'[ch] = Append(queue[ch], r) \/ queue'[ch] = <<r>> \o queue[ch]
    BY <1>0, <1>3
  <2>4. \A c \in Channels : c # ch => queue'[c] = queue[c]
    BY <1>0, <1>3
  <2>5. queue[ch] \in Seq(Reqs) /\ r \in Reqs /\ NoRepeat(queue[ch]) /\ r \notin Elements(queue[ch])
    BY <1>0, <2>1, <2>2 DEF PlacedAt, Held
  <2>6. /\ Elements(queue'[ch]) = Elements(queue[ch]) \cup {r}
        /\ NoRepeat(queue'[ch]) /\ Len(queue'[ch]) = Len(queue[ch]) + 1
    <3> DEFINE t == queue'[ch]
               q == queue[ch]
    <3>1. q \in Seq(Reqs) /\ r \notin Elements(q) /\ NoRepeat(q) /\ (t = Append(q, r) \/ t = <<r>> \o q)
      BY <2>3, <2>5
    <3> HIDE DEF t, q
    <3>2. Elements(t) = Elements(q) \cup {r} /\ NoRepeat(t) /\ Len(t) = Len(q) + 1
      BY <3>1, AddElement
    <3> QED
      BY <3>2 DEF t, q
  <2>7. \A c \in Channels : InService(c)' = InService(c) /\ done'[c] = done[c]
    BY <1>1 DEF InService, Serving
  <2>8. /\ Held(ch)' = Held(ch) \cup {r} /\ PlacedAt(ch)'
    BY <1>0, <2>1, <2>2, <2>6, <2>7 DEF Held, PlacedAt
  <2>9. \A c \in Channels : c # ch => Held(c)' = Held(c) /\ PlacedAt(c)'
    BY <2>1, <2>4, <2>7 DEF Held, PlacedAt
  <2>10. accepted' = UNION {Held(c)' : c \in Channels}
    <3>1. \A c \in Channels : Held(c)' = IF c = ch THEN Held(c) \cup {r} ELSE Held(c)
      BY <2>8, <2>9
    <3>2. UNION {Held(c)' : c \in Channels} = (UNION {Held(c) : c \in Channels}) \cup {r}
      <4> DEFINE Before == {Held(c) : c \in Channels}
                 After == {Held(c)' : c \in Channels}
      <4>1. ASSUME NEW x PROVE x \in UNION After <=> x \in (UNION Before) \cup {r}
        <5>1. x \in UNION After <=> \E c \in Channels : x \in Held(c)'
          OBVIOUS
        <5>2. x \in UNION Before <=> \E c \in Channels : x \in Held(c)
          OBVIOUS
        <5> HIDE DEF Before, After
        <5> QED
          BY <1>0, <3>1, <5>1, <5>2
      <4> QED
        BY <4>1
    <3> QED
      BY <1>3, <2>1, <3>2
  <2>11. ExactlyOnePlace'
    <3>1. \A c \in Channels : PlacedAt(c)'
      BY <2>8, <2>9
    <3> QED
      BY <2>10, <3>1 DEF ExactlyOnePlace, Queued, Held, PlacedAt, Elements, NoRepeat
  <2>12. QueueBounded'
    <3>1. \A c \in Channels : Len(queue[c]) \in Nat /\ Len(queue[c]) <= QueueSize
      BY <1>0 DEF Inv, QueueBounded
    <3>2. Len(queue[ch]) < QueueSize
      BY <1>3 DEF HasRoom
    <3> QED
      BY <1>0, <2>4, <2>6, <3>1, <3>2 DEF QueueBounded
  <2> QED
    BY <2>11, <2>12
<1> QED
  BY <1>2, <1>3 DEF MemorySend, MemoryPrioritySend, Send, PrioritySend, WouldAccept

LEMMA TickPlacesAll ==
    ASSUME Inv, NEW ch \in Channels, ControllerTick(ch), accepted' = accepted
    PROVE  ExactlyOnePlace' /\ QueueBounded'
<1>1. /\ accepted = UNION {Held(c) : c \in Channels}
      /\ \A c \in Channels : PlacedAt(c)
  BY PlacesByChannel DEF Inv
<1>2. /\ \A c \in Channels : c # ch =>
            queue'[c] = queue[c] /\ opq'[c] = opq[c] /\ done'[c] = done[c]
      /\ Held(ch)' = Held(ch) /\ PlacedAt(ch)'
  BY <1>1, TickPlaces DEF Inv
<1>3. \A c \in Channels : Held(c)' = Held(c) /\ PlacedAt(c)'
  <2> SUFFICES ASSUME NEW c \in Channels, c # ch PROVE Held(c)' = Held(c) /\ PlacedAt(c)'
    BY <1>2
  <2> QED
    BY <1>1, <1>2 DEF Held, PlacedAt, InService, Serving
<1>4. ExactlyOnePlace'
  <2>1. accepted' = UNION {Held(c)' : c \in Channels}
    BY <1>1, <1>3
  <2> QED
    BY <1>3, <2>1 DEF ExactlyOnePlace, Queued, Held, PlacedAt, Elements, NoRepeat
<1>5. QueueBounded'
  <2>1. /\ queue[ch] \in Seq(Reqs) /\ Len(queue[ch]) <= QueueSize /\ QueueSize \in Nat
        /\ queue \in [Channels -> Seq(Reqs)]
    BY ControllerAssumption DEF Inv, Shape, TypeOK, ControllerTypeOK, QueueBounded
  <2>2. queue'[ch] = queue[ch] \/ (queue[ch] # <<>> /\ queue'[ch] = Tail(queue[ch]))
    <3>1. (Idle(ch) /\ queue' = queue) \/ Load(ch)
      BY TickQueues DEF Inv, memoryVars, controllerVars
    <3> QED
      BY <2>1, <3>1 DEF Load, Loads
  <2>3. Len(queue'[ch]) <= QueueSize
    BY <2>1, <2>2
  <2> QED
    BY <1>2, <2>3 DEF Inv, QueueBounded
<1> QED
  BY <1>4, <1>5

(* The delay timer.                                                        *)
LEMMA TickDelays ==
    ASSUME Inv, NEW ch \in Channels, ControllerTick(ch)
    PROVE  DelayBelongsToHead'
<1>0. /\ opq \in [Channels -> Seq(Ops)] /\ delay \in [Channels -> Nat] /\ delay[ch] \in Nat
  BY DEF Inv, Shape, TypeOK, ControllerTypeOK
<1>1. \A c \in Channels : c # ch => opq'[c] = opq[c] /\ delay'[c] = delay[c]
  <2>1. \A c \in Channels : c # ch => opq'[c] = opq[c]
    BY TickOps DEF Inv
  <2>2. \A c \in Channels : c # ch => delay'[c] = delay[c]
    BY <1>0 DEF ControllerTick, TickIdle, TickDelay, TickConfigureSPM, TickIssue, TickStall,
                TickComplete, memoryVars, controllerVars
  <2> QED
    BY <2>1, <2>2
<1>2. delay[ch] > 0 => /\ ~Idle(ch) /\ Pending(ch) = opq[ch] /\ HeadOp(ch).kind = "Delay"
                       /\ delay[ch] <= HeadOp(ch).cycles
  BY DEF Inv, DelayBelongsToHead, Idle, Pending, Loads, HeadOp
<1>3. delay'[ch] > 0 => /\ opq'[ch] # <<>> /\ Head(opq'[ch]).kind = "Delay"
                        /\ delay'[ch] <= Head(opq'[ch]).cycles
  <2>1. CASE TickDelay(ch)
    <3>1. Pending(ch) \in Seq(Ops) /\ Pending(ch) # <<>> /\ HeadOp(ch) \in Ops
      BY <2>1, PendingOps DEF Inv, TickDelay, HeadIs
    <3>2. HeadOp(ch).kind = "Delay" /\ HeadOp(ch).cycles \in Nat
      BY <2>1, <3>1 DEF TickDelay, HeadIs, Ops
    <3>3. CASE delay[ch] = 0 /\ Keep(ch) /\ delay' = [delay EXCEPT ![ch] = HeadOp(ch).cycles]
      BY <1>0, <3>1, <3>2, <3>3 DEF Keep, HeadOp
    <3>4. CASE delay[ch] > 1 /\ Keep(ch) /\ delay' = [delay EXCEPT ![ch] = @ - 1]
      <4>1. opq'[ch] = Pending(ch) /\ delay'[ch] = delay[ch] - 1
        BY <1>0, <3>4 DEF Keep
      <4>2. delay[ch] <= HeadOp(ch).cycles
        BY <1>0, <1>2, <3>4
      <4> QED
        BY <1>0, <3>1, <3>2, <4>1, <4>2 DEF HeadOp
    <3>5. CASE delay' = [delay EXCEPT ![ch] = 0]
      BY <1>0, <3>5
    <3> QED
      BY <2>1, <3>3, <3>4, <3>5 DEF TickDelay
  <2>2. CASE ~TickDelay(ch)
    <3>1. delay' = delay /\ (Idle(ch) \/ HeadOp(ch).kind # "Delay")
      BY <2>2 DEF ControllerTick, TickIdle, TickConfigureSPM, TickIssue, TickStall,
                  TickComplete, memoryVars, controllerVars, HeadIs
    <3> QED
      BY <1>0, <1>2, <3>1
  <2> QED
    BY <2>1, <2>2
<1> QED
  BY <1>1, <1>3 DEF Inv, DelayBelongsToHead

LEMMA InitInv == Init => Inv
<1> SUFFICES ASSUME Init PROVE ExactlyOnePlace /\ QueueBounded /\ DelayBelongsToHead
  BY InitShape DEF Inv
<1>1. \A ch \in Channels : queue[ch] = <<>> /\ opq[ch] = <<>> /\ delay[ch] = 0 /\ done[ch] = {}
  BY DEF Init, ControllerInit
<1>2. accepted = {}
  BY DEF Init
<1>3. ASSUME NEW ch \in Channels PROVE Queued(ch) = {} /\ InService(ch) = {}
  <2>1. queue[ch] = <<>> /\ opq[ch] = <<>>
    BY <1>1
  <2>2. Len(queue[ch]) = 0
    BY <2>1
  <2>3. 1..Len(queue[ch]) = {}
    BY <2>2
  <2>4. Queued(ch) = {}
    BY <2>3 DEF Queued
  <2>5. InService(ch) = {}
    BY <1>1, <2>1 DEF InService, Serving
  <2> QED
    BY <2>4, <2>5
<1> QED
  BY <1>1, <1>2, <1>3, ControllerAssumption DEF ExactlyOnePlace, QueueBounded, DelayBelongsToHead

LEMMA StepInv == Inv /\ [Next]_vars => Inv'
<1> SUFFICES ASSUME Inv, [Next]_vars
             PROVE  ExactlyOnePlace' /\ QueueBounded' /\ DelayBelongsToHead'
  BY StepShape DEF Inv
<1>1. ASSUME NEW r \in Reqs \ accepted, MemorySend(r) \/ MemoryPrioritySend(r)
      PROVE  ExactlyOnePlace' /\ QueueBounded' /\ DelayBelongsToHead'
  <2>1. ExactlyOnePlace' /\ QueueBounded'
    BY <1>1, SendPlaces
  <2>2. opq' = opq /\ delay' = delay
    BY <1>1 DEF MemorySend, MemoryPrioritySend, Send, PrioritySend
  <2> QED
    BY <2>1, <2>2 DEF Inv, DelayBelongsToHead
<1>2. CASE TickDram
  BY <1>2 DEF Inv, TickDram, controllerVars, ExactlyOnePlace, Queued, InService, Serving,
              QueueBounded, DelayBelongsToHead
<1>3. CASE TickController
  <2>1. turn - 1 \in Channels /\ ControllerTick(turn - 1) /\ accepted' = accepted
    BY <1>3, ChannelsAssumption DEF TickController, Inv, Shape, TypeOK
  <2> QED
    BY <2>1, TickPlacesAll, TickDelays
<1>4. CASE UNCHANGED vars
  BY <1>4 DEF Inv, vars, memoryVars, controllerVars, ExactlyOnePlace, Queued, InService, Serving,
              QueueBounded, DelayBelongsToHead
<1> QED
  BY <1>1, <1>2, <1>3, <1>4 DEF Next, Environment

(* No request is lost, duplicated or misrouted, the queues stay within     *)
(* queue_size, and the delay timer belongs to the operation at the head,   *)
(* for every expansion and every order of sends and ticks.                 *)
THEOREM RequestsSafe == Spec => [](ExactlyOnePlace /\ QueueBounded /\ DelayBelongsToHead)
<1> QED
  BY InitInv, StepInv, PTL DEF Spec, Inv

-----------------------------------------------------------------------------
(* The controllers use the device as HBM3 lets it be used: they issue a    *)
(* command only when check_ready() accepts it, and configure latencies the *)
(* device knows.                                                           *)
LEMMA StepIsDeviceStep == Inv /\ [Next]_vars => [DeviceNext]_deviceVars
<1> SUFFICES ASSUME Inv, [Next]_vars PROVE [DeviceNext]_deviceVars
  OBVIOUS
<1>1. ASSUME NEW r \in Reqs \ accepted, MemorySend(r) \/ MemoryPrioritySend(r)
      PROVE  UNCHANGED deviceVars
  BY <1>1 DEF MemorySend, MemoryPrioritySend, Send, PrioritySend
<1>2. CASE TickDram
  BY <1>2 DEF TickDram, DeviceNext
<1>3. CASE TickController
  <2> DEFINE ch == turn - 1
  <2>1. ch \in Channels /\ ControllerTick(ch)
    BY <1>3, ChannelsAssumption DEF TickController, Inv, Shape, TypeOK
  <2> HIDE DEF ch
  <2>2. CASE TickIssue(ch)
    <3>1. HeadOp(ch).command \in Commands /\ HeadOp(ch).addr \in Addrs
      BY <2>1, <2>2, PendingOps DEF Inv, TickIssue, HeadIs, Ops
    <3> QED
      BY <2>1, <2>2, <3>1 DEF TickIssue, DeviceNext
  <2>3. CASE TickConfigureSPM(ch)
    <3>1. HeadOp(ch).cycles \in SpmLatencies
      BY <2>1, <2>3, PendingOps DEF Inv, TickConfigureSPM, HeadIs
    <3> QED
      BY <2>3, <3>1 DEF TickConfigureSPM, DeviceNext
  <2>4. CASE TickIdle(ch) \/ TickDelay(ch) \/ TickStall(ch) \/ TickComplete(ch)
    BY <2>4 DEF TickIdle, TickDelay, TickStall, TickComplete, memoryVars
  <2> QED
    BY <2>1, <2>2, <2>3, <2>4 DEF ControllerTick
<1>4. CASE UNCHANGED vars
  BY <1>4 DEF vars, memoryVars
<1> QED
  BY <1>1, <1>2, <1>3, <1>4 DEF Next, Environment

(* The memory system implements the device's specification, so what is     *)
(* proved of the device alone holds of the device under the controllers.   *)
THEOREM ImplementsDevice == Spec => DeviceSpec
<1>1. Init => DeviceInit
  BY DEF Init, ControllerInit
<1> QED
  BY <1>1, InitInv, StepInv, StepIsDeviceStep, PTL DEF Spec, DeviceSpec

-----------------------------------------------------------------------------
(* The SPM latency of a device with one channel.                           *)
LEMMA SpmStep ==
    ASSUME NumChannels = 1, Inv, SpmUnderOwnLatency, [Next]_vars
    PROVE  SpmUnderOwnLatency'
<1>1. ASSUME NEW r \in Reqs \ accepted, MemorySend(r) \/ MemoryPrioritySend(r)
      PROVE  nSPM' = nSPM /\ asked' = asked
  BY <1>1 DEF MemorySend, MemoryPrioritySend, Send, PrioritySend, deviceVars
<1>2. CASE TickDram
  BY <1>2 DEF TickDram, DeviceTick, controllerVars, SpmUnderOwnLatency
<1>3. CASE TickController
  <2>1. Channels = {0} /\ turn - 1 = 0 /\ ControllerTick(0) /\ 0 \in Channels
    BY <1>3, ChannelsAssumption DEF TickController, Inv, Shape, TypeOK
  <2>2. CASE TickConfigureSPM(0)
    <3>1. HeadOp(0).cycles > 0
      BY <2>1, <2>2, PendingOps DEF Inv, TickConfigureSPM, HeadIs
    <3>2. asked'[0] = HeadOp(0).cycles
      BY <2>1, <2>2 DEF TickConfigureSPM, Inv, Shape, TypeOK, ControllerTypeOK
    <3>3. nSPM' = HeadOp(0).cycles
      BY <2>2, <3>1 DEF TickConfigureSPM, Notify
    <3> QED
      BY <2>1, <3>2, <3>3 DEF SpmUnderOwnLatency
  <2>3. CASE ~TickConfigureSPM(0)
    <3>1. nSPM' = nSPM /\ asked' = asked
      BY <2>1, <2>3 DEF ControllerTick, TickIdle, TickDelay, TickIssue, TickStall, TickComplete,
                        memoryVars, controllerVars, deviceVars, IssueCommand
    <3> QED
      BY <3>1 DEF SpmUnderOwnLatency
  <2> QED
    BY <2>2, <2>3
<1>4. CASE UNCHANGED vars
  BY <1>4 DEF vars, memoryVars, deviceVars, controllerVars, SpmUnderOwnLatency
<1> QED
  BY <1>1, <1>2, <1>3, <1>4 DEF Next, Environment, SpmUnderOwnLatency

LEMMA SpmSafe == SpmUnderOwnLatency => \A ch \in Channels :
                   Issues(ch, "SPM") /\ asked[ch] # 0 => nSPM = asked[ch]
BY DEF SpmUnderOwnLatency

(* With one channel, every SPM that follows a configuration is timed with  *)
(* the latency its own controller asked for last.                          *)
THEOREM SingleChannelSpm ==
    ASSUME NumChannels = 1
    PROVE  Spec => SpmTimedByOwnToken
<1>1. Init => SpmUnderOwnLatency
  BY DEF Init, ControllerInit, SpmUnderOwnLatency
<1>2. Inv /\ SpmUnderOwnLatency /\ [Next]_vars => SpmUnderOwnLatency'
  BY SpmStep
<1>3. SpmUnderOwnLatency =>
        [\A ch \in Channels : Issues(ch, "SPM") /\ asked[ch] # 0 => nSPM = asked[ch]]_vars
  BY SpmSafe
<1> QED
  BY <1>1, <1>2, <1>3, InitInv, StepInv, PTL DEF Spec, SpmTimedByOwnToken

-----------------------------------------------------------------------------
(* What the whole system relies on, of every request's expansion: the four *)
(* operators EsefTokens checks the expansions of a trace line with.        *)
ExpansionsBracket == \A r \in Reqs : BracketsRows(Program[r], Banks)
ExpansionsCompute == \A r \in Reqs : ComputesOnOpened(Program[r], Banks)
ExpansionsCount ==
    \A r \in Reqs : CountersMatch([c \in PageCommands |-> Number(Program[r], c)], StatsDelta[r])
ExpansionsStaged == \A r \in Reqs : FollowsStages(Program[r], TokenStages[r])

LEMMA ProgramIs ==
    ASSUME NEW r \in Reqs
    PROVE  /\ Program[r] = Expand(r, Request[r]) /\ StatsDelta[r] = StatsOf(Request[r])
           /\ TokenStages[r] = StagesOf(Request[r]) /\ IsToken(Request[r])
BY GeometryAssumption, RequestAssumption DEF EsefProgram, EsefStats, TokenStages

LEMMA ExpansionsBehave ==
    ExpansionsBracket /\ ExpansionsCompute /\ ExpansionsCount /\ ExpansionsStaged
<1>1. \A x \in Banks : \E p \in 0..(NumPchs - 1), g \in 0..(NumBgs - 1), b \in 0..(NumBanks - 1) :
         x = <<p, g, b>>
  BY GeometryAssumption DEF Banks
<1>2. /\ Cfg.enable_qk_act_pre \in BOOLEAN /\ Cfg.enable_act_spm_pre \in BOOLEAN
      /\ Cfg.bgmu_read_as_delay \in BOOLEAN
  BY ConfigAssumption
<1>3. ASSUME NEW r \in Reqs
      PROVE  BracketsRows(Program[r], Banks) /\ ComputesOnOpened(Program[r], Banks)
  <2>1. Program[r] = Expand(r, Request[r]) /\ IsToken(Request[r])
    BY ProgramIs
  <2>2. BracketsRows(Expand(r, Request[r]), Banks) /\ ComputesOnOpened(Expand(r, Request[r]), Banks)
    BY <1>1, <2>1, TokenBrackets
  <2> QED
    BY <2>1, <2>2
<1>4. ASSUME NEW r \in Reqs
      PROVE  CountersMatch([c \in PageCommands |-> Number(Program[r], c)], StatsDelta[r])
  <2>1. /\ Program[r] = Expand(r, Request[r]) /\ StatsDelta[r] = StatsOf(Request[r])
        /\ IsToken(Request[r])
    BY ProgramIs
  <2>2. CountersMatch([c \in PageCommands |-> Number(Expand(r, Request[r]), c)], StatsOf(Request[r]))
    BY <1>2, <2>1, TokenCountersMatch
  <2> QED
    BY <2>1, <2>2
<1>5. ASSUME NEW r \in Reqs
      PROVE  FollowsStages(Program[r], TokenStages[r])
  <2>1. /\ Program[r] = Expand(r, Request[r]) /\ TokenStages[r] = StagesOf(Request[r])
        /\ IsToken(Request[r])
    BY ProgramIs
  <2>2. FollowsStages(Expand(r, Request[r]), StagesOf(Request[r]))
    BY <1>2, <2>1, TokenStaged
  <2> QED
    BY <2>1, <2>2
<1> QED
  BY <1>3, <1>4, <1>5
  DEF ExpansionsBracket, ExpansionsCompute, ExpansionsCount, ExpansionsStaged

-----------------------------------------------------------------------------
(* Where a controller is in the expansion of a request.                    *)

(* How many operations of a request a controller has handled.              *)
Handled(ch, r) ==
    IF r \in done[ch] THEN Len(Program[r])
    ELSE IF r \in InService(ch) THEN Len(Program[r]) - Len(opq[ch])
    ELSE 0

(* The operation queue is what the expansion of its request has left.      *)
QueueIsRest(ch) ==
    opq[ch] # <<>> =>
        LET p == Program[Serving(ch)]
        IN  /\ Len(opq[ch]) <= Len(p)
            /\ \A i \in 1..Len(opq[ch]) : opq[ch][i] = p[Len(p) - Len(opq[ch]) + i]

RestsOfExpansions == \A ch \in Channels : QueueIsRest(ch)

(* A queue of operations serves a request.                                 *)
LEMMA ServingType ==
    ASSUME Shape, NEW ch \in Channels
    PROVE  /\ opq[ch] = <<>> => InService(ch) = {}
           /\ opq[ch] # <<>> => Serving(ch) \in Reqs /\ InService(ch) = {Serving(ch)}
<1>1. opq[ch] \in Seq(Ops) /\ WellFormed(opq[ch]) /\ NoReq \notin Reqs
  BY ControllerAssumption DEF Shape, TypeOK, ControllerTypeOK, OperationsWellFormed
<1>2. opq[ch] # <<>> => opq[ch][Len(opq[ch])].request \in Reqs
  BY <1>1, OpsTail
<1> QED
  BY <1>1, <1>2 DEF Serving, InService

(* What is pending is the rest of the current request's expansion, and     *)
(* where it begins.                                                        *)
LEMMA PendingIsRest ==
    ASSUME Inv, RestsOfExpansions, NEW ch \in Channels, ~Idle(ch),
           NEW r, r = Current(ch)
    PROVE  /\ r \in Reqs /\ r \in accepted /\ ChannelOf[r] = ch
           /\ r \notin UNION {done[c] : c \in Channels}
           /\ Program[r] \in Seq(Ops) /\ Len(Program[r]) \in Nat
           /\ Len(Pending(ch)) \in 1..Len(Program[r])
           /\ Handled(ch, r) = Len(Program[r]) - Len(Pending(ch))
           /\ \A i \in 1..Len(Pending(ch)) : Pending(ch)[i] = Program[r][Handled(ch, r) + i]
           /\ HeadOp(ch) = Program[r][Handled(ch, r) + 1]
<1> DEFINE p == Program[r]
           s == Pending(ch)
<1>1. /\ r \in Reqs /\ s \in Seq(Ops) /\ s # <<>> /\ HeadOp(ch) = Head(s)
  BY PendingOps DEF Inv, HeadOp
<1>2. p \in Seq(Ops) /\ Len(p) \in Nat /\ Len(p) > 0
  BY <1>1, ControllerAssumption, ProgramAssumption
<1>3. /\ accepted = UNION {Held(c) : c \in Channels}
      /\ \A c \in Channels : PlacedAt(c)
  BY PlacesByChannel DEF Inv
<1>4. queue[ch] \in Seq(Reqs)
  BY DEF Inv, Shape, TypeOK, ControllerTypeOK
<1>5. r \in Held(ch) /\ r \notin done[ch] /\ (Loads(ch) => r \notin InService(ch))
  <2>1. CASE Loads(ch)
    <3>1. r = Head(queue[ch]) /\ queue[ch] # <<>>
      BY <2>1 DEF Current, Loads
    <3>2. r \in Elements(queue[ch])
      BY <1>3, <1>4, <3>1, TailElements DEF PlacedAt
    <3> QED
      BY <1>3, <3>2 DEF PlacedAt, Held
  <2>2. CASE ~Loads(ch)
    <3>1. r = Serving(ch) /\ opq[ch] # <<>>
      BY <2>2 DEF Current, Loads, Idle
    <3>2. InService(ch) = {r}
      BY <3>1, ServingType DEF Inv
    <3> QED
      BY <1>3, <2>2, <3>2 DEF PlacedAt, Held
  <2> QED
    BY <2>1, <2>2
<1>6. r \in accepted /\ ChannelOf[r] = ch /\ r \notin UNION {done[c] : c \in Channels}
  <2>1. \A c \in Channels : \A q \in done[c] : ChannelOf[q] = c
    BY <1>3 DEF PlacedAt, Held
  <2> QED
    BY <1>3, <1>5, <2>1 DEF PlacedAt
<1>7. /\ Len(s) \in 1..Len(p)
      /\ Handled(ch, r) = Len(p) - Len(s)
      /\ \A i \in 1..Len(s) : s[i] = p[(Len(p) - Len(s)) + i]
  <2>1. CASE Loads(ch)
    <3>1. s = p
      BY <2>1 DEF Pending, Current
    <3>2. Handled(ch, r) = 0
      BY <1>5, <2>1 DEF Handled
    <3> HIDE DEF s, p
    <3> QED
      BY <1>2, <3>1, <3>2
  <2>2. CASE ~Loads(ch)
    <3>1. r = Serving(ch) /\ opq[ch] # <<>> /\ s = opq[ch]
      BY <2>2 DEF Current, Loads, Idle, Pending
    <3>2. InService(ch) = {r}
      BY <3>1, ServingType DEF Inv
    <3>3. Handled(ch, r) = Len(p) - Len(s)
      BY <1>5, <3>1, <3>2 DEF Handled
    <3>4. Len(s) <= Len(p) /\ \A i \in 1..Len(s) : s[i] = p[(Len(p) - Len(s)) + i]
      BY <3>1 DEF RestsOfExpansions, QueueIsRest
    <3>5. Len(s) \in Nat /\ Len(s) > 0
      BY <1>1
    <3> HIDE DEF s, p
    <3> QED
      BY <1>2, <3>3, <3>4, <3>5
  <2> QED
    BY <2>1, <2>2
<1>8. HeadOp(ch) = p[Handled(ch, r) + 1]
  <2>1. Head(s) = s[1] /\ 1 \in 1..Len(s)
    BY <1>1
  <2> HIDE DEF s, p
  <2> QED
    BY <1>1, <1>7, <2>1
<1> HIDE DEF s, p
<1>9. \A i \in 1..Len(s) : s[i] = p[Handled(ch, r) + i]
  BY <1>7
<1> QED
  BY <1>1, <1>2, <1>6, <1>7, <1>8, <1>9 DEF s, p

(* A tick handles the next operation of the current request, or none.      *)
LEMMA TickHandles ==
    ASSUME Inv, RestsOfExpansions, NEW ch \in Channels, ~Idle(ch), ControllerTick(ch),
           NEW r, r = Current(ch)
    PROVE  /\ Pop(ch) \/ Keep(ch)
           /\ Handled(ch, r)' = IF Pop(ch) THEN Handled(ch, r) + 1 ELSE Handled(ch, r)
           /\ \A q : q # r => Handled(ch, q)' = Handled(ch, q)
           /\ QueueIsRest(ch)'
           /\ opq'[ch] # <<>> => Serving(ch)' = r
<1> DEFINE p == Program[r]
           s == Pending(ch)
<1>0. /\ opq \in [Channels -> Seq(Ops)] /\ done \in [Channels -> SUBSET Reqs] /\ NoReq \notin Reqs
  BY ControllerAssumption DEF Inv, Shape, TypeOK, ControllerTypeOK
<1>1. /\ r \in Reqs /\ r \notin done[ch]
      /\ p \in Seq(Ops) /\ Len(p) \in Nat /\ Len(s) \in 1..Len(p)
      /\ Handled(ch, r) = Len(p) - Len(s)
      /\ \A i \in 1..Len(s) : s[i] = p[Handled(ch, r) + i]
  BY PendingIsRest
<1>2. s \in Seq(Ops) /\ s # <<>> /\ WellFormed(s) /\ HeadOp(ch) = Head(s)
  BY PendingOps DEF Inv, HeadOp
<1>3. InService(ch) \subseteq {r}
  <2>1. CASE opq[ch] = <<>>
    BY <2>1, ServingType DEF Inv
  <2>2. CASE opq[ch] # <<>>
    BY <2>2, ServingType DEF Inv, Current, Loads
  <2> QED
    BY <2>1, <2>2
<1>4. /\ Keep(ch) => opq'[ch] = s
      /\ Pop(ch) => opq'[ch] = Tail(s)
  BY <1>0 DEF Keep, Pop
<1>5. Len(Tail(s)) = Len(s) - 1 /\ \A i \in 1..Len(Tail(s)) : Tail(s)[i] = s[i + 1]
  BY <1>2
<1>6. \/ Keep(ch) /\ HeadOp(ch).kind # "Complete" /\ done' = done
      \/ Pop(ch) /\ HeadOp(ch).kind # "Complete" /\ done' = done
      \/ /\ Pop(ch) /\ HeadOp(ch).kind = "Complete"
         /\ done' = [done EXCEPT ![ch] = @ \cup {HeadOp(ch).request}]
  BY TickQueues DEF Inv
<1>7. IF HeadOp(ch).kind = "Complete"
      THEN opq'[ch] = <<>> /\ HeadOp(ch).request = r
      ELSE opq'[ch] # <<>> /\ opq'[ch][Len(opq'[ch])].request = r
  BY TickOps DEF Inv
<1>8. opq'[ch] # <<>> => Serving(ch)' = r /\ InService(ch)' = {r}
  BY <1>0, <1>1, <1>7 DEF Serving, InService
<1>9. opq'[ch] = <<>> => InService(ch)' = {}
  BY DEF Serving, InService
<1> HIDE DEF s, p
<1>10. CASE Keep(ch) /\ HeadOp(ch).kind # "Complete" /\ done' = done
  <2>1. opq'[ch] = s /\ opq'[ch] # <<>> /\ ~Pop(ch)
    <3>1. Len(Tail(s)) # Len(s)
      BY <1>1, <1>5
    <3> QED
      BY <1>2, <1>4, <1>10, <3>1
  <2>2. Handled(ch, r)' = Handled(ch, r)
    BY <1>1, <1>8, <1>10, <2>1 DEF Handled, p
  <2>3. \A q : q # r => Handled(ch, q)' = Handled(ch, q)
    BY <1>3, <1>8, <1>10, <2>1 DEF Handled
  <2>4. QueueIsRest(ch)'
    BY <1>1, <1>8, <2>1 DEF QueueIsRest, p
  <2> QED
    BY <1>8, <1>10, <2>1, <2>2, <2>3, <2>4
<1>11. CASE Pop(ch) /\ HeadOp(ch).kind # "Complete" /\ done' = done
  <2>1. opq'[ch] = Tail(s) /\ opq'[ch] # <<>>
    BY <1>4, <1>7, <1>11
  <2>2. Handled(ch, r)' = Handled(ch, r) + 1
    <3>1. Handled(ch, r)' = Len(p) - Len(Tail(s))
      BY <1>1, <1>8, <1>11, <2>1 DEF Handled, p
    <3> DEFINE n == Len(p)
               m == Len(s)
               k == Len(Tail(s))
    <3>2. n \in Nat /\ m \in 1..n /\ k = m - 1 /\ Handled(ch, r) = n - m
      BY <1>1, <1>5
    <3>3. Handled(ch, r)' = n - k
      BY <3>1
    <3> HIDE DEF n, m, k
    <3> QED
      BY <3>2, <3>3
  <2>3. \A q : q # r => Handled(ch, q)' = Handled(ch, q)
    BY <1>3, <1>8, <1>11, <2>1 DEF Handled
  <2>4. QueueIsRest(ch)'
    <3> DEFINE t == Tail(s)
               n == Len(p)
               m == Len(s)
    <3>0. n \in Nat /\ m \in 1..n /\ Len(t) = m - 1 /\ Handled(ch, r) = n - m
      BY <1>1, <1>5
    <3>1. Len(t) <= n
      <4> HIDE DEF t, n, m
      <4> QED
        BY <3>0
    <3>2. ASSUME NEW i \in 1..Len(t) PROVE t[i] = p[n - Len(t) + i]
      <4>1. i + 1 \in 1..Len(s) /\ t[i] = s[i + 1]
        BY <1>1, <1>5
      <4>2. t[i] = p[Handled(ch, r) + (i + 1)]
        BY <1>1, <4>1
      <4>3. Handled(ch, r) + (i + 1) = n - Len(t) + i
        <5> HIDE DEF t, n, m
        <5> QED
          BY <3>0
      <4> QED
        BY <4>2, <4>3
    <3> HIDE DEF t, n
    <3>3. opq'[ch] = t /\ Serving(ch)' = r
      BY <1>8, <2>1 DEF t
    <3> QED
      BY <3>1, <3>2, <3>3 DEF QueueIsRest, n, p
  <2> QED
    BY <1>8, <1>11, <2>1, <2>2, <2>3, <2>4
<1>12. CASE /\ Pop(ch) /\ HeadOp(ch).kind = "Complete"
            /\ done' = [done EXCEPT ![ch] = @ \cup {HeadOp(ch).request}]
  <2>1. opq'[ch] = <<>> /\ done'[ch] = done[ch] \cup {r}
    BY <1>0, <1>7, <1>12
  <2>2. Len(s) = 1
    <3>1. Head(s) = s[1] /\ Len(s) \in Nat /\ Len(s) > 0
      BY <1>2
    <3>2. 1 \in 1..Len(s)
      BY <3>1
    <3>3. s[1].kind = "Complete"
      BY <1>2, <1>12, <3>1
    <3> QED
      BY <1>2, <3>2, <3>3 DEF WellFormed
  <2>3. Handled(ch, r)' = Handled(ch, r) + 1
    <3>1. Handled(ch, r)' = Len(p)
      BY <2>1 DEF Handled, p
    <3> QED
      BY <1>1, <2>2, <3>1
  <2>4. \A q : q # r => Handled(ch, q)' = Handled(ch, q)
    BY <1>3, <1>9, <2>1 DEF Handled
  <2>5. QueueIsRest(ch)'
    BY <2>1 DEF QueueIsRest
  <2> QED
    BY <1>12, <2>1, <2>3, <2>4, <2>5
<1> QED
  BY <1>6, <1>10, <1>11, <1>12

(* Nothing else handles operations, and a controller handles only its own. *)
LEMMA OthersRest ==
    ASSUME NEW ch, opq'[ch] = opq[ch], done'[ch] = done[ch]
    PROVE  /\ QueueIsRest(ch)' <=> QueueIsRest(ch)
           /\ Serving(ch)' = Serving(ch)
           /\ \A q : Handled(ch, q)' = Handled(ch, q)
BY DEF QueueIsRest, Serving, InService, Handled

LEMMA IdleRests ==
    ASSUME NEW ch \in Channels, Idle(ch), ControllerTick(ch)
    PROVE  UNCHANGED memoryVars
BY DEF ControllerTick, TickIdle, TickDelay, TickConfigureSPM, TickIssue, TickStall,
       TickComplete, HeadIs

LEMMA InitRests == Init => RestsOfExpansions
BY DEF Init, ControllerInit, RestsOfExpansions, QueueIsRest

LEMMA StepRests == Inv /\ RestsOfExpansions /\ [Next]_vars => RestsOfExpansions'
<1> SUFFICES ASSUME Inv, RestsOfExpansions, [Next]_vars, NEW c \in Channels
             PROVE  QueueIsRest(c)'
  BY DEF RestsOfExpansions
<1>0. QueueIsRest(c)
  BY DEF RestsOfExpansions
<1>1. CASE opq'[c] = opq[c] /\ done'[c] = done[c]
  BY <1>0, <1>1, OthersRest
<1>2. CASE TickController
  <2> DEFINE ch == turn - 1
  <2>1. ch \in Channels /\ ControllerTick(ch)
    BY <1>2, ChannelsAssumption DEF TickController, Inv, Shape, TypeOK
  <2> HIDE DEF ch
  <2>2. CASE c = ch /\ ~Idle(ch)
    BY <2>1, <2>2, TickHandles
  <2>3. CASE c # ch \/ Idle(ch)
    <3>1. CASE Idle(ch)
      BY <1>1, <2>1, <3>1, IdleRests DEF memoryVars, controllerVars
    <3>2. CASE c # ch
      <4>1. PlacedAt(ch)
        BY <2>1, PlacesByChannel DEF Inv
      <4> QED
        BY <1>1, <2>1, <3>2, <4>1, TickPlaces DEF Inv
    <3> QED
      BY <2>3, <3>1, <3>2
  <2> QED
    BY <2>2, <2>3
<1>3. CASE ~TickController
  <2>1. opq' = opq /\ done' = done
    BY <1>3 DEF Next, Environment, MemorySend, MemoryPrioritySend, Send, PrioritySend, TickDram,
                vars, memoryVars, controllerVars
  <2> QED
    BY <1>1, <2>1
<1> QED
  BY <1>2, <1>3

-----------------------------------------------------------------------------
(* Every bank has exactly the rows open that the handled operations of the *)
(* request in service left open, and none between two requests.            *)
OpenRowsKnown ==
    \A ch \in Channels, b \in Banks :
        /\ opq[ch] = <<>> => open[ch][b] = {}
        /\ \A r \in InService(ch) : open[ch][b] = Opened(Program[r], b, Handled(ch, r))

LEMMA OpenNow ==
    ASSUME Inv, RestsOfExpansions, OpenRowsKnown, NEW ch \in Channels, ~Idle(ch),
           NEW r, r = Current(ch), NEW b \in Banks
    PROVE  open[ch][b] = Opened(Program[r], b, Handled(ch, r))
<1>1. CASE Loads(ch)
  <2>1. Handled(ch, r) = Len(Program[r]) - Len(Pending(ch)) /\ Len(Program[r]) \in Nat
    BY PendingIsRest
  <2>2. Pending(ch) = Program[r]
    BY <1>1 DEF Pending, Current
  <2>3. Handled(ch, r) = 0
    BY <2>1, <2>2
  <2> QED
    BY <1>1, <2>3, OpenedFirst DEF OpenRowsKnown, Loads
<1>2. CASE ~Loads(ch)
  <2>1. r \in InService(ch)
    BY <1>2, ServingType DEF Inv, Current, Loads, Idle
  <2> QED
    BY <2>1 DEF OpenRowsKnown
<1> QED
  BY <1>1, <1>2

LEMMA ReachesOnPath ==
    ASSUME NEW b \in Banks, NEW op, NEW cmd
    PROVE  Reaches(op, cmd, b) <=>
             op.kind = "Command" /\ op.command = cmd /\ OnPath(b, op.addr.path)
<1>1. PICK p \in Pchs, g \in Bgs, k \in Bks : b = <<p, g, k>>
  BY DEF Banks
<1>2. Len(b) = 3
  BY <1>1
<1> QED
  BY <1>2 DEF Reaches, OnPath, Each

LEMMA PopNotKeep ==
    ASSUME Inv, NEW ch \in Channels, ~Idle(ch)
    PROVE  ~(Pop(ch) /\ Keep(ch))
<1>1. Pending(ch) \in Seq(Ops) /\ Pending(ch) # <<>>
  BY PendingOps DEF Inv
<1>2. Tail(Pending(ch)) # Pending(ch)
  <2>1. Len(Tail(Pending(ch))) # Len(Pending(ch))
    BY <1>1
  <2> QED
    BY <2>1
<1>3. opq \in [Channels -> Seq(Ops)]
  BY DEF Inv, Shape, TypeOK, ControllerTypeOK
<1> QED
  BY <1>2, <1>3 DEF Pop, Keep

(* What a tick does to the rows: a command moves those of the banks it     *)
(* reaches, and nothing else moves any.                                    *)
LEMMA TickRows ==
    ASSUME ExpansionsBracket, Inv, RestsOfExpansions, NEW ch \in Channels, ~Idle(ch),
           ControllerTick(ch), NEW b \in Banks
    PROVE  /\ \A c \in Channels : c # ch => open'[c] = open[c]
           /\ Keep(ch) => open'[ch][b] = open[ch][b]
           /\ Pop(ch) => open'[ch][b] = RowsThen(open[ch][b], HeadOp(ch), b)
<1> DEFINE op == HeadOp(ch)
<1>1. open \in [Channels -> [Banks -> SUBSET Rows]]
  BY DEF Inv, Shape, TypeOK, DeviceTypeOK
<1>2. op.command \notin {"PREA", "RDA", "WRA"}
  <2> DEFINE r == Current(ch)
  <2>0. r = Current(ch)
    OBVIOUS
  <2> HIDE DEF r
  <2>1. /\ r \in Reqs /\ op = Program[r][Handled(ch, r) + 1] /\ Len(Program[r]) \in Nat
        /\ Len(Pending(ch)) \in 1..Len(Program[r])
        /\ Handled(ch, r) = Len(Program[r]) - Len(Pending(ch))
    BY <2>0, PendingIsRest
  <2>2. Handled(ch, r) + 1 \in 1..Len(Program[r])
    BY <2>1
  <2> HIDE DEF op
  <2> QED
    BY <2>1, <2>2 DEF ExpansionsBracket, BracketsRows
<1>3. CASE TickIssue(ch)
  <2>1. /\ op.kind = "Command" /\ IssueCommand(ch, op.command, op.addr) /\ Pop(ch)
    BY <1>3 DEF TickIssue, HeadIs
  <2>2. ~Keep(ch)
    BY <2>1, PopNotKeep
  <2> HIDE DEF op
  <2>3. /\ \A c \in Channels : c # ch => open'[c] = open[c]
        /\ open'[ch][b] = RowsAfter(open[ch][b], OnPath(b, op.addr.path), op.command, op.addr.row)
    BY <1>1, <2>1 DEF IssueCommand
  <2>4. RowsAfter(open[ch][b], OnPath(b, op.addr.path), op.command, op.addr.row)
          = RowsThen(open[ch][b], op, b)
    <3>1. \A cmd : Reaches(op, cmd, b) <=> op.command = cmd /\ OnPath(b, op.addr.path)
      BY <2>1, ReachesOnPath
    <3>2. CASE op.command = "ACT" /\ OnPath(b, op.addr.path)
      BY <3>1, <3>2 DEF RowsAfter, RowsThen
    <3>3. CASE op.command = "PRE" /\ OnPath(b, op.addr.path)
      BY <3>1, <3>3 DEF RowsAfter, RowsThen
    <3>4. CASE ~(op.command \in {"ACT", "PRE"} /\ OnPath(b, op.addr.path))
      <4>1. RowsThen(open[ch][b], op, b) = open[ch][b]
        BY <3>1, <3>4 DEF RowsThen
      <4> QED
        BY <1>2, <3>4, <4>1 DEF RowsAfter
    <3> QED
      BY <3>2, <3>3, <3>4
  <2> QED
    BY <2>2, <2>3, <2>4 DEF op
<1>4. CASE ~TickIssue(ch)
  <2>1. /\ open' = open
        /\ op.kind # "Command" \/ ~Pop(ch)
    <3>1. CASE TickStall(ch)
      <4>1. Keep(ch) /\ open' = open
        BY <3>1 DEF TickStall, deviceVars
      <4> QED
        BY <4>1, PopNotKeep
    <3>2. CASE ~TickStall(ch)
      BY <1>4, <3>2 DEF ControllerTick, TickIdle, TickDelay, TickConfigureSPM, TickComplete,
                        HeadIs, deviceVars, Notify
    <3> QED
      BY <3>1, <3>2
  <2> HIDE DEF op
  <2>2. op.kind # "Command" => RowsThen(open[ch][b], op, b) = open[ch][b]
    BY DEF RowsThen, Reaches
  <2> QED
    BY <2>1, <2>2 DEF op
<1> QED
  BY <1>3, <1>4

LEMMA InitOpenRows == Init => OpenRowsKnown
BY DEF Init, ControllerInit, DeviceInit, OpenRowsKnown, InService, Serving

LEMMA TickOpenRows ==
    ASSUME ExpansionsBracket, Inv, RestsOfExpansions, OpenRowsKnown,
           NEW ch \in Channels, ~Idle(ch), ControllerTick(ch), NEW b \in Banks,
           NEW r, r = Current(ch), NEW k, k = Handled(ch, r)
    PROVE  /\ opq'[ch] = <<>> => open'[ch][b] = {}
           /\ \A q \in InService(ch)' :
                 open'[ch][b] = Opened(Program[q], b, Handled(ch, q)')
<1>1. /\ r \in Reqs /\ Len(Program[r]) \in Nat /\ Len(Pending(ch)) \in 1..Len(Program[r])
      /\ k = Len(Program[r]) - Len(Pending(ch)) /\ HeadOp(ch) = Program[r][k + 1]
  BY PendingIsRest
<1>2. /\ Pop(ch) \/ Keep(ch)
      /\ Handled(ch, r)' = IF Pop(ch) THEN k + 1 ELSE k
      /\ opq'[ch] # <<>> => Serving(ch)' = r
  BY TickHandles
<1>3. open[ch][b] = Opened(Program[r], b, k)
  BY OpenNow
<1>4. /\ Keep(ch) => open'[ch][b] = open[ch][b]
      /\ Pop(ch) => open'[ch][b] = RowsThen(open[ch][b], HeadOp(ch), b)
  BY TickRows
<1>5. k \in Nat
  BY <1>1
<1>6. open'[ch][b] = Opened(Program[r], b, Handled(ch, r)')
  <2>1. CASE Pop(ch)
    <3>1. Opened(Program[r], b, k + 1) = RowsThen(open[ch][b], HeadOp(ch), b)
      <4>1. Opened(Program[r], b, k + 1) = RowsThen(Opened(Program[r], b, k), Program[r][k + 1], b)
        BY <1>5, OpenedNext
      <4> QED
        BY <1>1, <1>3, <4>1
    <3> QED
      BY <1>2, <1>4, <2>1, <3>1
  <2>2. CASE ~Pop(ch)
    BY <1>2, <1>3, <1>4, <2>2
  <2> QED
    BY <2>1, <2>2
<1>7. CASE opq'[ch] # <<>>
  <2>1. InService(ch)' \subseteq {r}
    BY <1>2, <1>7 DEF InService
  <2> QED
    BY <1>6, <1>7, <2>1
<1>8. CASE opq'[ch] = <<>>
  <2>1. InService(ch)' = {}
    BY <1>8 DEF InService, Serving
  <2>2. HeadOp(ch).kind = "Complete"
    BY <1>8, TickOps DEF Inv
  <2>3. Pop(ch)
    BY <2>2, TickQueues DEF Inv
  <2>4. k + 1 = Len(Program[r])
    <3>1. /\ Pending(ch) \in Seq(Ops) /\ Pending(ch) # <<>> /\ WellFormed(Pending(ch))
          /\ HeadOp(ch) = Head(Pending(ch))
      BY PendingOps DEF Inv, HeadOp
    <3>2. Len(Pending(ch)) = 1
      <4> DEFINE s == Pending(ch)
      <4>1. s[1].kind = "Complete" /\ 1 \in 1..Len(s)
        BY <2>2, <3>1
      <4> HIDE DEF s
      <4> QED
        BY <3>1, <4>1 DEF WellFormed, s
    <3> QED
      BY <1>1, <3>2
  <2>5. Opened(Program[r], b, Len(Program[r])) = {}
    BY <1>1 DEF ExpansionsBracket, BracketsRows
  <2> QED
    BY <1>2, <1>6, <2>1, <2>3, <2>4, <2>5
<1> QED
  BY <1>7, <1>8

LEMMA StepOpenRows ==
    ASSUME ExpansionsBracket, Inv, RestsOfExpansions, OpenRowsKnown, [Next]_vars
    PROVE  OpenRowsKnown'
<1> SUFFICES ASSUME NEW c \in Channels, NEW b \in Banks
             PROVE  /\ opq'[c] = <<>> => open'[c][b] = {}
                    /\ \A q \in InService(c)' :
                          open'[c][b] = Opened(Program[q], b, Handled(c, q)')
  BY DEF OpenRowsKnown
<1>1. CASE opq'[c] = opq[c] /\ done'[c] = done[c] /\ open'[c] = open[c]
  <2>1. InService(c)' = InService(c) /\ \A q : Handled(c, q)' = Handled(c, q)
    BY <1>1, OthersRest DEF InService
  <2> QED
    BY <1>1, <2>1 DEF OpenRowsKnown
<1>2. CASE TickController
  <2>1. PICK ch \in Channels : ControllerTick(ch)
    BY <1>2, ChannelsAssumption DEF TickController, Inv, Shape, TypeOK
  <2>2. CASE c = ch /\ ~Idle(ch)
    <3>1. PICK r, k : r = Current(ch) /\ k = Handled(ch, r)
      OBVIOUS
    <3> QED
      BY <2>1, <2>2, <3>1, TickOpenRows
  <2>3. CASE Idle(ch)
    BY <1>1, <2>1, <2>3, IdleRests DEF memoryVars, deviceVars, controllerVars
  <2>4. CASE c # ch /\ ~Idle(ch)
    <3>1. PlacedAt(ch)
      BY <2>1, PlacesByChannel DEF Inv
    <3>2. opq'[c] = opq[c] /\ done'[c] = done[c]
      BY <2>1, <2>4, <3>1, TickPlaces DEF Inv
    <3>3. open'[c] = open[c]
      BY <2>1, <2>4, TickRows
    <3> QED
      BY <1>1, <3>2, <3>3
  <2> QED
    BY <2>2, <2>3, <2>4
<1>3. CASE ~TickController
  <2>1. opq' = opq /\ done' = done /\ open' = open
    BY <1>3 DEF Next, Environment, MemorySend, MemoryPrioritySend, Send, PrioritySend, TickDram,
                DeviceTick, vars, memoryVars, deviceVars, controllerVars
  <2> QED
    BY <1>1, <2>1
<1> QED
  BY <1>2, <1>3

(* A command that is issued finds the rows of its own request.             *)
LEMMA IssuedOnOwnRows ==
    ASSUME ExpansionsBracket, Inv, RestsOfExpansions, OpenRowsKnown,
           NEW ch \in Channels, NEW cmd, Issues(ch, cmd), NEW b \in Banks
    PROVE  /\ OnPath(b, HeadOp(ch).addr.path) /\ cmd = "ACT" => open[ch][b] = {}
           /\ OnPath(b, HeadOp(ch).addr.path) /\ cmd = "PRE" => open[ch][b] = {HeadOp(ch).addr.row}
           /\ (\A r \in Reqs : ComputesOnOpened(Program[r], Banks)) /\ UsesOpenRow(HeadOp(ch)) =>
                 open[ch][b] = {HeadOp(ch).addr.row}
<1> DEFINE r == Current(ch)
           k == Handled(ch, Current(ch))
           op == HeadOp(ch)
<1>0. r = Current(ch) /\ k = Handled(ch, r) /\ ~Idle(ch)
  BY DEF Issues, HeadIs
<1>1. op.kind = "Command" /\ op.command = cmd
  BY DEF Issues, HeadIs
<1> HIDE DEF r, k, op
<1>2. /\ r \in Reqs /\ Len(Program[r]) \in Nat /\ Len(Pending(ch)) \in 1..Len(Program[r])
      /\ k = Len(Program[r]) - Len(Pending(ch)) /\ op = Program[r][k + 1]
  BY <1>0, PendingIsRest DEF op
<1>3. open[ch][b] = Opened(Program[r], b, k)
  BY <1>0, OpenNow
<1>4. k + 1 \in 1..Len(Program[r]) /\ (k + 1) - 1 = k
  BY <1>2
<1>5. Reaches(op, cmd, b) <=> OnPath(b, op.addr.path)
  BY <1>1, ReachesOnPath
<1>6. /\ Reaches(op, "ACT", b) => Opened(Program[r], b, k) = {}
      /\ Reaches(op, "PRE", b) => Opened(Program[r], b, k) = {op.addr.row}
  BY <1>2, <1>4 DEF ExpansionsBracket, BracketsRows
<1>7. ComputesOnOpened(Program[r], Banks) /\ UsesOpenRow(op) =>
         Opened(Program[r], b, k) = {op.addr.row}
  BY <1>2, <1>4 DEF ComputesOnOpened
<1> QED
  BY <1>2, <1>3, <1>5, <1>6, <1>7 DEF op

-----------------------------------------------------------------------------
(* The counters of issued commands.                                        *)

(* A tick counts the operation it handles, if it is a counted command.     *)
LEMMA TickCounts ==
    ASSUME Inv, NEW ch \in Channels, ~Idle(ch), ControllerTick(ch), NEW c \in Counted
    PROVE  /\ \A d \in Channels : d # ch => issued'[d] = issued[d]
           /\ issued'[ch][c] = issued[ch][c] +
                 IF Pop(ch) /\ IsCommand(HeadOp(ch), c) THEN 1 ELSE 0
<1>0. issued \in [Channels -> [Counted -> Nat]] /\ issued[ch][c] \in Nat
  BY DEF Inv, Shape, TypeOK, ControllerTypeOK
<1>1. CASE TickIssue(ch)
  <2>1. /\ HeadOp(ch).kind = "Command" /\ Pop(ch)
        /\ issued' = IF HeadOp(ch).command \in Counted
                     THEN [issued EXCEPT ![ch][HeadOp(ch).command] = @ + 1] ELSE issued
    BY <1>1 DEF TickIssue, HeadIs
  <2> DEFINE cmd == HeadOp(ch).command
  <2>2. IsCommand(HeadOp(ch), c) <=> cmd = c
    BY <2>1 DEF IsCommand
  <2>3. issued' = IF cmd \in Counted
                  THEN [issued EXCEPT ![ch] = [issued[ch] EXCEPT ![cmd] = issued[ch][cmd] + 1]]
                  ELSE issued
    BY <1>0, <2>1
  <2> HIDE DEF cmd
  <2>4. issued'[ch][c] = IF cmd = c THEN issued[ch][c] + 1 ELSE issued[ch][c]
    BY <1>0, <2>3
  <2>5. \A d \in Channels : d # ch => issued'[d] = issued[d]
    BY <1>0, <2>3
  <2> QED
    BY <1>0, <2>1, <2>2, <2>4, <2>5
<1>2. CASE ~TickIssue(ch)
  <2>1. issued' = issued
    BY <1>2 DEF ControllerTick, TickIdle, TickDelay, TickConfigureSPM, TickStall, TickComplete,
                memoryVars, controllerVars
  <2>2. ~Pop(ch) \/ HeadOp(ch).kind # "Command"
    <3>1. CASE TickStall(ch)
      BY <3>1, PopNotKeep DEF TickStall
    <3>2. CASE ~TickStall(ch)
      BY <1>2, <3>2 DEF ControllerTick, TickIdle, TickDelay, TickConfigureSPM, TickComplete, HeadIs
    <3> QED
      BY <3>1, <3>2
  <2>3. ~(Pop(ch) /\ IsCommand(HeadOp(ch), c))
    BY <2>2 DEF IsCommand
  <2> QED
    BY <1>0, <2>1, <2>3
<1> QED
  BY <1>1, <1>2

(* The commands issued for requests: each is a request and the place of    *)
(* an operation that has been handled.                                     *)
IssuedFor(ch, c) ==
    {x \in Reqs \X Nat : x[2] \in 1..Handled(ch, x[1]) /\ IsCommand(Program[x[1]][x[2]], c)}

IssuesCounted ==
    \A ch \in Channels, c \in Counted :
        IsFiniteSet(IssuedFor(ch, c)) /\ issued[ch][c] = Cardinality(IssuedFor(ch, c))

LEMMA InitIssues == Init => IssuesCounted
<1> SUFFICES ASSUME Init, NEW ch \in Channels, NEW c \in Counted
             PROVE  IsFiniteSet(IssuedFor(ch, c)) /\ issued[ch][c] = Cardinality(IssuedFor(ch, c))
  BY DEF IssuesCounted
<1>1. \A r : Handled(ch, r) = 0
  BY DEF Init, ControllerInit, Handled, InService, Serving
<1>2. IssuedFor(ch, c) = {}
  BY <1>1 DEF IssuedFor
<1>3. issued[ch][c] = 0
  BY DEF Init, ControllerInit
<1> QED
  BY <1>2, <1>3, FS_EmptySet

LEMMA TickIssues ==
    ASSUME Inv, RestsOfExpansions, IssuesCounted, NEW ch \in Channels, ~Idle(ch),
           ControllerTick(ch), NEW c \in Counted
    PROVE  IsFiniteSet(IssuedFor(ch, c)') /\ issued'[ch][c] = Cardinality(IssuedFor(ch, c)')
<1>1. PICK r, k : r = Current(ch) /\ k = Handled(ch, r)
  OBVIOUS
<1>2. /\ r \in Reqs /\ Len(Program[r]) \in Nat /\ Len(Pending(ch)) \in 1..Len(Program[r])
      /\ k = Len(Program[r]) - Len(Pending(ch)) /\ HeadOp(ch) = Program[r][k + 1]
  BY <1>1, PendingIsRest
<1>3. /\ Handled(ch, r)' = IF Pop(ch) THEN k + 1 ELSE k
      /\ \A q : q # r => Handled(ch, q)' = Handled(ch, q)
  BY <1>1, TickHandles
<1>4. IsFiniteSet(IssuedFor(ch, c)) /\ issued[ch][c] = Cardinality(IssuedFor(ch, c))
  BY DEF IssuesCounted
<1>5. issued'[ch][c] = issued[ch][c] + IF Pop(ch) /\ IsCommand(HeadOp(ch), c) THEN 1 ELSE 0
  BY TickCounts
<1>6. k \in Nat
  BY <1>2
<1>7. \A x : x \in IssuedFor(ch, c) <=>
         /\ x \in Reqs \X Nat /\ x[2] \in 1..Handled(ch, x[1])
         /\ IsCommand(Program[x[1]][x[2]], c)
  BY DEF IssuedFor
<1>8. \A x : x \in IssuedFor(ch, c)' <=>
         /\ x \in Reqs \X Nat /\ x[2] \in 1..Handled(ch, x[1])'
         /\ IsCommand(Program[x[1]][x[2]], c)
  BY DEF IssuedFor
<1>9. CASE Pop(ch) /\ IsCommand(HeadOp(ch), c)
  <2> DEFINE new == <<r, k + 1>>
  <2>1. new \in Reqs \X Nat /\ new[1] = r /\ new[2] = k + 1
    BY <1>2, <1>6
  <2>2. new \notin IssuedFor(ch, c)
    <3>1. k + 1 \notin 1..k
      BY <1>6
    <3> QED
      BY <1>1, <1>7, <2>1, <3>1
  <2>3. IssuedFor(ch, c)' = IssuedFor(ch, c) \cup {new}
    <3> SUFFICES ASSUME NEW x
                 PROVE  x \in IssuedFor(ch, c)' <=> x \in IssuedFor(ch, c) \/ x = new
      OBVIOUS
    <3>1. CASE x \in Reqs \X Nat /\ x[1] = r
      <4>1. x[2] \in Nat /\ (x = new <=> x[2] = k + 1)
        BY <2>1, <3>1
      <4>2. x[2] \in 1..k + 1 <=> x[2] \in 1..k \/ x[2] = k + 1
        BY <1>6, <4>1
      <4> HIDE DEF new
      <4> QED
        BY <1>1, <1>2, <1>3, <1>7, <1>8, <1>9, <3>1, <4>1, <4>2
    <3>2. CASE x \in Reqs \X Nat /\ x[1] # r
      <4>1. x # new
        BY <2>1, <3>2
      <4>2. Handled(ch, x[1])' = Handled(ch, x[1])
        BY <1>3, <3>2
      <4> HIDE DEF new
      <4> QED
        BY <1>7, <1>8, <4>1, <4>2
    <3>3. CASE x \notin Reqs \X Nat
      BY <1>7, <1>8, <2>1, <3>3
    <3> QED
      BY <3>1, <3>2, <3>3
  <2>4. /\ IsFiniteSet(IssuedFor(ch, c) \cup {new})
        /\ Cardinality(IssuedFor(ch, c) \cup {new}) = Cardinality(IssuedFor(ch, c)) + 1
    BY <1>4, <2>2, FS_AddElement
  <2> QED
    BY <1>4, <1>5, <1>9, <2>3, <2>4
<1>10. CASE ~(Pop(ch) /\ IsCommand(HeadOp(ch), c))
  <2>1. ASSUME NEW x PROVE x \in IssuedFor(ch, c)' <=> x \in IssuedFor(ch, c)
    <3>1. CASE x \in Reqs \X Nat /\ x[1] = r
      <4>1. x[2] \in Nat
        BY <3>1
      <4>2. x[2] \in 1..k + 1 <=> x[2] \in 1..k \/ x[2] = k + 1
        BY <1>6, <4>1
      <4>3. Handled(ch, r) = k
        BY <1>1, Zenon
      <4>4. x \in IssuedFor(ch, c)
              <=> x[2] \in 1..k /\ IsCommand(Program[r][x[2]], c)
        BY <1>7, <3>1, <4>3, Zenon
      <4>5. x \in IssuedFor(ch, c)'
              <=> x[2] \in 1..Handled(ch, r)' /\ IsCommand(Program[r][x[2]], c)
        BY <1>8, <3>1, Zenon
      <4>6. CASE Pop(ch)
        <5>1. ~IsCommand(Program[r][k + 1], c)
          BY <1>2, <1>10, <4>6, Zenon
        <5>2. Handled(ch, r)' = k + 1
          BY <1>3, <4>6, Zenon
        <5> QED
          BY <4>2, <4>4, <4>5, <5>1, <5>2, Zenon
      <4>7. CASE ~Pop(ch)
        <5>1. Handled(ch, r)' = k
          BY <1>3, <4>7, Zenon
        <5> QED
          BY <4>4, <4>5, <5>1, Zenon
      <4> QED
        BY <4>6, <4>7, Zenon
    <3>2. CASE x[1] # r
      BY <1>3, <1>7, <1>8, <3>2
    <3> QED
      BY <1>7, <1>8, <3>1, <3>2
  <2>2. IssuedFor(ch, c)' = IssuedFor(ch, c)
    BY <2>1
  <2>3. issued[ch][c] \in Nat
    BY DEF Inv, Shape, TypeOK, ControllerTypeOK
  <2> QED
    BY <1>4, <1>5, <1>10, <2>2, <2>3
<1> QED
  BY <1>9, <1>10

LEMMA StepIssues ==
    ASSUME Inv, RestsOfExpansions, IssuesCounted, [Next]_vars
    PROVE  IssuesCounted'
<1> SUFFICES ASSUME NEW d \in Channels, NEW c \in Counted
             PROVE  IsFiniteSet(IssuedFor(d, c)') /\ issued'[d][c] = Cardinality(IssuedFor(d, c)')
  BY DEF IssuesCounted
<1>1. CASE opq'[d] = opq[d] /\ done'[d] = done[d] /\ issued'[d] = issued[d]
  <2>1. \A q : Handled(d, q)' = Handled(d, q)
    BY <1>1, OthersRest
  <2>2. IssuedFor(d, c)' = IssuedFor(d, c)
    BY <2>1 DEF IssuedFor
  <2> QED
    BY <1>1, <2>2 DEF IssuesCounted
<1>2. CASE TickController
  <2>1. PICK ch \in Channels : ControllerTick(ch)
    BY <1>2, ChannelsAssumption DEF TickController, Inv, Shape, TypeOK
  <2>2. CASE d = ch /\ ~Idle(ch)
    BY <2>1, <2>2, TickIssues
  <2>3. CASE Idle(ch)
    BY <1>1, <2>1, <2>3, IdleRests DEF memoryVars, controllerVars
  <2>4. CASE d # ch /\ ~Idle(ch)
    <3>1. PlacedAt(ch)
      BY PlacesByChannel DEF Inv
    <3>2. opq'[d] = opq[d] /\ done'[d] = done[d]
      BY <2>1, <2>4, <3>1, TickPlaces DEF Inv
    <3>3. issued'[d] = issued[d]
      BY <2>1, <2>4, TickCounts
    <3> QED
      BY <1>1, <3>2, <3>3
  <2> QED
    BY <2>2, <2>3, <2>4
<1>3. CASE ~TickController
  <2>1. opq' = opq /\ done' = done /\ issued' = issued
    BY <1>3 DEF Next, Environment, MemorySend, MemoryPrioritySend, Send, PrioritySend, TickDram,
                vars, memoryVars, controllerVars
  <2> QED
    BY <1>1, <2>1
<1> QED
  BY <1>2, <1>3

-----------------------------------------------------------------------------
(* The frontend and the main loop.                                         *)
Completed == UNION {done[ch] : ch \in Channels}

FrontendInv ==
    /\ trace \in Traces /\ idx \in 1..Len(trace) + 1
    /\ accepted = {trace[i] : i \in 1..idx - 1}
    /\ IsFiniteSet(Completed) /\ completed = Cardinality(Completed)
    /\ loop = "stopped" => IsFinished

LEMMA TraceFacts ==
    ASSUME FrontendInv
    PROVE  /\ trace \in Seq(Reqs) /\ Len(trace) \in Nat /\ idx \in Nat
           /\ \A i, j \in 1..Len(trace) : trace[i] = trace[j] => i = j
           /\ ~TraceSent => idx \in 1..Len(trace) /\ trace[idx] \in Reqs \ accepted
<1>1. /\ trace \in Seq(Reqs) /\ Len(trace) \in Nat
      /\ \A i, j \in 1..Len(trace) : trace[i] = trace[j] => i = j
  BY TracesAssumption DEF FrontendInv
<1>2. idx \in Nat
  BY <1>1 DEF FrontendInv
<1>3. ASSUME ~TraceSent PROVE idx \in 1..Len(trace) /\ trace[idx] \in Reqs \ accepted
  <2>1. idx \in 1..Len(trace)
    BY <1>1, <1>2, <1>3 DEF FrontendInv, TraceSent
  <2>2. \A i \in 1..idx - 1 : i \in 1..Len(trace) /\ i # idx
    BY <2>1
  <2>3. trace[idx] \notin accepted
    BY <1>1, <2>1, <2>2 DEF FrontendInv
  <2> QED
    BY <1>1, <2>1, <2>3
<1> QED
  BY <1>1, <1>2, <1>3

(* The simulator is the memory system with one environment among many.     *)
LEMMA SystemStep ==
    ASSUME FrontendInv, [SystemNext]_sysVars
    PROVE  [Next]_vars
<1>1. CASE LoopFrontend
  <2>1. CASE UNCHANGED <<vars, frontendVars>>
    BY <2>1
  <2>2. CASE ~TraceSent /\ MemorySend(trace[idx])
    BY <2>2, TraceFacts DEF Next, Environment
  <2> QED
    BY <1>1, <2>1, <2>2 DEF LoopFrontend, FrontendTick
<1>2. CASE LoopSkipMemory
  BY <1>2 DEF LoopSkipMemory
<1>3. CASE LoopTickDram
  BY <1>3 DEF LoopTickDram, Next
<1>4. CASE LoopTickController
  BY <1>4 DEF LoopTickController, Next
<1>5. CASE Stopped \/ UNCHANGED sysVars
  BY <1>5 DEF Stopped, sysVars
<1> QED
  BY <1>1, <1>2, <1>3, <1>4, <1>5 DEF SystemNext

(* A callback completes a request that was not completed before.           *)
LEMMA TickCompletes ==
    ASSUME Inv, RestsOfExpansions, IsFiniteSet(Completed), NEW ch \in Channels, ControllerTick(ch)
    PROVE  /\ IsFiniteSet(Completed')
           /\ Cardinality(Completed') = Cardinality(Completed) +
                 IF HeadIs(ch, "Complete") THEN 1 ELSE 0
<1>0. done \in [Channels -> SUBSET Reqs] /\ Cardinality(Completed) \in Nat
  BY FS_CardinalityType DEF Inv, Shape, TypeOK, ControllerTypeOK
<1>1. CASE ~HeadIs(ch, "Complete")
  <2>1. done' = done
    BY <1>1, TickQueues DEF Inv, HeadIs, memoryVars, controllerVars
  <2>2. Completed' = Completed
    BY <2>1 DEF Completed
  <2> QED
    BY <1>0, <1>1, <2>2
<1>2. CASE HeadIs(ch, "Complete")
  <2>1. ~Idle(ch) /\ HeadOp(ch).kind = "Complete"
    BY <1>2 DEF HeadIs
  <2>2. PICK r : r = Current(ch)
    OBVIOUS
  <2>3. r \notin Completed
    BY <2>1, <2>2, PendingIsRest DEF Completed
  <2>4. HeadOp(ch).request = r
    BY <2>1, <2>2, TickOps DEF Inv
  <2>5. done' = [done EXCEPT ![ch] = @ \cup {r}]
    BY <2>1, <2>4, TickQueues DEF Inv
  <2>6. ASSUME NEW x PROVE x \in Completed' <=> x \in Completed \/ x = r
    <3>1. \A c \in Channels : x \in done'[c] <=> x \in done[c] \/ (c = ch /\ x = r)
      BY <1>0, <2>5
    <3>2. x \in Completed' <=> \E c \in Channels : x \in done'[c]
      BY DEF Completed
    <3>3. x \in Completed <=> \E c \in Channels : x \in done[c]
      BY DEF Completed
    <3> QED
      BY <3>1, <3>2, <3>3
  <2>7. Completed' = Completed \cup {r}
    BY <2>6
  <2>8. /\ IsFiniteSet(Completed \cup {r})
        /\ Cardinality(Completed \cup {r}) = Cardinality(Completed) + 1
    BY <2>3, FS_AddElement
  <2> QED
    BY <1>2, <2>7, <2>8
<1> QED
  BY <1>1, <1>2

LEMMA InitFrontend == SystemInit => FrontendInv
<1> SUFFICES ASSUME SystemInit PROVE FrontendInv
  OBVIOUS
<1>1. trace \in Traces /\ idx = 1 /\ completed = 0 /\ loop = "frontend" /\ accepted = {}
  BY DEF SystemInit, Init
<1>2. Len(trace) \in Nat
  BY <1>1, TracesAssumption
<1>3. Completed = {}
  BY DEF SystemInit, Init, ControllerInit, Completed
<1>4. 1..idx - 1 = {}
  BY <1>1
<1> QED
  BY <1>1, <1>2, <1>3, <1>4, FS_EmptySet DEF FrontendInv

LEMMA StepFrontend ==
    ASSUME Inv, RestsOfExpansions, FrontendInv, [SystemNext]_sysVars
    PROVE  FrontendInv'
<1>0. /\ trace \in Traces /\ Len(trace) \in Nat /\ idx \in 1..Len(trace) + 1
      /\ accepted = {trace[i] : i \in 1..idx - 1}
      /\ IsFiniteSet(Completed) /\ completed = Cardinality(Completed) /\ completed \in Nat
  BY TraceFacts, FS_CardinalityType DEF FrontendInv
<1>1. CASE /\ UNCHANGED <<trace, idx, accepted, done, completed>>
           /\ loop' = "stopped" => IsFinished'
  <2>1. Completed' = Completed
    BY <1>1 DEF Completed
  <2> QED
    BY <1>0, <1>1, <2>1 DEF FrontendInv
<1>2. CASE LoopFrontend
  <2>1. loop' = "stopped" => IsFinished'
    BY <1>2 DEF LoopFrontend
  <2>2. CASE UNCHANGED <<vars, frontendVars>>
    BY <1>1, <2>1, <2>2 DEF vars, memoryVars, controllerVars, frontendVars
  <2>3. CASE /\ ~TraceSent /\ MemorySend(trace[idx])
             /\ idx' = IF WouldAccept(trace[idx]) THEN idx + 1 ELSE idx
             /\ UNCHANGED <<trace, completed>>
    <3>1. done' = done
      BY <2>3 DEF MemorySend, Send
    <3>2. CASE ~WouldAccept(trace[idx])
      BY <1>1, <2>1, <2>3, <3>1, <3>2 DEF MemorySend
    <3>3. CASE WouldAccept(trace[idx])
      <4>1. idx \in 1..Len(trace) /\ idx' = idx + 1 /\ accepted' = accepted \cup {trace[idx]}
        BY <2>3, <3>3, TraceFacts DEF MemorySend
      <4>2. idx' \in 1..Len(trace) + 1
        BY <1>0, <4>1
      <4>3. 1..idx' - 1 = 1..idx - 1 \cup {idx}
        BY <1>0, <4>1
      <4>4. accepted' = {trace[i] : i \in 1..idx' - 1}
        BY <1>0, <4>1, <4>3
      <4>5. Completed' = Completed
        BY <3>1 DEF Completed
      <4> QED
        BY <1>0, <2>1, <2>3, <4>2, <4>4, <4>5 DEF FrontendInv
    <3> QED
      BY <3>2, <3>3
  <2> QED
    BY <1>2, <2>2, <2>3 DEF LoopFrontend, FrontendTick
<1>3. CASE LoopSkipMemory
  BY <1>1, <1>3 DEF LoopSkipMemory, NextIteration, vars, memoryVars, controllerVars, frontendVars
<1>4. CASE LoopTickDram
  BY <1>1, <1>4 DEF LoopTickDram, TickDram, controllerVars, frontendVars
<1>5. CASE LoopTickController
  <2>1. loop' # "stopped" /\ UNCHANGED <<trace, idx, accepted>>
    BY <1>5 DEF LoopTickController, NextIteration, TickController
  <2>2. turn - 1 \in Channels /\ ControllerTick(turn - 1)
    BY <1>5, ChannelsAssumption DEF LoopTickController, TickController, Inv, Shape, TypeOK
  <2>3. completed' = completed + IF HeadIs(turn - 1, "Complete") THEN 1 ELSE 0
    BY <1>5 DEF LoopTickController, Completes
  <2>4. IsFiniteSet(Completed') /\ completed' = Cardinality(Completed')
    <3>1. PICK ch \in Channels : ch = turn - 1
      BY <2>2
    <3>2. ControllerTick(ch) /\ completed' = completed + IF HeadIs(ch, "Complete") THEN 1 ELSE 0
      BY <2>2, <2>3, <3>1
    <3> QED
      BY <1>0, <3>2, TickCompletes
  <2> QED
    BY <1>0, <2>1, <2>4 DEF FrontendInv
<1>6. CASE Stopped \/ UNCHANGED sysVars
  <2>1. UNCHANGED sysVars
    BY <1>6 DEF Stopped
  <2>2. IsFinished' <=> IsFinished
    BY <2>1 DEF sysVars, frontendVars, IsFinished, TraceSent
  <2> QED
    BY <1>1, <2>1, <2>2 DEF FrontendInv, sysVars, vars, memoryVars, controllerVars, frontendVars
<1> QED
  BY <1>2, <1>3, <1>4, <1>5, <1>6 DEF SystemNext

-----------------------------------------------------------------------------
(* When the loop stops, every accepted request is a completed one.         *)
LEMMA AllCompleted ==
    ASSUME Inv, FrontendInv, loop = "stopped"
    PROVE  /\ accepted = {trace[i] : i \in 1..Len(trace)}
           /\ accepted = Completed
<1>1. /\ trace \in Seq(Reqs) /\ Len(trace) \in Nat /\ idx \in 1..Len(trace) + 1
      /\ idx > Len(trace) /\ completed >= Len(trace)
  BY TraceFacts DEF FrontendInv, IsFinished, TraceSent
<1>2. idx - 1 = Len(trace)
  BY <1>1
<1>3. accepted = {trace[i] : i \in 1..Len(trace)}
  BY <1>2 DEF FrontendInv
<1>4. IsFiniteSet(accepted) /\ Cardinality(accepted) <= Len(trace)
  <2> DEFINE f == [i \in 1..Len(trace) |-> trace[i]]
  <2>1. f \in Surjection(1..Len(trace), accepted)
    BY <1>3 DEF Surjection
  <2>2. ExistsSurjection(1..Len(trace), accepted)
    BY <2>1 DEF ExistsSurjection
  <2>3. IsFiniteSet(1..Len(trace)) /\ Cardinality(1..Len(trace)) = Len(trace)
    <3> DEFINE n == Len(trace)
    <3>1. n \in Nat
      BY <1>1
    <3> HIDE DEF n
    <3>2. IsFiniteSet(1..n) /\ Cardinality(1..n) = IF 1 > n THEN 0 ELSE n - 1 + 1
      BY <3>1, FS_Interval
    <3>3. IsFiniteSet(1..n) /\ Cardinality(1..n) = n
      BY <3>1, <3>2
    <3> QED
      BY <3>3 DEF n
  <2> HIDE DEF f
  <2> QED
    BY <1>1, <2>1, <2>3, FS_Surjection
<1>5. Completed \in SUBSET accepted
  BY PlacesByChannel DEF Inv, Completed, Held
<1>6. /\ Cardinality(Completed) <= Cardinality(accepted)
      /\ Cardinality(accepted) = Cardinality(Completed) => accepted = Completed
  BY <1>4, <1>5, FS_Subset
<1>7. Cardinality(accepted) \in Nat /\ Cardinality(Completed) \in Nat
  BY <1>4, FS_CardinalityType DEF FrontendInv
<1>8. Cardinality(accepted) = Cardinality(Completed)
  BY <1>1, <1>4, <1>6, <1>7 DEF FrontendInv
<1> QED
  BY <1>3, <1>6, <1>8

(* Then no controller has anything left.                                   *)
LEMMA NothingLeft ==
    ASSUME Inv, accepted = Completed, NEW ch \in Channels
    PROVE  /\ Idle(ch) /\ delay[ch] = 0
           /\ done[ch] = {r \in accepted : ChannelOf[r] = ch}
<1>0. /\ queue[ch] \in Seq(Reqs) /\ opq[ch] \in Seq(Ops) /\ delay[ch] \in Nat
  BY DEF Inv, Shape, TypeOK, ControllerTypeOK
<1>1. /\ accepted = UNION {Held(c) : c \in Channels}
      /\ \A c \in Channels : PlacedAt(c)
  BY PlacesByChannel DEF Inv
<1>2. \A r \in Held(ch) : r \in done[ch]
  <2> TAKE r \in Held(ch)
  <2>1. r \in Completed /\ ChannelOf[r] = ch
    BY <1>1 DEF PlacedAt
  <2>2. \A c \in Channels : r \in done[c] => c = ch
    BY <1>1, <2>1 DEF PlacedAt, Held
  <2> QED
    BY <2>1, <2>2 DEF Completed
<1>3. done[ch] = {r \in accepted : ChannelOf[r] = ch}
  <2>1. \A r \in accepted : ChannelOf[r] = ch => r \in Held(ch)
    BY <1>1 DEF PlacedAt
  <2>2. \A r \in done[ch] : r \in accepted /\ ChannelOf[r] = ch
    BY <1>1 DEF PlacedAt, Held
  <2> QED
    BY <1>2, <2>1, <2>2
<1>4. Elements(queue[ch]) = {} /\ InService(ch) = {}
  BY <1>1, <1>2 DEF PlacedAt, Held
<1>5. queue[ch] = <<>>
  <2>1. 1 \in 1..Len(queue[ch]) => FALSE
    BY <1>4 DEF Elements
  <2>2. Len(queue[ch]) = 0
    BY <1>0, <2>1
  <2> QED
    BY <1>0, <2>2
<1>6. opq[ch] = <<>>
  BY <1>4, ServingType DEF Inv
<1>7. delay[ch] = 0
  BY <1>0, <1>6 DEF Inv, DelayBelongsToHead
<1> QED
  BY <1>3, <1>5, <1>6, <1>7 DEF Idle

(* What holds of every list of expansions ...                              *)
BooksInv == Inv /\ RestsOfExpansions /\ IssuesCounted /\ FrontendInv

LEMMA InitBooks == SystemInit => BooksInv
BY InitInv, InitRests, InitIssues, InitFrontend DEF SystemInit, BooksInv

LEMMA StepBooks == BooksInv /\ [SystemNext]_sysVars => BooksInv' /\ [Next]_vars
<1> SUFFICES ASSUME BooksInv, [SystemNext]_sysVars PROVE BooksInv' /\ [Next]_vars
  OBVIOUS
<1>1. [Next]_vars
  BY SystemStep DEF BooksInv
<1>2. Inv'
  BY <1>1, StepInv DEF BooksInv
<1>3. RestsOfExpansions' /\ IssuesCounted'
  BY <1>1, StepRests, StepIssues DEF BooksInv
<1>4. FrontendInv'
  BY StepFrontend DEF BooksInv
<1> QED
  BY <1>1, <1>2, <1>3, <1>4 DEF BooksInv

(* ... and of those that bracket their rows.                               *)
SystemInv == BooksInv /\ OpenRowsKnown

LEMMA InitSystem == SystemInit => SystemInv
BY InitBooks, InitOpenRows DEF SystemInit, SystemInv

LEMMA StepSystem ==
    ASSUME ExpansionsBracket
    PROVE  SystemInv /\ [SystemNext]_sysVars => SystemInv'
<1> SUFFICES ASSUME SystemInv, [SystemNext]_sysVars PROVE SystemInv'
  OBVIOUS
<1>1. BooksInv' /\ [Next]_vars
  BY StepBooks DEF SystemInv
<1>2. OpenRowsKnown'
  BY <1>1, StepOpenRows DEF SystemInv, BooksInv
<1> QED
  BY <1>1, <1>2 DEF SystemInv

LEMMA StoppedIsClean == SystemInv => StopsClean
<1> SUFFICES ASSUME SystemInv, loop = "stopped"
             PROVE  /\ accepted = {trace[i] : i \in 1..Len(trace)}
                    /\ \A ch \in Channels :
                         /\ Idle(ch) /\ delay[ch] = 0
                         /\ \A b \in Banks : open[ch][b] = {}
                         /\ \A c \in Counted : issued[ch][c] =
                              Cardinality(CommandsOf({r \in accepted : ChannelOf[r] = ch}, c))
  BY DEF StopsClean
<1>1. accepted = {trace[i] : i \in 1..Len(trace)} /\ accepted = Completed
  BY AllCompleted DEF SystemInv, BooksInv
<1>2. ASSUME NEW ch \in Channels
      PROVE  /\ Idle(ch) /\ delay[ch] = 0
             /\ \A b \in Banks : open[ch][b] = {}
             /\ \A c \in Counted : issued[ch][c] =
                  Cardinality(CommandsOf({r \in accepted : ChannelOf[r] = ch}, c))
  <2>1. /\ Idle(ch) /\ delay[ch] = 0
        /\ done[ch] = {r \in accepted : ChannelOf[r] = ch}
    BY <1>1, NothingLeft DEF SystemInv, BooksInv
  <2>2. \A b \in Banks : open[ch][b] = {}
    BY <2>1 DEF SystemInv, OpenRowsKnown, Idle
  <2>3. ASSUME NEW c \in Counted
        PROVE  issued[ch][c] = Cardinality(CommandsOf(done[ch], c))
    <3>1. InService(ch) = {} /\ done[ch] \subseteq Reqs
      BY <2>1 DEF SystemInv, BooksInv, Inv, Shape, TypeOK, ControllerTypeOK, Idle, InService, Serving
    <3>2. \A r \in Reqs : Len(Program[r]) \in Nat
      BY ControllerAssumption
    <3>3. \A r : Handled(ch, r) = IF r \in done[ch] THEN Len(Program[r]) ELSE 0
      BY <3>1 DEF Handled
    <3>4. ASSUME NEW x PROVE x \in IssuedFor(ch, c) <=> x \in CommandsOf(done[ch], c)
      <4>1. x \in CommandsOf(done[ch], c) <=>
              \E r \in done[ch] : \E i \in 1..Len(Program[r]) :
                  IsCommand(Program[r][i], c) /\ x = <<r, i>>
        BY DEF CommandsOf
      <4>2. x \in IssuedFor(ch, c) <=>
              \E r \in Reqs : \E i \in Nat :
                  i \in 1..Handled(ch, r) /\ IsCommand(Program[r][i], c) /\ x = <<r, i>>
        BY DEF IssuedFor
      <4>3. \A r \in Reqs : r \notin done[ch] => 1..Handled(ch, r) = {}
        BY <3>3
      <4>4. \A r \in done[ch] : Handled(ch, r) = Len(Program[r]) /\ r \in Reqs
        BY <3>1, <3>3
      <4>5. \A r \in done[ch] : \A i \in 1..Len(Program[r]) : i \in Nat
        BY <3>1, <3>2
      <4> QED
        BY <4>1, <4>2, <4>3, <4>4, <4>5
    <3>5. IssuedFor(ch, c) = CommandsOf(done[ch], c)
      BY <3>4
    <3> QED
      BY <3>5 DEF SystemInv, BooksInv, IssuesCounted
  <2> QED
    BY <2>1, <2>2, <2>3
<1> QED
  BY <1>1, <1>2

(* When the simulation stops nothing is left behind, whatever the trace,   *)
(* the clock ratios, the queue size and the refusals on the way: every     *)
(* bank is closed, and every command of every expansion was issued, once.  *)
THEOREM SimulationStopsClean == SystemSpec => []StopsClean
<1>1. SystemInv /\ [SystemNext]_sysVars => SystemInv'
  BY ExpansionsBehave, StepSystem
<1> QED
  BY <1>1, InitSystem, StoppedIsClean, PTL DEF SystemSpec

(* The row protocol of a single expansion is the protocol of the device:   *)
(* no interleaving of channels and requests puts another request's rows in *)
(* a command's way.                                                        *)
LEMMA RowsNow ==
    ASSUME ExpansionsBracket, ExpansionsCompute, SystemInv
    PROVE  \A ch \in Channels :
             /\ Issues(ch, "ACT") =>
                  \A b \in Banks : OnPath(b, HeadOp(ch).addr.path) => open[ch][b] = {}
             /\ Issues(ch, "PRE") =>
                  \A b \in Banks : OnPath(b, HeadOp(ch).addr.path) =>
                      open[ch][b] = {HeadOp(ch).addr.row}
             /\ \A c \in {"MAC", "SPM"} : Issues(ch, c) /\ UsesOpenRow(HeadOp(ch)) =>
                  \A b \in Banks : open[ch][b] = {HeadOp(ch).addr.row}
BY IssuedOnOwnRows DEF SystemInv, BooksInv, ExpansionsCompute

(* Every ACT meets closed banks, every PRE the row it closes, and MAC and  *)
(* SPM the row they address, in every bank of their channel.               *)
THEOREM RowsServe == SystemSpec => RowsServeTheirRequest
<1>1. SystemInv /\ [SystemNext]_sysVars =>
        /\ [\A ch \in Channels :
              /\ Issues(ch, "ACT") =>
                   \A b \in Banks : OnPath(b, HeadOp(ch).addr.path) => open[ch][b] = {}
              /\ Issues(ch, "PRE") =>
                   \A b \in Banks : OnPath(b, HeadOp(ch).addr.path) =>
                       open[ch][b] = {HeadOp(ch).addr.row}]_vars
        /\ [\A ch \in Channels, c \in {"MAC", "SPM"} :
              Issues(ch, c) /\ UsesOpenRow(HeadOp(ch)) =>
                  \A b \in Banks : open[ch][b] = {HeadOp(ch).addr.row}]_sysVars
  BY ExpansionsBehave, RowsNow
<1>2. SystemInv /\ [SystemNext]_sysVars => SystemInv'
  BY ExpansionsBehave, StepSystem
<1> QED
  BY <1>1, <1>2, InitSystem, PTL
  DEF SystemSpec, RowsServeTheirRequest, RowsBracketed, ComputesOnOpenRow

-----------------------------------------------------------------------------
(* The page-hit statistics.                                                *)
LEMMA NumberType ==
    ASSUME NEW s \in Seq(Ops), NEW c
    PROVE  Number(s, c) \in Nat
<1> DEFINE n == Len(s)
           S == {i \in 1..Len(s) : s[i].kind = "Command" /\ s[i].command = c}
<1>1. n \in Nat /\ S \in SUBSET (1..n)
  OBVIOUS
<1> HIDE DEF n, S
<1>2. IsFiniteSet(1..n)
  BY <1>1, FS_Interval
<1>3. IsFiniteSet(S)
  BY <1>1, <1>2, FS_Subset
<1>4. Cardinality(S) \in Nat
  BY <1>3, FS_CardinalityType
<1> QED
  BY <1>4 DEF Number, S

LEMMA NumberTail ==
    ASSUME NEW s \in Seq(Ops), s # <<>>, NEW c
    PROVE  Number(s, c) = Number(Tail(s), c) + IF IsCommand(Head(s), c) THEN 1 ELSE 0
<1> DEFINE Is(i) == s[i].kind = "Command" /\ s[i].command = c
           n == Len(s)
           S == {i \in 1..Len(s) : Is(i)}
           T == {i \in 1..Len(Tail(s)) : Tail(s)[i].kind = "Command" /\ Tail(s)[i].command = c}
           f == [i \in T |-> i + 1]
<1>1. /\ n \in Nat /\ n > 0 /\ Len(Tail(s)) = n - 1 /\ Head(s) = s[1]
      /\ \A i \in 1..n - 1 : Tail(s)[i] = s[i + 1]
  OBVIOUS
<1>2. \A i : i \in T <=> i \in 1..n - 1 /\ Is(i + 1)
  BY <1>1
<1>3. \A i : i \in S <=> i \in 1..n /\ Is(i)
  OBVIOUS
<1>4. Number(s, c) = Cardinality(S) /\ Number(Tail(s), c) = Cardinality(T)
  BY DEF Number
<1>5. IsCommand(Head(s), c) <=> Is(1)
  BY <1>1 DEF IsCommand
<1> HIDE DEF Is, n, S, T
<1>6. IsFiniteSet(S) /\ IsFiniteSet(T)
  <2>1. IsFiniteSet(1..n)
    BY <1>1, FS_Interval
  <2>2. S \in SUBSET (1..n) /\ T \in SUBSET (1..n)
    BY <1>1, <1>2, <1>3
  <2> QED
    BY <2>1, <2>2, FS_Subset
<1>7. Cardinality(S \ {1}) = Cardinality(T)
  <2>1. ASSUME NEW i \in T PROVE i \in Nat /\ f[i] = i + 1 /\ f[i] \in S \ {1}
    <3>1. i \in 1..n - 1 /\ Is(i + 1) /\ i + 1 \in 1..n /\ i + 1 # 1
      BY <1>1, <1>2
    <3> QED
      BY <1>3, <3>1
  <2>2. ASSUME NEW j \in S \ {1} PROVE \E i \in T : f[i] = j
    <3>1. j \in 1..n /\ j # 1 /\ Is(j)
      BY <1>3
    <3>2. j - 1 \in 1..n - 1 /\ (j - 1) + 1 = j
      BY <1>1, <3>1
    <3>3. j - 1 \in T
      BY <1>2, <3>1, <3>2
    <3> QED
      BY <2>1, <3>2, <3>3
  <2>3. \A i, j \in T : f[i] = f[j] => i = j
    <3> TAKE i, j \in T
    <3>1. i \in Nat /\ j \in Nat /\ f[i] = i + 1 /\ f[j] = j + 1
      BY <2>1
    <3> HIDE DEF f
    <3> QED
      BY <3>1
  <2>4. f \in [T -> S \ {1}]
    BY <2>1
  <2> HIDE DEF f
  <2>5. f \in Bijection(T, S \ {1})
    BY <2>2, <2>3, <2>4 DEF Bijection, Injection, Surjection, IsInjective
  <2>6. ExistsBijection(T, S \ {1})
    BY <2>5 DEF ExistsBijection
  <2> QED
    BY <1>6, <2>6, FS_Bijection
<1>8. Cardinality(S \ {1}) = IF 1 \in S THEN Cardinality(S) - 1 ELSE Cardinality(S)
  BY <1>6, FS_RemoveElement
<1>9. 1 \in S <=> Is(1)
  BY <1>1, <1>3
<1>10. Cardinality(S) \in Nat /\ Cardinality(T) \in Nat
  BY <1>6, FS_CardinalityType
<1> QED
  BY <1>4, <1>5, <1>7, <1>8, <1>9, <1>10

(* Counts that match add up.                                               *)
PageCounters == {"qk_rows", "qk_page_hits", "pv_rows", "pv_page_hits", "max_voc_sum"}

LEMMA CountersAdd ==
    ASSUME NEW n \in [PageCommands -> Nat], NEW m \in [PageCommands -> Nat],
           NEW s \in [StatKeys -> Nat], NEW t \in [StatKeys -> Nat],
           PageCounters \subseteq StatKeys, TotalBanks \in Nat,
           CountersMatch(n, s), CountersMatch(m, t)
    PROVE  CountersMatch([c \in PageCommands |-> n[c] + m[c]], [k \in StatKeys |-> s[k] + t[k]])
<1> SUFFICES ASSUME Cfg.enable_esdm
             PROVE  CountersMatch([c \in PageCommands |-> n[c] + m[c]],
                                  [k \in StatKeys |-> s[k] + t[k]])
  BY DEF CountersMatch
<1> DEFINE Rows2(x) == (IF Cfg.enable_qk_act_pre THEN x.qk_rows ELSE 0)
                     + (IF Cfg.enable_act_spm_pre THEN x.pv_rows ELSE 0)
           n2 == [c \in PageCommands |-> n[c] + m[c]]
           s2 == [k \in StatKeys |-> s[k] + t[k]]
<1>1. \A c \in PageCommands : n[c] \in Nat /\ m[c] \in Nat /\ n2[c] = n[c] + m[c]
  OBVIOUS
<1>2. \A k \in PageCounters : s[k] \in Nat /\ t[k] \in Nat /\ s2[k] = s[k] + t[k]
  OBVIOUS
<1>3. /\ Rows2(s) \in Nat /\ Rows2(t) \in Nat /\ Rows2(s2) = Rows2(s) + Rows2(t)
  BY <1>2 DEF PageCounters
<1>4. \A a, b \in Nat : TotalBanks * (a + b) = TotalBanks * a + TotalBanks * b
  <2> DEFINE banks == TotalBanks
  <2>1. banks \in Nat
    OBVIOUS
  <2> HIDE DEF banks
  <2>2. \A a, b \in Nat : banks * (a + b) = banks * a + banks * b
    BY <2>1, Z3
  <2> QED
    BY <2>2 DEF banks
<1>5. TotalBanks * Rows2(s2) = TotalBanks * Rows2(s) + TotalBanks * Rows2(t)
  BY <1>3, <1>4
<1>6. /\ n["MAC"] = s.qk_rows + s.qk_page_hits /\ n["SPM"] = s.pv_rows
      /\ s.pv_rows + s.pv_page_hits = s.max_voc_sum
      /\ n["ACT"] = TotalBanks * Rows2(s) /\ n["PRE"] = TotalBanks * Rows2(s)
  BY DEF CountersMatch
<1>7. /\ m["MAC"] = t.qk_rows + t.qk_page_hits /\ m["SPM"] = t.pv_rows
      /\ t.pv_rows + t.pv_page_hits = t.max_voc_sum
      /\ m["ACT"] = TotalBanks * Rows2(t) /\ m["PRE"] = TotalBanks * Rows2(t)
  BY DEF CountersMatch
<1> HIDE DEF n2, s2, Rows2
<1>8. /\ n2["MAC"] = s2.qk_rows + s2.qk_page_hits /\ n2["SPM"] = s2.pv_rows
      /\ s2.pv_rows + s2.pv_page_hits = s2.max_voc_sum
  BY <1>1, <1>2, <1>6, <1>7 DEF PageCommands, PageCounters
<1>9. n2["ACT"] = TotalBanks * Rows2(s2) /\ n2["PRE"] = TotalBanks * Rows2(s2)
  BY <1>1, <1>5, <1>6, <1>7 DEF PageCommands
<1>10. CountersMatch(n2, s2)
  BY <1>8, <1>9 DEF CountersMatch, Rows2
<1> QED
  BY <1>10 DEF n2, s2

LEMMA PageFacts ==
    /\ PageCounters \subseteq StatKeys /\ TotalBanks \in Nat
    /\ \A c \in PageCommands : c \in Counted
<1>2. TotalBanks \in Nat
  BY BanksNat
<1>3. StatKeys = ExpansionStats /\ PageCommands \subseteq Commands
  BY GeometryAssumption
<1> QED
  BY <1>2, <1>3 DEF PageCounters, ExpansionStats, PageCommands, Counted

(* The commands of a channel that are issued or still in its operations.   *)
Booked(ch) == [c \in PageCommands |-> issued[ch][c] + Number(opq[ch], c)]

LEMMA BookedType ==
    ASSUME Inv, NEW ch \in Channels
    PROVE  Booked(ch) \in [PageCommands -> Nat]
<1>1. \A c \in PageCommands : issued[ch][c] \in Nat /\ Number(opq[ch], c) \in Nat
  <2> TAKE c \in PageCommands
  <2>1. issued[ch] \in [Counted -> Nat] /\ opq[ch] \in Seq(Ops)
    BY DEF Inv, Shape, TypeOK, ControllerTypeOK
  <2>2. issued[ch][c] \in Nat
    BY <2>1, PageFacts
  <2> QED
    BY <2>1, <2>2, NumberType
<1>2. \A c \in PageCommands : issued[ch][c] + Number(opq[ch], c) \in Nat
  BY <1>1
<1> QED
  BY <1>2 DEF Booked

LEMMA InitPages == Init => StatsMatchCommands
<1> SUFFICES ASSUME Init, NEW ch \in Channels PROVE CountersMatch(Booked(ch), stats[ch])
  BY DEF StatsMatchCommands, Booked
<1>1. \A c \in PageCommands : Booked(ch)[c] = 0
  <2>1. \A c \in PageCommands : issued[ch][c] = 0
    BY PageFacts DEF Init, ControllerInit
  <2>2. \A c : Number(opq[ch], c) = 0
    <3>1. opq[ch] = <<>>
      BY DEF Init, ControllerInit
    <3>2. \A c : {i \in 1..Len(opq[ch]) : opq[ch][i].kind = "Command" /\ opq[ch][i].command = c} = {}
      BY <3>1
    <3> QED
      BY <3>2, FS_EmptySet DEF Number
  <2> QED
    BY <2>1, <2>2 DEF Booked
<1>2. \A k \in PageCounters : stats[ch][k] = 0
  BY PageFacts DEF Init, ControllerInit
<1>3. TotalBanks * 0 = 0
  <2> DEFINE banks == TotalBanks
  <2>1. banks \in Nat
    BY PageFacts
  <2> HIDE DEF banks
  <2>2. banks * 0 = 0
    BY <2>1
  <2> QED
    BY <2>2 DEF banks
<1> QED
  BY <1>1, <1>2, <1>3 DEF CountersMatch, PageCommands, PageCounters

(* A tick books the commands of the expansion it loads, and moves one of   *)
(* those booked from the operations to the issued ones at most.            *)
LEMMA TickBooks ==
    ASSUME Inv, RestsOfExpansions, NEW ch \in Channels, ~Idle(ch), ControllerTick(ch),
           NEW c \in PageCommands
    PROVE  issued'[ch][c] + Number(opq'[ch], c) = issued[ch][c] + Number(Pending(ch), c)
<1> DEFINE s == Pending(ch)
<1>1. /\ s \in Seq(Ops) /\ s # <<>> /\ HeadOp(ch) = Head(s)
  BY PendingOps DEF Inv, HeadOp
<1>2. c \in Counted /\ issued[ch][c] \in Nat
  BY PageFacts DEF Inv, Shape, TypeOK, ControllerTypeOK
<1>3. issued'[ch][c] = issued[ch][c] + IF Pop(ch) /\ IsCommand(HeadOp(ch), c) THEN 1 ELSE 0
  BY <1>2, TickCounts
<1>4. opq \in [Channels -> Seq(Ops)]
  BY DEF Inv, Shape, TypeOK, ControllerTypeOK
<1>5. (Pop(ch) => opq'[ch] = Tail(s)) /\ (Keep(ch) => opq'[ch] = s)
  BY <1>4 DEF Pop, Keep
<1>6. Pop(ch) \/ Keep(ch)
  BY TickQueues DEF Inv
<1> HIDE DEF s
<1>7. Tail(s) \in Seq(Ops)
  BY <1>1
<1>8. /\ Number(s, c) \in Nat /\ Number(Tail(s), c) \in Nat
      /\ Number(s, c) = Number(Tail(s), c) + IF IsCommand(Head(s), c) THEN 1 ELSE 0
  BY <1>1, <1>7, NumberType, NumberTail
<1>9. issued'[ch][c] + Number(opq'[ch], c) = issued[ch][c] + Number(s, c)
  <2>1. CASE Pop(ch)
    <3>1. opq'[ch] = Tail(s)
      BY <1>5, <2>1
    <3> QED
      BY <1>1, <1>2, <1>3, <1>8, <2>1, <3>1
  <2>2. CASE ~Pop(ch)
    <3>1. opq'[ch] = s
      BY <1>5, <1>6, <2>2
    <3> QED
      BY <1>2, <1>3, <1>8, <2>2, <3>1
  <2> QED
    BY <2>1, <2>2
<1> QED
  BY <1>9 DEF s

LEMMA TickPages ==
    ASSUME ExpansionsCount, Inv, RestsOfExpansions, StatsMatchCommands,
           NEW ch \in Channels, ~Idle(ch), ControllerTick(ch)
    PROVE  CountersMatch(Booked(ch)', stats'[ch])
<1> DEFINE before == Booked(ch)
<1>0. /\ stats \in [Channels -> [StatKeys -> Nat]]
      /\ before \in [PageCommands -> Nat] /\ CountersMatch(before, stats[ch])
  BY BookedType DEF Inv, Shape, TypeOK, ControllerTypeOK, StatsMatchCommands, Booked
<1>1. Booked(ch)' = [c \in PageCommands |-> issued[ch][c] + Number(Pending(ch), c)]
  BY TickBooks DEF Booked
<1>2. Load(ch)
  BY TickQueues DEF Inv
<1>3. CASE ~Loads(ch)
  <2>1. stats' = stats /\ Pending(ch) = opq[ch]
    BY <1>2, <1>3 DEF Load, Pending
  <2> QED
    BY <1>0, <1>1, <2>1 DEF Booked
<1>4. CASE Loads(ch)
  <2>1. PICK r : r = Head(queue[ch])
    OBVIOUS
  <2>2. r \in Reqs
    BY <1>4, <2>1 DEF Loads, Inv, Shape, TypeOK, ControllerTypeOK
  <2>3. opq[ch] = <<>> /\ Pending(ch) = Program[r]
    BY <1>4, <2>1 DEF Loads, Pending
  <2> DEFINE more == [c \in PageCommands |-> Number(Program[r], c)]
  <2>4. more \in [PageCommands -> Nat] /\ CountersMatch(more, StatsDelta[r])
    BY <2>2, NumberType, ControllerAssumption DEF ExpansionsCount
  <2>5. StatsDelta[r] \in [StatKeys -> Nat]
    BY <2>2, ControllerAssumption
  <2>6. Booked(ch)' = [c \in PageCommands |-> before[c] + more[c]]
    <3>1. \A c \in PageCommands : before[c] = issued[ch][c]
      <4> TAKE c \in PageCommands
      <4>1. Number(opq[ch], c) = 0
        <5>1. {i \in 1..Len(opq[ch]) : opq[ch][i].kind = "Command" /\ opq[ch][i].command = c} = {}
          BY <2>3
        <5> QED
          BY <5>1, FS_EmptySet DEF Number
      <4>2. issued[ch][c] \in Nat
        BY PageFacts DEF Inv, Shape, TypeOK, ControllerTypeOK
      <4> QED
        BY <4>1, <4>2 DEF Booked
    <3> QED
      BY <1>1, <2>3, <3>1
  <2>7. stats'[ch] = [k \in StatKeys |-> stats[ch][k] + StatsDelta[r][k]]
    BY <1>0, <1>2, <1>4, <2>1 DEF Load
  <2> HIDE DEF before, more
  <2>8. stats[ch] \in [StatKeys -> Nat]
    BY <1>0
  <2>9. CountersMatch([c \in PageCommands |-> before[c] + more[c]],
                      [k \in StatKeys |-> stats[ch][k] + StatsDelta[r][k]])
    BY <1>0, <2>4, <2>5, <2>8, PageFacts, CountersAdd
  <2> QED
    BY <2>6, <2>7, <2>9
<1> QED
  BY <1>3, <1>4

LEMMA StepPages ==
    ASSUME ExpansionsCount, Inv, RestsOfExpansions, StatsMatchCommands, [Next]_vars
    PROVE  StatsMatchCommands'
<1> SUFFICES ASSUME NEW d \in Channels PROVE CountersMatch(Booked(d)', stats'[d])
  BY DEF StatsMatchCommands, Booked
<1>1. CASE opq'[d] = opq[d] /\ issued'[d] = issued[d] /\ stats'[d] = stats[d]
  <2>1. Booked(d)' = Booked(d)
    BY <1>1 DEF Booked
  <2> QED
    BY <1>1, <2>1 DEF StatsMatchCommands, Booked
<1>2. CASE TickController
  <2>1. PICK ch \in Channels : ControllerTick(ch)
    BY <1>2, ChannelsAssumption DEF TickController, Inv, Shape, TypeOK
  <2>2. CASE d = ch /\ ~Idle(ch)
    BY <2>1, <2>2, TickPages
  <2>3. CASE Idle(ch)
    BY <1>1, <2>1, <2>3, IdleRests DEF memoryVars, controllerVars
  <2>4. CASE d # ch /\ ~Idle(ch)
    <3>1. opq'[d] = opq[d]
      BY <2>1, <2>4, TickOps DEF Inv
    <3>2. issued'[d] = issued[d]
      BY <2>1, <2>4, TickCounts, PageFacts DEF PageCommands
    <3>3. stats'[d] = stats[d]
      <4>1. Load(ch) /\ stats \in [Channels -> [StatKeys -> Nat]]
        BY <2>1, <2>4, TickQueues DEF Inv, Shape, TypeOK, ControllerTypeOK
      <4> QED
        BY <2>4, <4>1 DEF Load
    <3> QED
      BY <1>1, <3>1, <3>2, <3>3
  <2> QED
    BY <2>2, <2>3, <2>4
<1>3. CASE ~TickController
  <2>1. opq' = opq /\ issued' = issued /\ stats' = stats
    BY <1>3 DEF Next, Environment, MemorySend, MemoryPrioritySend, Send, PrioritySend, TickDram,
                vars, memoryVars, controllerVars
  <2> QED
    BY <1>1, <2>1
<1> QED
  BY <1>2, <1>3

(* The page-hit statistics, counted when a request is expanded, agree at   *)
(* every moment with the commands issued for them ticks later and those    *)
(* still to come.                                                          *)
THEOREM StatisticsMatch == SystemSpec => []StatsMatchCommands
<1>1. SystemInit => StatsMatchCommands
  BY InitPages DEF SystemInit
<1>2. BooksInv /\ StatsMatchCommands /\ [SystemNext]_sysVars => StatsMatchCommands'
  BY ExpansionsBehave, StepBooks, StepPages DEF BooksInv
<1> QED
  BY <1>1, <1>2, InitBooks, StepBooks, PTL DEF SystemSpec

-----------------------------------------------------------------------------
(* The refinement of EsefService.                                          *)
Left(ch) == IF opq[ch] = <<>> THEN <<>> ELSE StagesLeft(opq[ch], TokenStages[Serving(ch)])

LEMMA ExceptSame ==
    ASSUME NEW S, NEW f, f = [c \in S |-> f[c]], NEW x
    PROVE  [f EXCEPT ![x] = f[x]] = f
OBVIOUS

LEMMA RestPlaces ==
    ASSUME NEW n \in Nat, NEW m \in 1..n, NEW k \in Nat, k = n - m
    PROVE  k + 1 \in Int /\ n \in Int /\ k + 1 \in 1..n /\ n - (k + 1) + 1 = m
OBVIOUS

(* A tail of a sequence is what the sequence holds from some place on.     *)
RestOf(s, p, k) == \A i \in 1..Len(s) : s[i] = p[k + i]

LEMMA RestIsFrom ==
    ASSUME NEW S, NEW p \in Seq(S), NEW s \in Seq(S), NEW k \in Nat,
           Len(s) \in 1..Len(p), k = Len(p) - Len(s),
           RestOf(s, p, k)
    PROVE  s = From(p, k + 1) /\ k + 1 \in 1..Len(p)
<1> DEFINE n == Len(p)  m == Len(s)  t == From(p, k + 1)
<1>1. n \in Nat /\ m \in 1..n /\ k = n - m
  OBVIOUS
<1>2. \A i \in k + 1..n : p[i] \in S
  <2>1. \A i \in k + 1..n : i \in 1..n
    BY <1>1
  <2> QED
    BY <2>1, ElementOfSeq
<1> HIDE DEF n, m, t
<1>3. k + 1 \in Int /\ n \in Int /\ k + 1 \in 1..n /\ n - (k + 1) + 1 = m
  BY <1>1, RestPlaces
<1>4. /\ t \in Seq(S) /\ Len(t) = m
      /\ \A i \in 1..m : t[i] = p[(k + 1) + i - 1]
  <2> DEFINE a == k + 1
  <2>1. a \in Int /\ a <= n /\ n - a + 1 = m
    BY <1>1, <1>3
  <2>2. \A i \in a..n : p[i] \in S
    BY <1>2
  <2>3. t = SubSeq(p, a, n)
    BY DEF t, From, n
  <2> HIDE DEF a
  <2>4. /\ SubSeq(p, a, n) \in Seq(S)
        /\ Len(SubSeq(p, a, n)) = IF a <= n THEN n - a + 1 ELSE 0
        /\ \A i \in 1..n - a + 1 : SubSeq(p, a, n)[i] = p[a + i - 1]
    BY <1>3, <2>1, <2>2, SubSeqProperties
  <2>5. t \in Seq(S) /\ Len(t) = m /\ \A i \in 1..m : t[i] = p[a + i - 1]
    BY <2>1, <2>3, <2>4
  <2> QED
    BY <2>5 DEF a
<1>5. \A i \in 1..m : s[i] = t[i]
  <2>1. \A i \in 1..m : s[i] = p[k + i]
    BY Zenon DEF m, RestOf
  <2> SUFFICES ASSUME NEW i \in 1..m PROVE s[i] = t[i]
    BY Zenon
  <2>2. (k + 1) + i - 1 = k + i
    BY <1>1
  <2>3. t[i] = p[(k + 1) + i - 1]
    BY <1>4, Zenon
  <2> QED
    BY <2>1, <2>2, <2>3, Zenon
<1>6. s = t
  BY <1>4, <1>5, SeqEqual DEF m
<1> QED
  BY <1>3, <1>6 DEF t, n

(* What is pending is the rest of the expansion, so the stages left are    *)
(* those left from there on.                                               *)
LEMMA PendingStages ==
    ASSUME Inv, RestsOfExpansions, NEW ch \in Channels, ~Idle(ch), NEW r, r = Current(ch)
    PROVE  \E k \in 1..Len(Program[r]) :
              /\ Pending(ch) = From(Program[r], k)
              /\ Len(Pending(ch)) = Len(Program[r]) - k + 1
              /\ Loads(ch) => k = 1
<1> DEFINE p == Program[r]
           s == Pending(ch)
<1>1. /\ p \in Seq(Ops) /\ Len(p) \in Nat /\ Len(s) \in 1..Len(p)
      /\ Handled(ch, r) = Len(p) - Len(s)
      /\ \A i \in 1..Len(s) : s[i] = p[Handled(ch, r) + i]
  BY PendingIsRest
<1>2. s \in Seq(Ops)
  BY PendingOps DEF Inv
<1>3. Loads(ch) => s = p
  BY DEF Pending, Current
<1> DEFINE h == Len(p) - Len(s)
<1>4. h \in Nat /\ h + 1 \in 1..Len(p) /\ (Loads(ch) => h = 0)
  BY <1>1, <1>3
<1>5. RestOf(s, p, h)
  BY <1>1 DEF RestOf
<1> HIDE DEF p, s
<1>6. s = From(p, h + 1)
  <2> HIDE DEF h
  <2>1. h = Len(p) - Len(s)
    BY DEF h
  <2>2. p \in Seq(Ops) /\ Len(s) \in 1..Len(p) /\ h \in Nat
    BY <1>1, <1>4, Zenon
  <2> QED
    BY <1>2, <1>5, <2>1, <2>2, RestIsFrom
<1>7. Len(s) = Len(p) - (h + 1) + 1
  BY <1>1
<1> QED
  BY <1>4, <1>6, <1>7 DEF p, s

(* One tick of a controller is a step of its service, or none.             *)
LEMMA TickServes ==
    ASSUME ExpansionsStaged, Inv, RestsOfExpansions, NEW ch \in Channels, ~Idle(ch),
           ControllerTick(ch), NEW r, r = Current(ch)
    PROVE  \/ /\ Loads(ch) /\ Serving(ch) = NoReq /\ queue[ch] # <<>> /\ r = Head(queue[ch])
              /\ queue'[ch] = Tail(queue[ch])
              /\ Serving(ch)' = r /\ done' = done
              /\ \/ Left(ch)' = TokenStages[r]
                 \/ TokenStages[r] # <<>> /\ Left(ch)' = Tail(TokenStages[r])
           \/ /\ queue'[ch] = queue[ch] /\ Serving(ch) = r /\ Serving(ch)' = r /\ done' = done
              /\ Left(ch)' = Left(ch) \/ (Left(ch) # <<>> /\ Left(ch)' = Tail(Left(ch)))
           \/ /\ queue'[ch] = queue[ch] /\ Serving(ch) = r /\ Serving(ch)' = NoReq
              /\ done' = [done EXCEPT ![ch] = @ \cup {r}]
              /\ Left(ch) = <<>> /\ Left(ch)' = <<>>
<1> DEFINE p == Program[r]
           s == Pending(ch)
           st == TokenStages[r]
<1>1. /\ r \in Reqs /\ s \in Seq(Ops) /\ s # <<>> /\ WellFormed(s) /\ HeadOp(ch) = Head(s)
      /\ p \in Seq(Ops) /\ Len(p) \in Nat
  BY PendingOps, ControllerAssumption DEF Inv, HeadOp
<1>2. PICK k \in 1..Len(p) : s = From(p, k) /\ Len(s) = Len(p) - k + 1 /\ (Loads(ch) => k = 1)
  BY PendingStages
<1>3. /\ Len(p) > 1 /\ StagesLeft(p, st) = st
      /\ \A j \in 1..(Len(p) - 1) :
            \/ StagesLeft(From(p, j + 1), st) = StagesLeft(From(p, j), st)
            \/ /\ StagesLeft(From(p, j), st) # <<>>
               /\ StagesLeft(From(p, j + 1), st) = Tail(StagesLeft(From(p, j), st))
      /\ StagesLeft(From(p, Len(p)), st) = <<>>
  BY <1>1 DEF ExpansionsStaged, FollowsStages
<1>4. /\ queue \in [Channels -> Seq(Reqs)] /\ opq \in [Channels -> Seq(Ops)]
      /\ done \in [Channels -> SUBSET Reqs]
  BY DEF Inv, Shape, TypeOK, ControllerTypeOK
<1>5. /\ Load(ch)
      /\ \/ Keep(ch) /\ HeadOp(ch).kind # "Complete" /\ done' = done
         \/ Pop(ch) /\ HeadOp(ch).kind # "Complete" /\ done' = done
         \/ /\ Pop(ch) /\ HeadOp(ch).kind = "Complete"
            /\ done' = [done EXCEPT ![ch] = @ \cup {HeadOp(ch).request}]
  BY TickQueues DEF Inv
<1>6. /\ queue'[ch] = IF Loads(ch) THEN Tail(queue[ch]) ELSE queue[ch]
      /\ Keep(ch) => opq'[ch] = s
      /\ Pop(ch) => opq'[ch] = Tail(s)
  BY <1>4, <1>5 DEF Load, Keep, Pop
<1>7. /\ HeadOp(ch).kind = "Complete" => opq'[ch] = <<>> /\ HeadOp(ch).request = r
      /\ HeadOp(ch).kind # "Complete" => opq'[ch] # <<>> /\ Serving(ch)' = r
  BY TickOps, TickHandles DEF Inv
<1>8. HeadOp(ch).kind = "Complete" <=> k = Len(p)
  <2>1. Head(s) = s[1] /\ Len(s) \in Nat /\ 1 \in 1..Len(s)
    BY <1>1
  <2>2. HeadOp(ch).kind = "Complete" <=> 1 = Len(s)
    BY <1>1, <2>1 DEF WellFormed
  <2> HIDE DEF p, s
  <2> QED
    BY <1>1, <1>2, <2>2
<1>9. /\ ~Loads(ch) => opq[ch] = s /\ Serving(ch) = r /\ opq[ch] # <<>>
      /\ Loads(ch) => opq[ch] = <<>> /\ queue[ch] # <<>> /\ r = Head(queue[ch]) /\ Serving(ch) = NoReq
  BY DEF Pending, Current, Loads, Idle, Serving
<1> HIDE DEF p, s, st
<1>10. Left(ch) = IF Loads(ch) THEN <<>> ELSE StagesLeft(From(p, k), st)
  BY <1>2, <1>9 DEF Left, st
<1>11. CASE HeadOp(ch).kind = "Complete"
  <2>1. /\ opq'[ch] = <<>> /\ done' = [done EXCEPT ![ch] = @ \cup {r}]
        /\ ~Loads(ch) /\ k = Len(p)
    BY <1>2, <1>3, <1>5, <1>7, <1>8, <1>11
  <2>2. Left(ch) = <<>> /\ Left(ch)' = <<>> /\ Serving(ch)' = NoReq
    BY <1>3, <1>10, <2>1 DEF Left, Serving
  <2> QED
    BY <1>6, <1>9, <2>1, <2>2
<1>12. CASE HeadOp(ch).kind # "Complete"
  <2>1. opq'[ch] # <<>> /\ Serving(ch)' = r /\ done' = done /\ k \in 1..(Len(p) - 1)
    <3>1. k # Len(p)
      BY <1>8, <1>12
    <3> QED
      BY <1>1, <1>2, <1>5, <1>7, <1>12, <3>1
  <2>2. opq'[ch] = From(p, k) \/ opq'[ch] = From(p, k + 1)
    <3>1. Tail(From(p, k)) = From(p, k + 1)
      BY <1>1, <1>2, FromNext
    <3> QED
      BY <1>2, <1>5, <1>6, <3>1
  <2>3. Left(ch)' = StagesLeft(opq'[ch], st)
    BY <2>1 DEF Left, st
  <2>4. \/ Left(ch)' = StagesLeft(From(p, k), st)
        \/ /\ StagesLeft(From(p, k), st) # <<>>
           /\ Left(ch)' = Tail(StagesLeft(From(p, k), st))
    BY <1>3, <2>1, <2>2, <2>3
  <2>5. CASE Loads(ch)
    <3>1. From(p, k) = p
      BY <1>1, <1>2, <2>5, FromFirst
    <3>2. Left(ch)' = st \/ (st # <<>> /\ Left(ch)' = Tail(st))
      BY <1>3, <2>4, <3>1
    <3> QED
      BY <1>6, <1>9, <2>1, <2>5, <3>2 DEF st
  <2>6. CASE ~Loads(ch)
    <3>1. Left(ch) = StagesLeft(From(p, k), st)
      BY <1>10, <2>6
    <3> QED
      BY <1>6, <1>9, <2>1, <2>4, <2>6, <3>1
  <2> QED
    BY <2>5, <2>6
<1> QED
  BY <1>11, <1>12

LEMMA InitService == SystemInit => Service!Init
BY DEF SystemInit, Init, ControllerInit, Service!Init, Serving

(* The service sees nothing of a step that leaves the queues alone.        *)
LEMMA Unseen ==
    ASSUME UNCHANGED <<queue, opq, done>>
    PROVE  UNCHANGED Service!vars
BY DEF Service!vars, Serving

LEMMA ArrivalServed ==
    ASSUME Inv, NEW r \in Reqs, MemorySend(r)
    PROVE  [Service!Next]_(Service!vars)
<1>1. opq' = opq /\ done' = done
  BY DEF MemorySend, Send
<1>2. CASE ~WouldAccept(r)
  BY <1>1, <1>2, Unseen DEF MemorySend, Send
<1>3. CASE WouldAccept(r)
  <2>1. /\ queue' = [queue EXCEPT ![ChannelOf[r]] = Append(@, r)]
        /\ Len(queue[ChannelOf[r]]) < QueueSize
    BY <1>3 DEF MemorySend, Send, WouldAccept, HasRoom
  <2>2. Service!Arrive(r)
    BY <1>1, <2>1 DEF Service!Arrive, Serving
  <2> QED
    BY <2>2 DEF Service!Next
<1> QED
  BY <1>2, <1>3

LEMMA TickServed ==
    ASSUME ExpansionsStaged, Inv, RestsOfExpansions, NEW ch \in Channels, ControllerTick(ch)
    PROVE  [Service!Next]_(Service!vars)
<1>0. queue \in [Channels -> Seq(Reqs)] /\ done \in [Channels -> SUBSET Reqs]
  BY DEF Inv, Shape, TypeOK, ControllerTypeOK
<1>1. CASE Idle(ch)
  BY <1>1, IdleRests, Unseen DEF memoryVars, controllerVars
<1>2. CASE ~Idle(ch)
  <2>1. PICK r : r = Current(ch)
    OBVIOUS
  <2>2. r \in Reqs /\ NoReq \notin Reqs
    BY <1>2, <2>1, PendingOps, ControllerAssumption DEF Inv
  <2>3. \A c \in Channels : c # ch =>
             queue'[c] = queue[c] /\ Serving(c)' = Serving(c) /\ Left(c)' = Left(c)
    <3>1. PlacedAt(ch)
      BY PlacesByChannel DEF Inv
    <3>2. \A c \in Channels : c # ch => queue'[c] = queue[c] /\ opq'[c] = opq[c]
      BY <3>1, TickPlaces DEF Inv
    <3> QED
      BY <3>2 DEF Serving, Left
  <2>4. queue' = [queue EXCEPT ![ch] = queue'[ch]]
    <3>1. queue' \in [Channels -> Seq(Reqs)]
      <4>1. Load(ch)
        BY <1>2, TickQueues DEF Inv
      <4>2. CASE Loads(ch)
        <5>1. queue' = [queue EXCEPT ![ch] = Tail(@)]
          BY <4>1, <4>2 DEF Load
        <5>2. Tail(queue[ch]) \in Seq(Reqs)
          BY <1>0, <4>2 DEF Loads
        <5> QED
          BY <1>0, <5>1, <5>2
      <4> QED
        BY <1>0, <4>1, <4>2 DEF Load
    <3> QED
      BY <1>0, <2>3, <3>1
  <2> DEFINE cur == [c \in Channels |-> Serving(c)]
             todo == [c \in Channels |-> Left(c)]
  <2>5. /\ cur' = [cur EXCEPT ![ch] = Serving(ch)']
        /\ todo' = [todo EXCEPT ![ch] = Left(ch)']
    BY <2>3
  <2>6. cur[ch] = Serving(ch) /\ todo[ch] = Left(ch)
    OBVIOUS
  <2>7. Service!vars = <<queue, cur, todo, done>>
    BY Zenon DEF Service!vars, Left
  <2>12. /\ queue'[ch] = queue[ch] => queue' = queue
         /\ Serving(ch)' = Serving(ch) => cur' = cur
         /\ Left(ch)' = Left(ch) => todo' = todo
    <3>1. queue = [c \in Channels |-> queue[c]]
      BY <1>0
    <3>2. cur = [c \in Channels |-> cur[c]] /\ todo = [c \in Channels |-> todo[c]]
      BY Zenon
    <3>3. [queue EXCEPT ![ch] = queue[ch]] = queue
      BY <3>1, ExceptSame
    <3> HIDE DEF cur, todo
    <3>4. [cur EXCEPT ![ch] = cur[ch]] = cur /\ [todo EXCEPT ![ch] = todo[ch]] = todo
      BY <3>2, ExceptSame
    <3> QED
      BY <2>4, <2>5, <2>6, <3>3, <3>4, Zenon
  <2>8. Service!vars' = <<queue', cur', todo', done'>>
    BY Zenon DEF Service!vars, Left
  <2>9. CASE /\ Loads(ch) /\ Serving(ch) = NoReq /\ queue[ch] # <<>> /\ r = Head(queue[ch])
             /\ queue'[ch] = Tail(queue[ch])
             /\ Serving(ch)' = r /\ done' = done
             /\ \/ Left(ch)' = TokenStages[r]
                \/ TokenStages[r] # <<>> /\ Left(ch)' = Tail(TokenStages[r])
    <3>1. PICK first \in 1..2 :
             Left(ch)' = SubSeq(TokenStages[r], first, Len(TokenStages[r]))
      <4>1. TokenStages[r] \in Seq(StageNames)
        BY <2>2 DEF ExpansionsStaged, FollowsStages
      <4> QED
        <5> DEFINE T == TokenStages[r]
        <5>1. CASE Left(ch)' = T
          <6>1. SubSeq(T, 1, Len(T)) = T
            BY <4>1, SubSeqFull
          <6> QED
            BY <5>1, <6>1, 1 \in 1..2, Zenon
        <5>2. CASE T # <<>> /\ Left(ch)' = Tail(T)
          <6>1. Tail(T) = SubSeq(T, 2, Len(T))
            BY <4>1, <5>2, TailIsSubSeq
          <6> QED
            BY <5>2, <6>1, 2 \in 1..2, Zenon
        <5> QED
          BY <2>9, <5>1, <5>2, Zenon
    <3>2. /\ cur[ch] = NoReq /\ queue[ch] # <<>>
          /\ queue' = [queue EXCEPT ![ch] = Tail(@)]
          /\ cur' = [cur EXCEPT ![ch] = Head(queue[ch])]
          /\ todo' = [todo EXCEPT ![ch] =
                SubSeq(TokenStages[Head(queue[ch])], first, Len(TokenStages[Head(queue[ch])]))]
          /\ done' = done
      BY <2>4, <2>5, <2>6, <2>9, <3>1
    <3>3. Service!Start(ch)
      BY <3>2 DEF Service!Start, Left
    <3> QED
      BY <3>3 DEF Service!Next
  <2>10. CASE /\ queue'[ch] = queue[ch] /\ Serving(ch) = r /\ Serving(ch)' = r /\ done' = done
              /\ Left(ch)' = Left(ch) \/ (Left(ch) # <<>> /\ Left(ch)' = Tail(Left(ch)))
    <3>1. queue' = queue /\ cur' = cur /\ done' = done /\ cur[ch] # NoReq
      <4>1. r # NoReq
        BY <1>0, <2>2
      <4> HIDE DEF cur
      <4> QED
        BY <2>6, <2>10, <2>12, <4>1, Zenon
    <3>2. CASE Left(ch)' = Left(ch)
      <4>1. todo' = todo
        BY <2>12, <3>2, Zenon
      <4> HIDE DEF cur, todo
      <4>2. Service!vars' = Service!vars
        BY <2>7, <2>8, <3>1, <4>1, Zenon
      <4> QED
        BY <4>2, Zenon
    <3>3. CASE Left(ch) # <<>> /\ Left(ch)' = Tail(Left(ch))
      <4>1. todo[ch] # <<>> /\ todo' = [todo EXCEPT ![ch] = Tail(@)]
        BY <2>5, <2>6, <3>3
      <4>2. Service!Advance(ch)
        BY <3>1, <4>1 DEF Service!Advance, Left
      <4> QED
        BY <4>2 DEF Service!Next
    <3> QED
      BY <2>10, <3>2, <3>3
  <2>11. CASE /\ queue'[ch] = queue[ch] /\ Serving(ch) = r /\ Serving(ch)' = NoReq
              /\ done' = [done EXCEPT ![ch] = @ \cup {r}]
              /\ Left(ch) = <<>> /\ Left(ch)' = <<>>
    <3>1. /\ queue' = queue /\ cur[ch] = r /\ cur[ch] # NoReq
          /\ cur' = [cur EXCEPT ![ch] = NoReq]
          /\ todo[ch] = <<>> /\ todo' = todo
      <4>1. r # NoReq
        BY <1>0, <2>2
      <4>2. Left(ch)' = Left(ch)
        BY <2>11, Zenon
      <4> HIDE DEF cur, todo
      <4> QED
        BY <2>5, <2>6, <2>11, <2>12, <4>1, <4>2, Zenon
    <3>2. done' = [done EXCEPT ![ch] = @ \cup {cur[ch]}]
      BY <2>11, <3>1
    <3>3. Service!Finish(ch)
      BY <3>1, <3>2 DEF Service!Finish, Left
    <3> QED
      BY <3>3, Zenon DEF Service!Next
  <2> QED
    BY <1>2, <2>1, <2>9, <2>10, <2>11, TickServes
<1> QED
  BY <1>1, <1>2

(* Each channel of the simulator serves its tokens one at a time and in    *)
(* the order they were sent, through the stages of ESEF: every step of the *)
(* whole system is a step of the abstract service or invisible in it.      *)
THEOREM SystemImplementsService == SystemSpec => ImplementsService
<1>1. BooksInv /\ [SystemNext]_sysVars => [Service!Next]_(Service!vars)
  <2> SUFFICES ASSUME BooksInv, [SystemNext]_sysVars PROVE [Service!Next]_(Service!vars)
    OBVIOUS
  <2>1. CASE LoopFrontend
    <3>1. CASE UNCHANGED vars
      BY <3>1, Unseen DEF vars, memoryVars, controllerVars
    <3>2. CASE ~TraceSent /\ MemorySend(trace[idx])
      <4>1. PICK r \in Reqs : r = trace[idx]
        BY <3>2, TraceFacts DEF BooksInv
      <4> QED
        BY <3>2, <4>1, ArrivalServed DEF BooksInv
    <3> QED
      BY <2>1, <3>1, <3>2 DEF LoopFrontend, FrontendTick
  <2>2. CASE LoopSkipMemory
    BY <2>2, Unseen DEF LoopSkipMemory, vars, memoryVars, controllerVars
  <2>3. CASE LoopTickDram
    BY <2>3, Unseen DEF LoopTickDram, TickDram, controllerVars
  <2>4. CASE LoopTickController
    <3>1. PICK ch \in Channels : ch = turn - 1 /\ ControllerTick(ch)
      BY <2>4, ChannelsAssumption DEF LoopTickController, TickController, BooksInv, Inv, Shape, TypeOK
    <3> QED
      BY <3>1, ExpansionsBehave, TickServed DEF BooksInv
  <2>5. CASE Stopped \/ UNCHANGED sysVars
    BY <2>5, Unseen DEF Stopped, sysVars, vars, memoryVars, controllerVars
  <2> QED
    BY <2>1, <2>2, <2>3, <2>4, <2>5 DEF SystemNext
<1> QED
  BY <1>1, InitService, InitBooks, StepBooks, PTL DEF SystemSpec, ImplementsService, Service!Spec
=============================================================================
