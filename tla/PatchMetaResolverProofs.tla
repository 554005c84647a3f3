----------------------- MODULE PatchMetaResolverProofs -----------------------
(***************************************************************************)
(* Proofs that the resolver of patch metadata fetches the schemas of a     *)
(* group-version once and that it implements PatchMetadata, for any number *)
(* of callers and group-versions.                                          *)
(***************************************************************************)
EXTENDS PatchMetaResolver, SequenceTheorems, TLAPS

(* The entries are those that the map leads to, and a finished one has a   *)
(* result.                                                                 *)
MapInv ==
    /\ \A gv \in GroupVersions : cached[gv] # 0 =>
          cached[gv] \in 1..Len(entries) /\ entries[cached[gv]].gv = gv
    /\ \A i \in 1..Len(entries) : cached[entries[i].gv] = i
    /\ \A i \in 1..Len(entries) : entries[i].once = "done" => entries[i].result # "none"

(* What a caller knows of the entry in its hand.                           *)
CallInv(c) ==
    /\ call[c].pc = "idle" <=> call[c].gv = "none"
    /\ call[c].pc = "insert" => call[c].gvs = cached[call[c].gv]
    /\ call[c].pc \in {"once", "load", "loaded", "answer"} =>
          call[c].gvs # 0 /\ call[c].gvs = cached[call[c].gv]
    /\ call[c].pc \in {"load", "loaded"} => entries[call[c].gvs].once = "running"
    /\ call[c].pc = "loaded" => entries[call[c].gvs].result # "none"
    /\ call[c].pc = "answer" => entries[call[c].gvs].once = "done"

(* A load is run by one caller.                                            *)
LoadInv ==
    \A c, d \in Callers :
        /\ call[c].pc \in {"load", "loaded"} /\ call[d].pc \in {"load", "loaded"}
        /\ call[c].gvs = call[d].gvs
        => c = d

ToldInv == \A t \in told : t[2] # "none"

Inv == TypeOK /\ MapInv /\ (\A c \in Callers : CallInv(c)) /\ LoadInv /\ ToldInv

----------------------------------------------------------------------------
(* The initial states, and those of a new resolver, are in order.          *)
LEMMA InitInv == Init => Inv
<1> SUFFICES ASSUME Init PROVE Inv
  OBVIOUS
<1>1. entries = <<>> /\ Len(entries) = 0 /\ entries \in Seq(EntryType)
  BY DEF Init
<1>2. call \in [Callers -> CallType] /\ \A c \in Callers : call[c] = NoCall
  BY DEF Init, NoCall, CallType
<1>3. TypeOK
  <2>1. \A c \in Callers : mu = c <=> call[c].pc \in {"find", "insert"}
    BY <1>2, ResolverAssumption DEF Init, NoCall
  <2>2. cached \in [GroupVersions -> Nat] /\ mu \in Callers \cup {NoCaller}
    BY DEF Init
  <2>3. told \in SUBSET (GroupVersions \X (Outcomes \cup {"none"}))
    BY DEF Init
  <2> QED
    BY <1>1, <1>2, <2>1, <2>2, <2>3 DEF TypeOK
<1>4. MapInv
  BY <1>1 DEF Init, MapInv
<1>5. ASSUME NEW c \in Callers PROVE CallInv(c)
  <2>0. call[c] = NoCall
    BY <1>2
  <2>1. call[c].pc = "idle" /\ call[c].gv = "none"
    BY <2>0 DEF NoCall
  <2> QED
    BY <2>1 DEF CallInv
<1>6. LoadInv /\ ToldInv
  BY <1>2 DEF LoadInv, ToldInv, Init, NoCall
<1> QED
  BY <1>3, <1>4, <1>5, <1>6 DEF Inv

(* A call of type CallType with another program counter is one.            *)
LEMMA GotoType ==
    ASSUME NEW c \in Callers, call \in [Callers -> CallType],
           NEW pc \in {"idle", "lock", "find", "insert", "once", "load", "loaded", "answer"},
           Goto(c, pc)
    PROVE  /\ call' \in [Callers -> CallType]
           /\ call'[c] = [call[c] EXCEPT !.pc = pc]
           /\ call'[c].pc = pc /\ call'[c].gv = call[c].gv /\ call'[c].gvs = call[c].gvs
           /\ \A d \in Callers : d # c => call'[d] = call[d]
  BY DEF Goto, CallType

LEMMA CallChange ==
    ASSUME NEW c \in Callers, call \in [Callers -> CallType], NEW n \in Nat,
           NEW pc \in {"idle", "lock", "find", "insert", "once", "load", "loaded", "answer"},
           call' = [call EXCEPT ![c].pc = pc, ![c].gvs = n]
    PROVE  /\ call' \in [Callers -> CallType]
           /\ call'[c].pc = pc /\ call'[c].gv = call[c].gv /\ call'[c].gvs = n
           /\ \A d \in Callers : d # c => call'[d] = call[d]
  BY DEF CallType

(* A field of an entry is changed: the others stay what they were.         *)
LEMMA EntryChange ==
    ASSUME entries \in Seq(EntryType), NEW i \in 1..Len(entries), NEW e \in EntryType,
           entries' = [entries EXCEPT ![i] = e]
    PROVE  /\ entries' \in Seq(EntryType) /\ Len(entries') = Len(entries)
           /\ entries'[i] = e
           /\ \A j \in 1..Len(entries) : j # i => entries'[j] = entries[j]
  BY ExceptSeq

(* A step that changes one entry, without its group-version, and moves its *)
(* caller on to a later point of the call.                                 *)
LEMMA EntryStep ==
    ASSUME Inv, NEW c \in Callers, NEW e \in EntryType,
           NEW pc \in {"load", "loaded", "answer"},
           call[c].pc \in {"once", "load", "loaded"},
           Goto(c, pc), UNCHANGED <<mu, cached, told>>,
           entries' = [entries EXCEPT ![call[c].gvs] = e],
           e.gv = entries[call[c].gvs].gv,
           e.once = "done" <=> pc = "answer",
           e.once = "running" <=> pc # "answer",
           pc # "load" => e.result # "none",
           entries[call[c].gvs].once # "done",
           \A d \in Callers : d # c /\ call[d].gvs = call[c].gvs
                                  => call[d].pc \notin {"load", "loaded"}
    PROVE  Inv'
<1> DEFINE k == call[c].gvs
<1>1. /\ entries \in Seq(EntryType) /\ call \in [Callers -> CallType] /\ Len(entries) \in Nat
      /\ \A i \in 1..Len(entries) : entries[i] \in EntryType
  BY DEF Inv, TypeOK
<1>2. call[c].gv \in GroupVersions
  BY <1>1 DEF Inv, CallInv, CallType
<1>3. k \in 1..Len(entries) /\ k = cached[call[c].gv] /\ k # 0
  BY <1>2 DEF Inv, CallInv, MapInv
<1>4. /\ entries' \in Seq(EntryType) /\ Len(entries') = Len(entries)
      /\ entries'[k] = e
      /\ \A j \in 1..Len(entries) : j # k => entries'[j] = entries[j]
  <2> HIDE DEF k
  <2>1. entries' = [entries EXCEPT ![k] = e]
    BY DEF k
  <2> QED
    BY <1>1, <1>3, <2>1, EntryChange
<1>5. /\ call' \in [Callers -> CallType]
      /\ call'[c].pc = pc /\ call'[c].gv = call[c].gv /\ call'[c].gvs = k
      /\ \A d \in Callers : d # c => call'[d] = call[d]
  BY <1>1, GotoType
<1> HIDE DEF k
<1>6. \A d \in Callers : mu' = d <=> call'[d].pc \in {"find", "insert"}
  BY <1>5 DEF Inv, TypeOK
<1>7. TypeOK'
  BY <1>4, <1>5, <1>6 DEF Inv, TypeOK
<1>8. MapInv'
  <2>1. \A i \in 1..Len(entries) : entries'[i].gv = entries[i].gv
    BY <1>3, <1>4 DEF k
  <2>2. \A i \in 1..Len(entries') : entries'[i].once = "done" => entries'[i].result # "none"
    BY <1>3, <1>4 DEF Inv, MapInv
  <2> QED
    BY <1>4, <2>1, <2>2 DEF Inv, MapInv
<1>9. ASSUME NEW d \in Callers PROVE CallInv(d)'
  <2>1. CASE d = c
    BY <1>2, <1>3, <1>4, <1>5, <2>1, ResolverAssumption DEF CallInv
  <2>2. CASE d # c
    <3>1. call'[d] = call[d] /\ CallInv(d) /\ call[d] \in CallType
      BY <1>1, <1>5, <2>2 DEF Inv
    <3>2. CASE call[d].pc \in {"once", "load", "loaded", "answer"}
      <4>1. call[d].gvs # 0 /\ call[d].gvs = cached[call[d].gv] /\ call[d].gv \in GroupVersions
        BY <3>1, <3>2 DEF CallInv, CallType
      <4>2. call[d].gvs \in 1..Len(entries)
        BY <4>1 DEF Inv, MapInv
      <4>3. CASE call[d].gvs = k
        <5>1. call[d].pc = "once"
          BY <2>2, <3>1, <3>2, <4>3 DEF k, CallInv
        <5> QED
          BY <3>1, <4>1, <5>1 DEF CallInv
      <4>4. CASE call[d].gvs # k
        BY <1>4, <3>1, <4>1, <4>2, <4>4 DEF CallInv
      <4> QED
        BY <4>3, <4>4
    <3>3. CASE call[d].pc \notin {"once", "load", "loaded", "answer"}
      BY <3>1, <3>3 DEF CallInv
    <3> QED
      BY <3>2, <3>3
  <2> QED
    BY <2>1, <2>2
<1>10. LoadInv'
  BY <1>5 DEF Inv, LoadInv, k
<1>11. ToldInv'
  BY DEF Inv, ToldInv
<1> QED
  BY <1>7, <1>8, <1>9, <1>10, <1>11 DEF Inv

(* Every step of a caller keeps the invariant.                             *)
LEMMA StepInv == ASSUME Inv, NEW c \in Callers, Step(c) PROVE Inv'
<1> USE DEF At
<1>0. /\ entries \in Seq(EntryType) /\ call \in [Callers -> CallType]
      /\ call[c] \in CallType /\ cached \in [GroupVersions -> Nat]
      /\ call[c].pc # "idle" => call[c].gv \in GroupVersions
      /\ Len(entries) \in Nat
      /\ \A i \in 1..Len(entries) : entries[i] \in EntryType
  <2>1. /\ entries \in Seq(EntryType) /\ call \in [Callers -> CallType]
        /\ call[c] \in CallType /\ cached \in [GroupVersions -> Nat]
    BY DEF Inv, TypeOK
  <2>2. call[c].gv \in GroupVersions \cup {"none"} /\ (call[c].pc = "idle" <=> call[c].gv = "none")
    BY <2>1 DEF CallType, Inv, CallInv
  <2>3. Len(entries) \in Nat /\ \A i \in 1..Len(entries) : entries[i] \in EntryType
    BY <2>1
  <2> QED
    BY <2>1, <2>2, <2>3
<1>1. CASE Lock(c)
  <2>1. Goto(c, "find") /\ mu = NoCaller /\ mu' = c /\ UNCHANGED <<cached, entries, told>>
        /\ call[c].pc = "lock"
    BY <1>1 DEF Lock
  <2>2. /\ call' \in [Callers -> CallType]
        /\ call'[c].pc = "find" /\ call'[c].gv = call[c].gv /\ call'[c].gvs = call[c].gvs
        /\ \A d \in Callers : d # c => call'[d] = call[d]
    BY <1>0, <2>1, GotoType
  <2>3. TypeOK'
    BY <1>0, <2>1, <2>2, ResolverAssumption DEF Inv, TypeOK
  <2>4. MapInv' /\ ToldInv'
    BY <2>1 DEF Inv, MapInv, ToldInv
  <2>5. ASSUME NEW d \in Callers PROVE CallInv(d)'
    BY <2>1, <2>2, <2>5 DEF Inv, CallInv
  <2>6. LoadInv'
    BY <2>1, <2>2 DEF Inv, LoadInv
  <2> QED
    BY <2>3, <2>4, <2>5, <2>6 DEF Inv
<1>2. CASE Find(c)
  <2>1. /\ call[c].pc = "find" /\ UNCHANGED <<mu, cached, entries, told>>
        /\ call' = [call EXCEPT ![c].pc = "insert", ![c].gvs = cached[call[c].gv]]
    BY <1>2 DEF Find
  <2>2. /\ call' \in [Callers -> CallType]
        /\ call'[c].pc = "insert" /\ call'[c].gv = call[c].gv
        /\ call'[c].gvs = cached[call[c].gv]
        /\ \A d \in Callers : d # c => call'[d] = call[d]
    BY <1>0, <2>1 DEF CallType
  <2>3. TypeOK'
    BY <1>0, <2>1, <2>2, ResolverAssumption DEF Inv, TypeOK
  <2>4. MapInv' /\ ToldInv'
    BY <2>1 DEF Inv, MapInv, ToldInv
  <2>5. ASSUME NEW d \in Callers PROVE CallInv(d)'
    BY <2>1, <2>2, <2>5 DEF Inv, CallInv
  <2>6. LoadInv'
    BY <2>1, <2>2 DEF Inv, LoadInv
  <2> QED
    BY <2>3, <2>4, <2>5, <2>6 DEF Inv
<1>3. CASE Insert(c)
  <2> DEFINE gv == call[c].gv
             e  == [gv |-> gv, once |-> "new", result |-> "none"]
  <2>0. /\ call[c].pc = "insert" /\ mu' = NoCaller /\ UNCHANGED told /\ gv \in GroupVersions
        /\ call[c].gvs = cached[gv] /\ mu = c
        /\ \A d \in Callers : d # c => call[d].pc \notin {"find", "insert"}
    BY <1>0, <1>3 DEF Insert, Inv, TypeOK, CallInv
  <2>1. CASE call[c].gvs # 0
    <3>1. Goto(c, "once") /\ UNCHANGED <<cached, entries>>
      BY <1>3, <2>1 DEF Insert
    <3>2. /\ call' \in [Callers -> CallType]
          /\ call'[c].pc = "once" /\ call'[c].gv = call[c].gv /\ call'[c].gvs = call[c].gvs
          /\ \A d \in Callers : d # c => call'[d] = call[d]
      BY <1>0, <3>1, GotoType
    <3>3. \A d \in Callers : mu' = d <=> call'[d].pc \in {"find", "insert"}
      BY <2>0, <3>2, ResolverAssumption
    <3>4. TypeOK'
      BY <2>0, <3>1, <3>2, <3>3 DEF Inv, TypeOK
    <3>5. MapInv' /\ ToldInv'
      BY <2>0, <3>1 DEF Inv, MapInv, ToldInv
    <3>6. ASSUME NEW d \in Callers PROVE CallInv(d)'
      BY <2>0, <2>1, <3>1, <3>2, <3>6 DEF Inv, CallInv
    <3>7. LoadInv'
      BY <3>1, <3>2 DEF Inv, LoadInv
    <3> QED
      BY <3>4, <3>5, <3>6, <3>7 DEF Inv
  <2>2. CASE call[c].gvs = 0
    <3>1. /\ entries' = Append(entries, e)
          /\ cached' = [cached EXCEPT ![gv] = Len(entries) + 1]
          /\ call' = [call EXCEPT ![c].pc = "once", ![c].gvs = Len(entries) + 1]
          /\ cached[gv] = 0
      BY <1>3, <2>0, <2>2 DEF Insert
    <3>2. e \in EntryType
      BY <2>0 DEF EntryType
    <3>3. /\ entries' \in Seq(EntryType) /\ Len(entries') = Len(entries) + 1
          /\ entries'[Len(entries) + 1] = e
          /\ \A i \in 1..Len(entries) : entries'[i] = entries[i]
      BY <1>0, <3>1, <3>2, AppendProperties
    <3>4. /\ call' \in [Callers -> CallType]
          /\ call'[c].pc = "once" /\ call'[c].gv = gv /\ call'[c].gvs = Len(entries) + 1
          /\ \A d \in Callers : d # c => call'[d] = call[d]
      <4>1. PICK n \in Nat : n = Len(entries) + 1
        BY <1>0
      <4>2. call' = [call EXCEPT ![c].pc = "once", ![c].gvs = n]
        BY <3>1, <4>1
      <4> HIDE DEF e
      <4>3. /\ call' \in [Callers -> CallType]
            /\ call'[c].pc = "once" /\ call'[c].gv = call[c].gv /\ call'[c].gvs = n
            /\ \A d \in Callers : d # c => call'[d] = call[d]
        BY <1>0, <4>2, CallChange
      <4> QED
        BY <4>1, <4>3
    <3>5. /\ cached' \in [GroupVersions -> Nat] /\ cached'[gv] = Len(entries) + 1
          /\ \A v \in GroupVersions : v # gv => cached'[v] = cached[v]
      BY <1>0, <2>0, <3>1
    <3>6. \A d \in Callers : mu' = d <=> call'[d].pc \in {"find", "insert"}
      BY <2>0, <3>4, ResolverAssumption
    <3>7. TypeOK'
      BY <2>0, <3>3, <3>4, <3>5, <3>6 DEF Inv, TypeOK
    <3>8. MapInv'
      <4>1. ASSUME NEW v \in GroupVersions, cached'[v] # 0
            PROVE  cached'[v] \in 1..Len(entries') /\ entries'[cached'[v]].gv = v
        <5>1. CASE v = gv
          BY <1>0, <3>3, <3>5, <5>1
        <5>2. CASE v # gv
          BY <1>0, <3>3, <3>5, <4>1, <5>2 DEF Inv, MapInv
        <5> QED
          BY <5>1, <5>2
      <4>2. ASSUME NEW i \in 1..Len(entries')
            PROVE  /\ cached'[entries'[i].gv] = i
                   /\ entries'[i].once = "done" => entries'[i].result # "none"
        <5>1. CASE i = Len(entries) + 1
          BY <3>3, <3>5, <5>1
        <5>2. CASE i \in 1..Len(entries)
          <6>1. /\ entries'[i] = entries[i] /\ entries[i].gv \in GroupVersions
                /\ cached[entries[i].gv] = i /\ i # 0
            BY <1>0, <3>3, <5>2 DEF Inv, MapInv, EntryType
          <6>2. entries[i].gv # gv
            BY <3>1, <6>1
          <6> QED
            BY <3>5, <5>2, <6>1, <6>2 DEF Inv, MapInv
        <5> QED
          BY <1>0, <3>3, <5>1, <5>2
      <4> QED
        BY <4>1, <4>2 DEF MapInv
    <3>9. ASSUME NEW d \in Callers PROVE CallInv(d)'
      <4>1. CASE d = c
        BY <1>0, <2>0, <3>4, <3>5, <4>1, ResolverAssumption DEF CallInv
      <4>2. CASE d # c
        <5>1. call'[d] = call[d] /\ CallInv(d) /\ call[d] \in CallType
          BY <1>0, <3>4, <4>2 DEF Inv
        <5>2. CASE call[d].pc \in {"once", "load", "loaded", "answer"}
          <6>1. call[d].gvs # 0 /\ call[d].gvs = cached[call[d].gv] /\ call[d].gv \in GroupVersions
            BY <5>1, <5>2 DEF CallInv, CallType
          <6>2. call[d].gv # gv /\ call[d].gvs \in 1..Len(entries)
            BY <3>1, <6>1 DEF Inv, MapInv
          <6> QED
            BY <3>3, <3>5, <5>1, <5>2, <6>1, <6>2 DEF CallInv
        <5>3. CASE call[d].pc \notin {"once", "load", "loaded", "answer"}
          BY <2>0, <4>2, <5>1, <5>3 DEF CallInv
        <5> QED
          BY <5>2, <5>3
      <4> QED
        BY <4>1, <4>2
    <3>10. LoadInv' /\ ToldInv'
      BY <2>0, <3>4 DEF Inv, LoadInv, ToldInv
    <3> QED
      BY <3>7, <3>8, <3>9, <3>10 DEF Inv
  <2> QED
    BY <2>1, <2>2
<1>4. CASE Once(c)
  <2>1. call[c].pc = "once" /\ UNCHANGED <<mu, cached, told>>
    BY <1>4 DEF Once
  <2>2. /\ call[c].gvs \in 1..Len(entries) /\ call[c].gvs = cached[call[c].gv]
        /\ call[c].gvs # 0
    BY <1>0, <2>1 DEF Inv, CallInv, MapInv
  <2>3. CASE entries[call[c].gvs].once = "new"
    <3> DEFINE e == [entries[call[c].gvs] EXCEPT !.once = "running"]
    <3>1. Goto(c, "load") /\ entries' = [entries EXCEPT ![call[c].gvs] = e]
      BY <1>4, <2>3 DEF Once, Entry
    <3>2. e \in EntryType /\ e.gv = entries[call[c].gvs].gv /\ e.once = "running"
      BY <1>0, <2>2 DEF EntryType
    <3>3. \A d \in Callers : d # c /\ call[d].gvs = call[c].gvs
                                 => call[d].pc \notin {"load", "loaded"}
      BY <2>3 DEF Inv, CallInv
    <3> HIDE DEF e
    <3> QED
      BY <2>1, <2>3, <3>1, <3>2, <3>3, EntryStep
  <2>4. CASE entries[call[c].gvs].once = "done"
    <3>1. Goto(c, "answer") /\ UNCHANGED entries
      BY <1>4, <2>4 DEF Once, Entry
    <3>2. /\ call' \in [Callers -> CallType]
          /\ call'[c].pc = "answer" /\ call'[c].gv = call[c].gv /\ call'[c].gvs = call[c].gvs
          /\ \A d \in Callers : d # c => call'[d] = call[d]
      BY <1>0, <3>1, GotoType
    <3>3. TypeOK'
      BY <1>0, <2>1, <3>1, <3>2 DEF Inv, TypeOK
    <3>4. MapInv' /\ ToldInv'
      BY <2>1, <3>1 DEF Inv, MapInv, ToldInv
    <3>5. ASSUME NEW d \in Callers PROVE CallInv(d)'
      BY <2>1, <2>4, <3>1, <3>2, <3>5 DEF Inv, CallInv
    <3>6. LoadInv'
      BY <2>1, <3>1, <3>2 DEF Inv, LoadInv
    <3> QED
      BY <3>3, <3>4, <3>5, <3>6 DEF Inv
  <2> QED
    BY <1>4, <2>3, <2>4 DEF Once, Entry
<1>5. CASE load(c)
  <2>1. call[c].pc = "load" /\ UNCHANGED <<mu, cached, told>> /\ Goto(c, "loaded")
    BY <1>5 DEF load
  <2>2. PICK o \in Outcomes : entries' = [entries EXCEPT ![call[c].gvs].result = o]
    BY <1>5 DEF load
  <2>3. call[c].gvs \in 1..Len(entries) /\ entries[call[c].gvs].once = "running"
    BY <1>0, <2>1 DEF Inv, CallInv, MapInv
  <2> DEFINE e == [entries[call[c].gvs] EXCEPT !.result = o]
  <2>4. entries' = [entries EXCEPT ![call[c].gvs] = e]
    BY <2>2
  <2>5. /\ e \in EntryType /\ e.gv = entries[call[c].gvs].gv /\ e.once = "running"
        /\ e.result = o
    BY <1>0, <2>3 DEF EntryType
  <2>6. o # "none"
    BY DEF Outcomes
  <2>7. \A d \in Callers : d # c /\ call[d].gvs = call[c].gvs
                               => call[d].pc \notin {"load", "loaded"}
    BY <2>1 DEF Inv, LoadInv
  <2> HIDE DEF e
  <2> QED
    BY <2>1, <2>3, <2>4, <2>5, <2>6, <2>7, EntryStep
<1>6. CASE OnceDone(c)
  <2>1. call[c].pc = "loaded" /\ UNCHANGED <<mu, cached, told>> /\ Goto(c, "answer")
    BY <1>6 DEF OnceDone
  <2>2. /\ call[c].gvs \in 1..Len(entries) /\ entries[call[c].gvs].once = "running"
        /\ entries[call[c].gvs].result # "none"
    BY <1>0, <2>1 DEF Inv, CallInv, MapInv
  <2> DEFINE e == [entries[call[c].gvs] EXCEPT !.once = "done"]
  <2>3. entries' = [entries EXCEPT ![call[c].gvs] = e]
    BY <1>6 DEF OnceDone
  <2>4. /\ e \in EntryType /\ e.gv = entries[call[c].gvs].gv /\ e.once = "done"
        /\ e.result = entries[call[c].gvs].result
    BY <1>0, <2>2 DEF EntryType
  <2>5. \A d \in Callers : d # c /\ call[d].gvs = call[c].gvs
                               => call[d].pc \notin {"load", "loaded"}
    BY <2>1 DEF Inv, LoadInv
  <2> HIDE DEF e
  <2> QED
    BY <2>1, <2>2, <2>3, <2>4, <2>5, EntryStep
<1>7. CASE Return(c)
  <2>1. /\ call[c].pc = "answer" /\ UNCHANGED <<mu, cached, entries>>
        /\ call' = [call EXCEPT ![c] = NoCall]
        /\ told' = told \cup {<<call[c].gv, entries[call[c].gvs].result>>}
    BY <1>7 DEF Return, Entry
  <2>2. /\ call' \in [Callers -> CallType] /\ call'[c] = NoCall
        /\ \A d \in Callers : d # c => call'[d] = call[d]
    BY <1>0, <2>1 DEF CallType, NoCall
  <2>3. /\ call[c].gv \in GroupVersions /\ call[c].gvs \in 1..Len(entries)
        /\ entries[call[c].gvs].result \in Outcomes
    BY <1>0, <2>1 DEF Inv, CallInv, MapInv, EntryType
  <2>4. told' \in SUBSET (GroupVersions \X (Outcomes \cup {"none"}))
    BY <2>1, <2>3 DEF Inv, TypeOK
  <2>5. \A d \in Callers : mu' = d <=> call'[d].pc \in {"find", "insert"}
    BY <2>1, <2>2 DEF Inv, TypeOK, NoCall
  <2>6. TypeOK'
    BY <2>1, <2>2, <2>4, <2>5 DEF Inv, TypeOK
  <2>7. MapInv'
    BY <2>1 DEF Inv, MapInv
  <2>8. ToldInv'
    BY <2>1, <2>3 DEF Inv, ToldInv, Outcomes
  <2>9. ASSUME NEW d \in Callers PROVE CallInv(d)'
    BY <2>1, <2>2, <2>9 DEF Inv, CallInv, NoCall
  <2>10. LoadInv'
    BY <2>1, <2>2 DEF Inv, LoadInv, NoCall
  <2> QED
    BY <2>6, <2>7, <2>8, <2>9, <2>10 DEF Inv
<1> QED
  BY <1>1, <1>2, <1>3, <1>4, <1>5, <1>6, <1>7 DEF Step

(* A new call keeps the invariant.                                         *)
LEMMA LookupInv ==
    ASSUME Inv, NEW c \in Callers, NEW gv \in GroupVersions, LookupPatchMeta(c, gv)
    PROVE  Inv'
<1>1. /\ call[c].pc = "idle" /\ UNCHANGED <<mu, cached, entries, told>>
      /\ call' = [call EXCEPT ![c] = [pc |-> "lock", gv |-> gv, gvs |-> 0]]
  BY DEF LookupPatchMeta, At
<1>2. /\ call' \in [Callers -> CallType]
      /\ call'[c].pc = "lock" /\ call'[c].gv = gv
      /\ \A d \in Callers : d # c => call'[d] = call[d]
  BY <1>1 DEF Inv, TypeOK, CallType
<1>3. TypeOK'
  BY <1>1, <1>2 DEF Inv, TypeOK
<1>4. MapInv' /\ ToldInv'
  BY <1>1 DEF Inv, MapInv, ToldInv
<1>5. ASSUME NEW d \in Callers PROVE CallInv(d)'
  BY <1>1, <1>2, <1>5, ResolverAssumption DEF Inv, CallInv
<1>6. LoadInv'
  BY <1>1, <1>2 DEF Inv, LoadInv
<1> QED
  BY <1>3, <1>4, <1>5, <1>6 DEF Inv

(* A resolver that starts again is an initial one.                         *)
LEMMA RenewInv == NewV3PatchMetaResolver => Inv'
<1> SUFFICES ASSUME NewV3PatchMetaResolver PROVE Inv'
  OBVIOUS
<1>1. Init'
  BY DEF NewV3PatchMetaResolver, Init
<1> QED
  BY <1>1, InitInv, PTL

(* The invariant is inductive.                                             *)
LEMMA Invariance == Spec => []Inv
<1>1. Inv /\ [Next]_vars => Inv'
  <2> SUFFICES ASSUME Inv, [Next]_vars PROVE Inv'
    OBVIOUS
  <2>1. CASE UNCHANGED vars
    BY <2>1 DEF vars, Inv, TypeOK, MapInv, CallInv, LoadInv, ToldInv
  <2>2. ASSUME NEW c \in Callers, NEW gv \in GroupVersions, LookupPatchMeta(c, gv) PROVE Inv'
    BY <2>2, LookupInv
  <2>3. ASSUME NEW c \in Callers, Step(c) PROVE Inv'
    BY <2>3, StepInv
  <2> QED
    BY <2>1, <2>2, <2>3, RenewInv DEF Next
<1> QED
  BY <1>1, InitInv, PTL DEF Spec

(* The state has its type, and the mutex is held exactly by the caller     *)
(* that is in the map (groupVersion).                                      *)
THEOREM TypeCorrect == Spec => []TypeOK
<1>1. Inv => TypeOK
  BY DEF Inv
<1> QED
  BY <1>1, Invariance, PTL

(* The schemas of a group-version are fetched once in the life of a        *)
(* resolver and nobody is answered before (groupVersion, load): the map    *)
(* leads to every entry, so a group-version has one entry, and only its    *)
(* first caller leaves the state "new".                                    *)
THEOREM FetchedOnceHolds == Spec => []FetchedOnce
<1>1. Inv => FetchedOnce
  <2> SUFFICES ASSUME Inv PROVE FetchedOnce
    OBVIOUS
  <2>1. DOMAIN entries = 1..Len(entries)
    BY DEF Inv, TypeOK
  <2> QED
    BY <2>1 DEF Inv, MapInv, ToldInv, FetchedOnce
<1> QED
  BY <1>1, Invariance, PTL

(* The mapping of a state to one of PatchMetadata.                         *)
outcomeMap == [gv \in GroupVersions |-> Outcome(gv)]
askedMap == [c \in Callers |-> {call[c].gv} \ {"none"}]

(* A step of a caller that changes neither what the callers wait for nor   *)
(* the entries that are done is no step of PatchMetadata.                  *)
LEMMA SameOutcome ==
    ASSUME \A gv \in GroupVersions : Outcome(gv)' = Outcome(gv)
    PROVE  outcomeMap' = outcomeMap
  BY DEF outcomeMap

LEMMA SameAsked ==
    ASSUME \A c \in Callers : call'[c].gv = call[c].gv
    PROVE  askedMap' = askedMap
  BY DEF askedMap

(* Every step of a caller is a step of PatchMetadata or leaves it alone.   *)
LEMMA StepRefines ==
    ASSUME Inv, Inv', NEW c \in Callers, Step(c)
    PROVE  [Metadata!Next]_(Metadata!vars)
<1> USE DEF At
<1>0. /\ entries \in Seq(EntryType) /\ call \in [Callers -> CallType]
      /\ Len(entries) \in Nat /\ cached \in [GroupVersions -> Nat]
      /\ call[c].pc # "idle" => call[c].gv \in GroupVersions
  BY DEF Inv, TypeOK, CallInv, CallType
<1>1. ASSUME outcomeMap' = outcomeMap, askedMap' = askedMap, told' = told
      PROVE  UNCHANGED Metadata!vars
  BY <1>1 DEF Metadata!vars, outcomeMap, askedMap
<1>2. CASE Lock(c)
  <2>1. UNCHANGED <<cached, entries, told>> /\ Goto(c, "find")
    BY <1>2 DEF Lock
  <2>2. \A d \in Callers : call'[d].gv = call[d].gv
    BY <1>0, <2>1, GotoType
  <2>3. \A gv \in GroupVersions : Outcome(gv)' = Outcome(gv)
    BY <2>1 DEF Outcome
  <2> QED
    BY <1>1, <2>1, <2>2, <2>3, SameOutcome, SameAsked
<1>3. CASE Find(c)
  <2>1. /\ UNCHANGED <<cached, entries, told>>
        /\ call' = [call EXCEPT ![c].pc = "insert", ![c].gvs = cached[call[c].gv]]
    BY <1>3 DEF Find
  <2>2. \A d \in Callers : call'[d].gv = call[d].gv
    BY <1>0, <2>1 DEF CallType
  <2>3. \A gv \in GroupVersions : Outcome(gv)' = Outcome(gv)
    BY <2>1 DEF Outcome
  <2> QED
    BY <1>1, <2>1, <2>2, <2>3, SameOutcome, SameAsked
<1>4. CASE Insert(c)
  <2>1. call[c].pc = "insert" /\ UNCHANGED told /\ call[c].gvs = cached[call[c].gv]
    BY <1>4 DEF Insert, Inv, CallInv
  <2>2. \A d \in Callers : call'[d].gv = call[d].gv
    <3>1. CASE call[c].gvs # 0
      BY <1>0, <1>4, <3>1, GotoType DEF Insert
    <3>2. CASE call[c].gvs = 0
      <4>1. PICK n \in Nat : n = Len(entries) + 1
        BY <1>0
      <4>2. call' = [call EXCEPT ![c].pc = "once", ![c].gvs = n]
        BY <1>4, <3>2, <4>1 DEF Insert
      <4> QED
        BY <1>0, <4>2, CallChange
    <3> QED
      BY <3>1, <3>2
  <2>3. ASSUME NEW gv \in GroupVersions PROVE Outcome(gv)' = Outcome(gv)
    <3>1. CASE call[c].gvs # 0
      BY <1>4, <3>1 DEF Insert, Outcome
    <3>2. CASE call[c].gvs = 0
      <4> DEFINE e == [gv |-> call[c].gv, once |-> "new", result |-> "none"]
      <4>1. /\ entries' = Append(entries, e)
            /\ cached' = [cached EXCEPT ![call[c].gv] = Len(entries) + 1]
        BY <1>4, <3>2 DEF Insert
      <4>2. e \in EntryType
        BY <1>0, <2>1 DEF EntryType
      <4>3. /\ entries'[Len(entries) + 1] = e
            /\ \A i \in 1..Len(entries) : entries'[i] = entries[i]
        BY <1>0, <4>1, <4>2, AppendProperties
      <4>4. CASE gv = call[c].gv
        <5>1. Outcome(gv) = "none"
          BY <2>1, <3>2, <4>4 DEF Outcome
        <5>2. cached'[gv] = Len(entries) + 1 /\ entries'[cached'[gv]].once = "new"
          BY <1>0, <4>1, <4>3, <4>4
        <5> QED
          BY <5>1, <5>2 DEF Outcome
      <4>5. CASE gv # call[c].gv
        <5>1. cached'[gv] = cached[gv]
          BY <1>0, <4>1, <4>5
        <5>2. cached[gv] # 0 => entries'[cached[gv]] = entries[cached[gv]]
          BY <4>3 DEF Inv, MapInv
        <5> QED
          BY <5>1, <5>2 DEF Outcome
      <4> QED
        BY <4>4, <4>5
    <3> QED
      BY <3>1, <3>2
  <2> QED
    BY <1>1, <2>1, <2>2, <2>3, SameOutcome, SameAsked
<1>5. CASE Once(c)
  <2>1. /\ call[c].pc = "once" /\ UNCHANGED <<cached, told>>
        /\ Goto(c, "load") \/ Goto(c, "answer")
    BY <1>5 DEF Once
  <2>2. \A d \in Callers : call'[d].gv = call[d].gv
    BY <1>0, <2>1, GotoType
  <2>3. call[c].gvs \in 1..Len(entries)
    BY <1>0, <2>1 DEF Inv, CallInv, MapInv
  <2>4. ASSUME NEW gv \in GroupVersions PROVE Outcome(gv)' = Outcome(gv)
    <3>1. CASE UNCHANGED entries
      BY <2>1, <3>1 DEF Outcome
    <3>2. CASE /\ entries[call[c].gvs].once = "new"
               /\ entries' = [entries EXCEPT ![call[c].gvs].once = "running"]
      <4>1. CASE cached[gv] = 0
        BY <2>1, <4>1 DEF Outcome
      <4>2. CASE cached[gv] # 0
        <5>1. cached[gv] \in 1..Len(entries)
          BY <4>2 DEF Inv, MapInv
        <5>2. CASE cached[gv] = call[c].gvs
          <6>1. entries'[cached[gv]].once = "running"
            BY <1>0, <2>3, <3>2, <5>2 DEF EntryType
          <6> QED
            BY <2>1, <3>2, <5>2, <6>1 DEF Outcome
        <5>3. CASE cached[gv] # call[c].gvs
          BY <1>0, <2>1, <3>2, <5>1, <5>3 DEF Outcome
        <5> QED
          BY <5>2, <5>3
      <4> QED
        BY <4>1, <4>2
    <3> QED
      BY <1>5, <3>1, <3>2 DEF Once, Entry
  <2> QED
    BY <1>1, <2>1, <2>2, <2>4, SameOutcome, SameAsked
<1>6. CASE load(c)
  <2>1. call[c].pc = "load" /\ UNCHANGED <<cached, told>> /\ Goto(c, "loaded")
    BY <1>6 DEF load
  <2>2. PICK o \in Outcomes : entries' = [entries EXCEPT ![call[c].gvs].result = o]
    BY <1>6 DEF load
  <2>3. \A d \in Callers : call'[d].gv = call[d].gv
    BY <1>0, <2>1, GotoType
  <2>4. call[c].gvs \in 1..Len(entries) /\ entries[call[c].gvs].once = "running"
    BY <1>0, <2>1 DEF Inv, CallInv, MapInv
  <2>5. ASSUME NEW gv \in GroupVersions PROVE Outcome(gv)' = Outcome(gv)
    <3>1. CASE cached[gv] = 0
      BY <2>1, <3>1 DEF Outcome
    <3>2. CASE cached[gv] # 0
      <4>1. cached[gv] \in 1..Len(entries)
        BY <3>2 DEF Inv, MapInv
      <4>2. CASE cached[gv] = call[c].gvs
        <5>1. entries'[cached[gv]].once = "running"
          BY <1>0, <2>2, <2>4, <4>2 DEF EntryType
        <5> QED
          BY <2>1, <2>4, <4>2, <5>1 DEF Outcome
      <4>3. CASE cached[gv] # call[c].gvs
        BY <1>0, <2>1, <2>2, <4>1, <4>3 DEF Outcome
      <4> QED
        BY <4>2, <4>3
    <3> QED
      BY <3>1, <3>2
  <2> QED
    BY <1>1, <2>1, <2>3, <2>5, SameOutcome, SameAsked
<1>7. CASE OnceDone(c)
  <2>1. call[c].pc = "loaded" /\ UNCHANGED <<cached, told>> /\ Goto(c, "answer")
    BY <1>7 DEF OnceDone
  <2>0. PICK v \in GroupVersions : v = call[c].gv
    BY <1>0, <2>1
  <2>2. entries' = [entries EXCEPT ![call[c].gvs].once = "done"]
    BY <1>7 DEF OnceDone
  <2>3. \A d \in Callers : call'[d].gv = call[d].gv
    BY <1>0, <2>1, GotoType
  <2>4. /\ call[c].gvs \in 1..Len(entries)
        /\ call[c].gvs = cached[v] /\ cached[v] # 0
        /\ entries[cached[v]].once = "running" /\ entries[cached[v]].result # "none"
    BY <1>0, <2>1, <2>0 DEF Inv, CallInv, MapInv
  <2>5. entries[cached[v]] \in EntryType /\ entries[cached[v]].result \in Outcomes
    <3>1. entries[cached[v]] \in EntryType
      BY <1>0, <2>4
    <3> QED
      BY <2>4, <3>1 DEF EntryType
  <2>6. entries'[cached[v]].once = "done" /\ entries'[cached[v]].result = entries[cached[v]].result
    BY <1>0, <2>2, <2>4, <2>5 DEF EntryType
  <2>7. Outcome(v) = "none" /\ Outcome(v)' = entries[cached[v]].result
    BY <2>1, <2>4, <2>6 DEF Outcome
  <2>8. ASSUME NEW gv \in GroupVersions, gv # v PROVE Outcome(gv)' = Outcome(gv)
    <3>1. CASE cached[gv] = 0
      BY <2>1, <3>1 DEF Outcome
    <3>2. CASE cached[gv] # 0
      <4>1. cached[gv] \in 1..Len(entries) /\ cached[gv] # cached[v]
        BY <2>4, <2>8, <3>2 DEF Inv, MapInv
      <4> QED
        BY <1>0, <2>1, <2>2, <2>4, <4>1 DEF Outcome
    <3> QED
      BY <3>1, <3>2
  <2>9. outcomeMap' = [outcomeMap EXCEPT ![v] = entries[cached[v]].result]
    BY <2>4, <2>7, <2>8 DEF outcomeMap
  <2>10. outcomeMap[v] = "none" /\ v \in askedMap[c]
    BY <2>4, <2>7, <2>0, ResolverAssumption DEF outcomeMap, askedMap
  <2>11. askedMap' = askedMap
    BY <2>3, SameAsked
  <2>12. Metadata!Fetch(v)
    BY <2>1, <2>5, <2>9, <2>10, <2>11 DEF Metadata!Fetch, outcomeMap, askedMap
  <2> QED
    BY <2>4, <2>12 DEF Metadata!Next
<1>8. CASE Return(c)
  <2> DEFINE v == call[c].gv
  <2>1. /\ call[c].pc = "answer" /\ UNCHANGED <<cached, entries>>
        /\ call' = [call EXCEPT ![c] = NoCall]
        /\ told' = told \cup {<<v, entries[call[c].gvs].result>>}
    BY <1>8 DEF Return, Entry
  <2>2. /\ v \in GroupVersions /\ call[c].gvs = cached[v] /\ cached[v] # 0
        /\ entries[cached[v]].once = "done" /\ entries[cached[v]].result # "none"
    BY <1>0, <2>1 DEF Inv, CallInv, MapInv
  <2>3. outcomeMap' = outcomeMap
    BY <2>1, SameOutcome DEF Outcome
  <2>4. outcomeMap[v] = entries[call[c].gvs].result /\ outcomeMap[v] # "none"
    BY <2>2 DEF outcomeMap, Outcome
  <2>5. v \in askedMap[c]
    BY <2>2, ResolverAssumption DEF askedMap
  <2>6. askedMap' = [askedMap EXCEPT ![c] = {}]
    <3>1. call'[c].gv = "none" /\ \A d \in Callers : d # c => call'[d] = call[d]
      BY <1>0, <2>1 DEF NoCall
    <3> QED
      BY <3>1 DEF askedMap
  <2> HIDE DEF v
  <2>7. told' = told \cup {<<v, outcomeMap[v]>>}
    BY <2>1, <2>4
  <2>8. Metadata!Answer(c)
    BY <2>3, <2>4, <2>5, <2>6, <2>7 DEF Metadata!Answer, outcomeMap, askedMap
  <2> QED
    BY <2>8 DEF Metadata!Next
<1> QED
  BY <1>2, <1>3, <1>4, <1>5, <1>6, <1>7, <1>8 DEF Step

(* The resolver implements its promise for any number of callers: the      *)
(* answer of every call is the outcome of the one fetch of its group-      *)
(* version, an error included (LookupPatchMeta, groupVersion).             *)
THEOREM KeepsPromiseHolds == Spec => KeepsPromise
<1>1. Init => Metadata!Init
  BY DEF Init, Metadata!Init, Outcome, NoCall
<1>2. Inv /\ Inv' /\ [Next]_vars => [Metadata!Next]_(Metadata!vars)
  <2> SUFFICES ASSUME Inv, Inv', [Next]_vars PROVE [Metadata!Next]_(Metadata!vars)
    OBVIOUS
  <2>1. CASE UNCHANGED vars
    BY <2>1 DEF vars, Metadata!vars, Outcome
  <2>2. ASSUME NEW c \in Callers, NEW gv \in GroupVersions, LookupPatchMeta(c, gv)
        PROVE  Metadata!Next
    <3>1. /\ call[c].pc = "idle" /\ UNCHANGED <<cached, entries, told>>
          /\ call' = [call EXCEPT ![c] = [pc |-> "lock", gv |-> gv, gvs |-> 0]]
          /\ call \in [Callers -> CallType]
      BY <2>2 DEF LookupPatchMeta, At, Inv, TypeOK
    <3>2. askedMap[c] = {}
      BY <3>1 DEF askedMap, Inv, CallInv
    <3>3. askedMap' = [askedMap EXCEPT ![c] = {gv}]
      <4>1. call'[c].gv = gv /\ \A d \in Callers : d # c => call'[d] = call[d]
        BY <3>1
      <4> QED
        BY <4>1, ResolverAssumption DEF askedMap
    <3>4. outcomeMap' = outcomeMap
      BY <3>1, SameOutcome DEF Outcome
    <3>5. Metadata!Ask(c)
      BY <3>1, <3>2, <3>3, <3>4 DEF Metadata!Ask, outcomeMap, askedMap
    <3> QED
      BY <3>5 DEF Metadata!Next
  <2>3. ASSUME NEW c \in Callers, Step(c) PROVE [Metadata!Next]_(Metadata!vars)
    BY <2>3, StepRefines
  <2>4. CASE NewV3PatchMetaResolver
    BY <2>4 DEF NewV3PatchMetaResolver, Metadata!Next, Metadata!Renew, Outcome, NoCall
  <2> QED
    BY <2>1, <2>2, <2>3, <2>4 DEF Next
<1> QED
  BY <1>1, <1>2, Invariance, PTL DEF Spec, KeepsPromise, Metadata!Spec
=============================================================================
