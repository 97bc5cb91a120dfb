-------------------------- MODULE RecordingProofs --------------------------
(***************************************************************************)
(* Proofs about Recording and SnapshotContents, for transactions of any    *)
(* size: the inspectors agree on the frame in execution (StackInv), the    *)
(* merged list is in the order of the execution (RecordInv, MergedInv),    *)
(* the links between its snapshots go over calls and lose no snapshot      *)
(* (LinkInv), and a snapshot shows the machine as it is when it is taken   *)
(* (DataInv, KeptInv).                                                     *)
(***************************************************************************)
EXTENDS SnapshotContents, FiniteSetTheorems, WellFoundedInduction, SequenceTheorems, TLAPS

(* What edb's end in a panic is to Recording. *)
PanicStep ==
  /\ phase = "executing" /\ phase' = "panicked"
  /\ UNCHANGED <<evm, inspectorVars, taken, merged, linkVars>>

Open == {evm[j] : j \in 1..Len(evm)}
Returned(e) == {i \in Entries : trace[i].parent = e} \ Open

Calls == [parent : Nat \union {None}, kind : Kinds]
Phases == {"executing", "executed", "merged", "linked", "panicked"}

(* The calls in execution are a chain from the first to the latest. *)
ChainInv ==
  /\ trace \in Seq(Calls) /\ evm \in Seq(Nat)
  /\ \A i \in Entries : trace[i].parent = None \/ trace[i].parent \in 1..(i - 1)
  /\ \A k \in 1..Len(evm) :
        /\ evm[k] \in Entries
        /\ trace[evm[k]].parent = IF k = 1 THEN None ELSE evm[k - 1]
  /\ \A j, k \in 1..Len(evm) : j < k => evm[j] < evm[k]
  /\ phase \in Phases
  /\ phase = "executing" /\ evm = <<>> => trace = <<>>
  /\ phase \in {"executed", "merged", "linked"} => evm = <<>>

(* FramesAgree, by its parts. *)
FramesInv ==
  /\ call_stack = evm /\ hook_frames = opcode_frames
  /\ opcode_frames \in Seq(Nat \X Nat) /\ Len(opcode_frames) = Len(evm)
  /\ \A k \in 1..Len(evm) :
        opcode_frames[k] = <<evm[k], Cardinality(Returned(evm[k]))>>

StackInv == ChainInv /\ FramesInv

USE BoundsAssumption, NoneAssumption
-----------------------------------------------------------------------------
(* Sequences that grow and shrink at their end. *)

LEMMA AppendFacts ==
  ASSUME NEW S, NEW s \in Seq(S), NEW x \in S
  PROVE  /\ Append(s, x) \in Seq(S)
         /\ Len(Append(s, x)) = Len(s) + 1
         /\ \A k \in 1..Len(s) : Append(s, x)[k] = s[k]
         /\ Append(s, x)[Len(s) + 1] = x
  OBVIOUS

LEMMA FunctionIsSeq ==
  ASSUME NEW S, NEW n \in Nat, NEW f \in [1..n -> S]
  PROVE  f \in Seq(S) /\ Len(f) = n
  OBVIOUS

LEMMA FrontFacts ==
  ASSUME NEW S, NEW s \in Seq(S), s # <<>>
  PROVE  /\ Len(s) \in Nat \ {0}
         /\ Front(s) \in Seq(S)
         /\ Len(Front(s)) = Len(s) - 1
         /\ \A k \in 1..(Len(s) - 1) : Front(s)[k] = s[k]
<1>1. Len(s) \in Nat /\ (Len(s) = 0 => s = <<>>) /\ \A i \in 1..Len(s) : s[i] \in S
  OBVIOUS
<1>2. Len(s) \in Nat \ {0} /\ 1 \in Int /\ Len(s) - 1 \in Int
  BY <1>1
<1>3. \A i \in 1..(Len(s) - 1) : s[i] \in S
  BY <1>1, <1>2
<1>4. /\ Front(s) \in Seq(S)
      /\ Len(Front(s)) = IF 1 <= Len(s) - 1 THEN (Len(s) - 1) - 1 + 1 ELSE 0
      /\ \A i \in 1..((Len(s) - 1) - 1 + 1) : Front(s)[i] = s[1 + i - 1]
  BY <1>2, <1>3, SubSeqProperties DEF Front
<1>5. (Len(s) - 1) - 1 + 1 = Len(s) - 1 /\ \A i \in 1..(Len(s) - 1) : 1 + i - 1 = i
  BY <1>2
<1>6. Len(Front(s)) = Len(s) - 1
  <2>1. CASE 1 <= Len(s) - 1
    BY <1>4, <1>5, <2>1
  <2>2. CASE ~(1 <= Len(s) - 1)
    <3>1. Len(s) - 1 = 0
      <4>1. \A n \in Nat \ {0} : ~(1 <= n - 1) => n - 1 = 0
        OBVIOUS
      <4> QED
        BY <1>2, <2>2, <4>1
    <3> QED
      BY <1>4, <2>2, <3>1
  <2> QED
    BY <2>1, <2>2
<1> QED
  BY <1>2, <1>4, <1>5, <1>6

LEMMA LastFacts ==
  ASSUME NEW S, NEW s \in Seq(S), s # <<>>
  PROVE  /\ Len(s) \in Nat \ {0}
         /\ Len(s) \in 1..Len(s)
         /\ Last(s) = s[Len(s)]
         /\ Last(s) \in S
  BY DEF Last

LEMMA ReEnteredFacts ==
  ASSUME NEW s \in Seq(Nat \X Nat)
  PROVE  /\ ReEntered(s) \in Seq(Nat \X Nat)
         /\ Len(ReEntered(s)) = Len(s)
         /\ \A k \in 1..Len(s) :
              ReEntered(s)[k] = IF k = Len(s) THEN <<s[k][1], s[k][2] + 1>> ELSE s[k]
<1>1. CASE s = <<>>
  BY <1>1 DEF ReEntered
<1>2. CASE s # <<>>
  <2>1. Len(s) \in Nat \ {0} /\ Len(s) \in 1..Len(s)
    BY <1>2
  <2>2. s[Len(s)] \in Nat \X Nat
    BY <2>1
  <2>3. <<s[Len(s)][1], s[Len(s)][2] + 1>> \in Nat \X Nat
    BY <2>2
  <2>4. ReEntered(s) = [s EXCEPT ![Len(s)] = <<s[Len(s)][1], s[Len(s)][2] + 1>>]
    BY <1>2 DEF ReEntered
  <2> DEFINE e == <<s[Len(s)][1], s[Len(s)][2] + 1>>
  <2> HIDE DEF e
  <2>5. /\ [s EXCEPT ![Len(s)] = e] \in Seq(Nat \X Nat)
        /\ Len([s EXCEPT ![Len(s)] = e]) = Len(s)
        /\ \A j \in 1..Len(s) : [s EXCEPT ![Len(s)] = e][j] = IF j = Len(s) THEN e ELSE s[j]
    <3>1. e \in Nat \X Nat
      BY <2>3 DEF e
    <3> QED
      BY <2>1, <3>1, ExceptSeq
  <2>6. ReEntered(s) = [s EXCEPT ![Len(s)] = e]
    BY <2>4 DEF e
  <2>7. \A k \in 1..Len(s) : k = Len(s) => <<s[k][1], s[k][2] + 1>> = e
    BY DEF e
  <2> QED
    BY <2>5, <2>6, <2>7
<1> QED
  BY <1>1, <1>2
-----------------------------------------------------------------------------
(* The stack of calls. *)

LEMMA ReturnedFinite ==
  ASSUME ChainInv, NEW e
  PROVE  /\ IsFiniteSet(Returned(e))
         /\ Cardinality(Returned(e)) \in 0..Len(trace)
<1>1. Len(trace) \in Nat
  BY DEF ChainInv
<1>2. IsFiniteSet(Entries) /\ Cardinality(Entries) = Len(trace)
  <2>1. 1 \in Int /\ Len(trace) \in Int
    BY <1>1
  <2>2. IsFiniteSet(1..Len(trace)) /\ Cardinality(1..Len(trace)) = IF 1 > Len(trace) THEN 0 ELSE Len(trace) - 1 + 1
    BY <2>1, FS_Interval
  <2> QED
    BY <1>1, <2>2 DEF Entries
<1>3. Returned(e) \subseteq Entries
  BY DEF Returned
<1> QED
  BY <1>1, <1>2, <1>3, FS_Subset, FS_CardinalityType

(* A call puts the next entry on top of every stack. *)
LEMMA CallFacts ==
  ASSUME StackInv, NEW kind \in Kinds, Call(kind)
  PROVE  /\ Len(trace) \in Nat /\ Len(evm) \in Nat /\ Len(opcode_frames) = Len(evm)
         /\ trace' \in Seq(Calls) /\ Len(trace') = Len(trace) + 1
         /\ \A i \in 1..Len(trace) : trace'[i] = trace[i]
         /\ trace'[Len(trace) + 1].parent = (IF Len(evm) = 0 THEN None ELSE evm[Len(evm)])
         /\ Len(evm) > 0 => evm[Len(evm)] \in 1..Len(trace)
         /\ evm' \in Seq(Nat) /\ Len(evm') = Len(evm) + 1
         /\ \A k \in 1..Len(evm) : evm'[k] = evm[k]
         /\ evm'[Len(evm) + 1] = Len(trace) + 1
         /\ opcode_frames' \in Seq(Nat \X Nat) /\ Len(opcode_frames') = Len(evm) + 1
         /\ \A k \in 1..Len(evm) : opcode_frames'[k] = opcode_frames[k]
         /\ opcode_frames'[Len(evm) + 1] = <<Len(trace) + 1, 0>>
         /\ call_stack' = evm' /\ hook_frames' = opcode_frames'
         /\ phase = "executing" /\ phase' = phase
<1> DEFINE id == Len(trace) + 1
           n == Len(evm)
           c == [parent |-> IF call_stack = <<>> THEN None ELSE Last(call_stack), kind |-> kind]
<1>1. /\ trace \in Seq(Calls) /\ evm \in Seq(Nat) /\ opcode_frames \in Seq(Nat \X Nat)
      /\ call_stack = evm /\ hook_frames = opcode_frames /\ Len(opcode_frames) = n
      /\ Len(trace) \in Nat /\ n \in Nat /\ id \in Nat
  BY DEF StackInv, ChainInv, FramesInv
<1>2. /\ evm' = Append(evm, id) /\ trace' = Append(trace, c) /\ call_stack' = Append(call_stack, id)
      /\ opcode_frames' = Append(opcode_frames, <<id, 0>>)
      /\ hook_frames' = Append(hook_frames, <<id, 0>>)
      /\ phase = "executing" /\ phase' = phase
  BY DEF Call
<1>3. /\ n = 0 => c.parent = None
      /\ n > 0 => c.parent = evm[n] /\ evm[n] \in 1..Len(trace)
  <2>1. n = 0 <=> evm = <<>>
    BY <1>1
  <2> QED
    BY <1>1, <2>1 DEF Last, StackInv, ChainInv, Entries
<1>4. c \in Calls
  <2>1. c.parent \in Nat \union {None}
    BY <1>1, <1>3
  <2> QED
    BY <2>1 DEF Calls
<1>5. /\ trace' \in Seq(Calls) /\ Len(trace') = id
      /\ \A i \in 1..Len(trace) : trace'[i] = trace[i]
      /\ trace'[id] = c
  BY <1>1, <1>2, <1>4, AppendFacts
<1>6. /\ evm' \in Seq(Nat) /\ Len(evm') = n + 1
      /\ \A k \in 1..n : evm'[k] = evm[k]
      /\ evm'[n + 1] = id
  BY <1>1, <1>2, AppendFacts
<1>7. /\ opcode_frames' \in Seq(Nat \X Nat) /\ Len(opcode_frames') = n + 1
      /\ \A k \in 1..n : opcode_frames'[k] = opcode_frames[k]
      /\ opcode_frames'[n + 1] = <<id, 0>>
  <2>1. <<id, 0>> \in Nat \X Nat
    BY <1>1
  <2> QED
    BY <1>1, <1>2, <2>1, AppendFacts
<1> HIDE DEF c
<1>8. call_stack' = evm' /\ hook_frames' = opcode_frames'
  BY <1>1, <1>2
<1>9. c.parent = (IF n = 0 THEN None ELSE evm[n]) /\ (n > 0 => evm[n] \in 1..Len(trace))
  BY <1>1, <1>3
<1> QED
  BY <1>1, <1>2, <1>5, <1>6, <1>7, <1>8, <1>9

LEMMA CallStack ==
  ASSUME StackInv, NEW kind \in Kinds, Call(kind)
  PROVE  StackInv'
<1> DEFINE id == Len(trace) + 1
           n == Len(evm)
<1>f. /\ Len(trace) \in Nat /\ n \in Nat /\ id \in Nat
      /\ trace' \in Seq(Calls) /\ Len(trace') = id
      /\ \A i \in 1..Len(trace) : trace'[i] = trace[i]
      /\ trace'[id].parent = (IF n = 0 THEN None ELSE evm[n])
      /\ n > 0 => evm[n] \in 1..Len(trace)
      /\ evm' \in Seq(Nat) /\ Len(evm') = n + 1
      /\ \A k \in 1..n : evm'[k] = evm[k]
      /\ evm'[n + 1] = id
      /\ opcode_frames' \in Seq(Nat \X Nat) /\ Len(opcode_frames') = n + 1
      /\ \A k \in 1..n : opcode_frames'[k] = opcode_frames[k]
      /\ opcode_frames'[n + 1] = <<id, 0>>
      /\ call_stack' = evm' /\ hook_frames' = opcode_frames'
      /\ phase = "executing" /\ phase' = phase
  <2>1. /\ Len(trace) \in Nat /\ n \in Nat
        /\ trace' \in Seq(Calls) /\ Len(trace') = id
        /\ evm' \in Seq(Nat) /\ Len(evm') = n + 1
        /\ opcode_frames' \in Seq(Nat \X Nat) /\ Len(opcode_frames') = n + 1
    BY CallFacts
  <2>2. /\ trace'[id].parent = (IF n = 0 THEN None ELSE evm[n])
        /\ n > 0 => evm[n] \in 1..Len(trace)
        /\ evm'[n + 1] = id /\ opcode_frames'[n + 1] = <<id, 0>>
    BY CallFacts
  <2>3. /\ \A i \in 1..Len(trace) : trace'[i] = trace[i]
        /\ \A k \in 1..n : evm'[k] = evm[k]
        /\ \A k \in 1..n : opcode_frames'[k] = opcode_frames[k]
    BY CallFacts
  <2>4. /\ call_stack' = evm' /\ hook_frames' = opcode_frames'
        /\ phase = "executing" /\ phase' = phase
    BY CallFacts
  <2>5. id \in Nat
    BY <2>1
  <2> HIDE DEF id, n
  <2> QED
    BY <2>1, <2>2, <2>3, <2>4, <2>5
<1>g. \A i \in 1..Len(trace) : trace'[i] = trace[i]
  BY <1>f
<1>h. (\A k \in 1..n : evm'[k] = evm[k]) /\ evm'[n + 1] = id
  BY <1>f
<1>8. /\ \A i \in 1..Len(trace) : trace[i].parent = None \/ trace[i].parent \in 1..(i - 1)
      /\ \A k \in 1..n : /\ evm[k] \in 1..Len(trace)
                         /\ trace[evm[k]].parent = IF k = 1 THEN None ELSE evm[k - 1]
      /\ \A j, k \in 1..n : j < k => evm[j] < evm[k]
  BY DEF StackInv, ChainInv, Entries
<1>c. \A i \in 1..id : i = id \/ i \in 1..Len(trace)
  BY <1>f
<1>d. \A k \in 1..(n + 1) : k = n + 1 \/ k \in 1..n
  BY <1>f
<1>e. 1..Len(trace) \subseteq 1..id /\ id \in 1..id /\ id \notin 1..Len(trace)
  BY <1>f
<1>9. ChainInv'
  <2>1. ASSUME NEW i \in 1..id PROVE trace'[i].parent = None \/ trace'[i].parent \in 1..(i - 1)
    <3>1. CASE i = id
      <4>1. trace'[i].parent = trace'[id].parent /\ i - 1 = Len(trace)
        BY <1>f, <3>1
      <4>2. trace'[id].parent = None \/ trace'[id].parent \in 1..Len(trace)
        <5>1. /\ trace'[id].parent = (IF n = 0 THEN None ELSE evm[n])
              /\ n > 0 => evm[n] \in 1..Len(trace)
              /\ n \in Nat
          BY <1>f
        <5>2. n = 0 \/ n > 0
          BY <5>1
        <5> QED
          BY <5>1, <5>2
      <4> QED
        BY <4>1, <4>2
    <3>2. CASE i \in 1..Len(trace)
      BY <3>2, <1>f, <1>8
    <3> QED
      BY <1>c, <3>1, <3>2
  <2>2. ASSUME NEW k \in 1..(n + 1)
        PROVE  /\ evm'[k] \in 1..id
               /\ trace'[evm'[k]].parent = IF k = 1 THEN None ELSE evm'[k - 1]
    <3>1. CASE k = n + 1
      <4>1. evm'[k] = id
        BY <1>f, <3>1
      <4>2. CASE n = 0
        BY <4>1, <4>2, <3>1, <1>f, <1>e
      <4>3. CASE n > 0
        <5>1. k # 1 /\ k - 1 = n /\ n \in 1..n
          <6>1. n \in Nat
            BY <1>f
          <6> HIDE DEF n
          <6> QED
            BY <6>1, <4>3, <3>1
        <5> QED
          BY <4>1, <5>1, <4>3, <1>f, <1>e
      <4> QED
        BY <1>f, <4>2, <4>3
    <3>2. CASE k \in 1..n
      <4>1. evm'[k] = evm[k] /\ evm[k] \in 1..Len(trace)
        BY <1>f, <1>8, <3>2
      <4>2. trace'[evm'[k]] = trace[evm[k]]
        BY <1>g, <4>1
      <4>3. k # 1 => k - 1 \in 1..n
        BY <1>f, <3>2
      <4> QED
        BY <4>1, <4>2, <4>3, <1>e, <1>f, <1>8, <3>2
    <3> QED
      BY <1>d, <3>1, <3>2
  <2>3. ASSUME NEW j \in 1..(n + 1), NEW k \in 1..(n + 1), j < k PROVE evm'[j] < evm'[k]
    <3>1. j \in 1..n
      BY <1>f, <2>3
    <3>2. evm'[j] = evm[j] /\ evm[j] \in 1..Len(trace)
      BY <3>1, <1>f, <1>8
    <3>3. CASE k = n + 1
      <4>1. evm'[k] = Len(trace) + 1 /\ Len(trace) \in Nat
        BY <1>f, <3>3
      <4> QED
        BY <3>2, <4>1
    <3>4. CASE k \in 1..n
      BY <3>1, <3>2, <3>4, <2>3, <1>f, <1>8
    <3> QED
      BY <1>d, <3>3, <3>4
  <2>4. evm' # <<>>
    BY <1>f
  <2>5. Entries' = 1..id /\ 1..Len(evm)' = 1..(n + 1)
    BY <1>f DEF Entries
  <2>6. \A i \in Entries' : trace'[i].parent = None \/ trace'[i].parent \in 1..(i - 1)
    BY <2>1, <2>5
  <2>7. \A k \in 1..Len(evm)' :
          /\ evm'[k] \in Entries'
          /\ trace'[evm'[k]].parent = IF k = 1 THEN None ELSE evm'[k - 1]
    BY <2>2, <2>5
  <2>8. \A j, k \in 1..Len(evm)' : j < k => evm'[j] < evm'[k]
    BY <2>3, <2>5
  <2> QED
    BY <1>f, <2>4, <2>6, <2>7, <2>8 DEF ChainInv, Phases
<1>10. Open' = Open \union {id}
  <2>1. Open' = {evm'[j] : j \in 1..(n + 1)} /\ Open = {evm[j] : j \in 1..n}
    BY <1>f DEF Open
  <2>2. 1..n \subseteq 1..(n + 1) /\ n + 1 \in 1..(n + 1)
    BY <1>f
  <2> QED
    BY <2>1, <2>2, <1>h, <1>d
<1>11. ASSUME NEW k \in 1..n PROVE Returned(evm[k])' = Returned(evm[k])
  <2>1. /\ Entries' = 1..id /\ Entries = 1..Len(trace)
    BY <1>f DEF Entries
  <2>2. evm'[k] = evm[k] /\ evm[k] \in 1..Len(trace)
    BY <1>f, <1>8
  <2>3. Returned(evm[k])' = {i \in 1..id : trace'[i].parent = evm[k]} \ (Open \union {id})
    BY <1>10, <2>1, <2>2 DEF Returned
  <2>4. Returned(evm[k]) = {i \in 1..Len(trace) : trace[i].parent = evm[k]} \ Open
    BY <2>1 DEF Returned
  <2> HIDE DEF id, n
  <2> QED
    BY <1>g, <1>c, <1>e, <2>3, <2>4
<1>12. ASSUME NEW k \in 1..(n + 1), k = n + 1 PROVE Returned(evm[k])' = {}
  <2>1. evm'[k] = id /\ Entries' = 1..id
    BY <1>f, <1>12 DEF Entries
  <2>2. ASSUME NEW i \in 1..id PROVE trace'[i].parent # id
    <3>1. trace'[i].parent = None \/ trace'[i].parent \in 1..(i - 1)
      BY <1>9, <2>1 DEF ChainInv
    <3>2. id \in Nat /\ id # None
      BY <1>f, NoneAssumption
    <3> HIDE DEF id
    <3> QED
      BY <3>1, <3>2
  <2> QED
    BY <2>1, <2>2 DEF Returned
<1>13. ASSUME NEW k \in 1..(n + 1)
       PROVE  opcode_frames'[k] = <<evm'[k], Cardinality(Returned(evm[k])')>>
  <2>1. CASE k = n + 1
    <3>1. Returned(evm[k])' = {}
      BY <2>1, <1>12
    <3>2. Cardinality(Returned(evm[k])') = 0
      BY <3>1, FS_EmptySet
    <3> QED
      BY <2>1, <1>f, <3>2
  <2>2. CASE k \in 1..n
    BY <2>2, <1>f, <1>11 DEF StackInv, FramesInv
  <2> QED
    BY <1>d, <2>1, <2>2
<1>14. FramesInv'
  <2>1. /\ call_stack' = evm' /\ hook_frames' = opcode_frames'
        /\ opcode_frames' \in Seq(Nat \X Nat) /\ Len(opcode_frames') = Len(evm')
    BY <1>f
  <2> QED
    BY <2>1, <1>f, <1>13 DEF FramesInv
<1> QED
  BY <1>9, <1>14 DEF StackInv

(* The end of a call takes the latest entry off every stack, and counts the
   return to the one below. *)
LEMMA EndFacts ==
  ASSUME StackInv, CallEnd
  PROVE  /\ Len(evm) \in Nat \ {0} /\ Len(opcode_frames) = Len(evm)
         /\ trace' = trace /\ trace \in Seq(Calls) /\ evm \in Seq(Nat)
         /\ evm' \in Seq(Nat) /\ Len(evm') = Len(evm) - 1
         /\ \A k \in 1..(Len(evm) - 1) : evm'[k] = evm[k]
         /\ opcode_frames' \in Seq(Nat \X Nat) /\ Len(opcode_frames') = Len(evm) - 1
         /\ \A k \in 1..(Len(evm) - 1) : opcode_frames'[k] =
               IF k = Len(evm) - 1 THEN <<opcode_frames[k][1], opcode_frames[k][2] + 1>>
               ELSE opcode_frames[k]
         /\ call_stack' = evm' /\ hook_frames' = opcode_frames'
         /\ phase' = IF evm' = <<>> THEN "executed" ELSE "executing"
<1>1. PICK n \in Nat \ {0} : n = Len(evm)
  <2>1. evm \in Seq(Nat) /\ evm # <<>>
    BY DEF StackInv, ChainInv, CallEnd
  <2> QED
    BY <2>1
<1>2. /\ trace \in Seq(Calls) /\ evm \in Seq(Nat) /\ opcode_frames \in Seq(Nat \X Nat)
      /\ call_stack = evm /\ hook_frames = opcode_frames /\ Len(opcode_frames) = n
      /\ Len(trace) \in Nat /\ evm # <<>> /\ opcode_frames # <<>>
  BY <1>1 DEF StackInv, ChainInv, FramesInv, CallEnd
<1>3. /\ evm' = Front(evm) /\ call_stack' = Front(evm) /\ trace' = trace
      /\ opcode_frames' = ReEntered(Front(opcode_frames)) /\ hook_frames' = opcode_frames'
      /\ phase' = IF evm' = <<>> THEN "executed" ELSE "executing"
  BY <1>2 DEF CallEnd, PopOpcodeFrame, PopHookFrame
<1>4. /\ evm' \in Seq(Nat) /\ Len(evm') = n - 1
      /\ \A k \in 1..(n - 1) : evm'[k] = evm[k]
  BY <1>1, <1>2, <1>3, FrontFacts
<1>5. /\ Front(opcode_frames) \in Seq(Nat \X Nat) /\ Len(Front(opcode_frames)) = n - 1
      /\ \A k \in 1..(n - 1) : Front(opcode_frames)[k] = opcode_frames[k]
  BY <1>2, FrontFacts
<1>6. /\ opcode_frames' \in Seq(Nat \X Nat) /\ Len(opcode_frames') = n - 1
      /\ \A k \in 1..(n - 1) : opcode_frames'[k] =
            IF k = n - 1 THEN <<opcode_frames[k][1], opcode_frames[k][2] + 1>> ELSE opcode_frames[k]
  <2> DEFINE s == Front(opcode_frames)
  <2> HIDE DEF s
  <2>1. /\ ReEntered(s) \in Seq(Nat \X Nat)
        /\ Len(ReEntered(s)) = Len(s)
        /\ \A k \in 1..Len(s) :
              ReEntered(s)[k] = IF k = Len(s) THEN <<s[k][1], s[k][2] + 1>> ELSE s[k]
    BY <1>5, ReEnteredFacts DEF s
  <2>2. opcode_frames' = ReEntered(s)
    BY <1>3 DEF s
  <2>3. Len(s) = n - 1 /\ \A k \in 1..(n - 1) : s[k] = opcode_frames[k]
    BY <1>5 DEF s
  <2> QED
    BY <2>1, <2>2, <2>3
<1>7. call_stack' = evm'
  BY <1>3
<1> QED
  BY <1>1, <1>2, <1>3, <1>4, <1>6, <1>7

LEMMA EndStack ==
  ASSUME StackInv, CallEnd
  PROVE  StackInv'
<1>1. PICK n \in Nat \ {0} : n = Len(evm)
  BY EndFacts
<1>3. /\ trace' = trace /\ trace \in Seq(Calls) /\ call_stack' = evm' /\ hook_frames' = opcode_frames'
      /\ phase' = IF evm' = <<>> THEN "executed" ELSE "executing"
  BY EndFacts
<1>4. /\ evm' \in Seq(Nat) /\ Len(evm') = n - 1
      /\ \A k \in 1..(n - 1) : evm'[k] = evm[k]
  BY <1>1, EndFacts
<1>6. /\ opcode_frames' \in Seq(Nat \X Nat) /\ Len(opcode_frames') = n - 1
      /\ \A k \in 1..(n - 1) : opcode_frames'[k] =
            IF k = n - 1 THEN <<opcode_frames[k][1], opcode_frames[k][2] + 1>> ELSE opcode_frames[k]
  BY <1>1, EndFacts
<1>2. evm \in Seq(Nat)
  BY EndFacts
<1>7. /\ \A k \in 1..n : /\ evm[k] \in Entries
                         /\ trace[evm[k]].parent = IF k = 1 THEN None ELSE evm[k - 1]
      /\ \A j, k \in 1..n : j < k => evm[j] < evm[k]
  BY <1>1 DEF StackInv, ChainInv
<1>8. 1..(n - 1) \subseteq 1..n /\ n \in 1..n /\ \A k \in 1..n : k = n \/ k \in 1..(n - 1)
  OBVIOUS
<1>9. Entries' = Entries
  BY <1>3 DEF Entries
<1>10. ChainInv'
  <2>1. \A k \in 1..Len(evm)' :
          /\ evm'[k] \in Entries'
          /\ trace'[evm'[k]].parent = IF k = 1 THEN None ELSE evm'[k - 1]
    <3>1. ASSUME NEW k \in 1..(n - 1)
          PROVE  /\ evm'[k] \in Entries
                 /\ trace[evm'[k]].parent = IF k = 1 THEN None ELSE evm'[k - 1]
      <4>1. k # 1 => k - 1 \in 1..(n - 1)
        OBVIOUS
      <4> QED
        BY <4>1, <1>4, <1>7, <1>8
    <3> QED
      BY <3>1, <1>3, <1>4, <1>9
  <2>2. \A j, k \in 1..Len(evm)' : j < k => evm'[j] < evm'[k]
    BY <1>4, <1>7, <1>8
  <2>3. \A i \in Entries' : trace'[i].parent = None \/ trace'[i].parent \in 1..(i - 1)
    BY <1>3, <1>9 DEF StackInv, ChainInv
  <2>4. trace' \in Seq(Calls)
    BY <1>2, <1>3
  <2> QED
    BY <1>3, <1>4, <2>1, <2>2, <2>3, <2>4 DEF ChainInv, Phases
<1>11. ASSUME NEW k \in 1..n PROVE evm[k] \in Nat
  BY <1>2, <1>1
<1>12. Open = Open' \union {evm[n]} /\ evm[n] \notin Open'
  <2>1. Open' = {evm[j] : j \in 1..(n - 1)} /\ Open = {evm[j] : j \in 1..n}
    BY <1>1, <1>4 DEF Open
  <2>2. Open = Open' \union {evm[n]}
    BY <1>8, <2>1
  <2>3. \A j \in 1..(n - 1) : evm[j] < evm[n] /\ evm[j] # evm[n]
    BY <1>7, <1>8, <1>11
  <2> QED
    BY <2>1, <2>2, <2>3
<1>13. ASSUME NEW k \in 1..(n - 1), k # n - 1 PROVE Returned(evm[k])' = Returned(evm[k])
  <2>1. trace[evm[n]].parent = evm[n - 1] /\ n - 1 \in 1..n /\ k < n - 1
    BY <1>7, <1>8, <1>13
  <2>2. evm[k] < evm[n - 1] /\ evm[k] # evm[n - 1]
    BY <1>7, <1>8, <1>11, <2>1
  <2> QED
    BY <1>3, <1>4, <1>9, <1>12, <2>1, <2>2 DEF Returned
<1>14. ASSUME NEW k \in 1..(n - 1), k = n - 1
       PROVE  Returned(evm[k])' = Returned(evm[k]) \union {evm[n]} /\ evm[n] \notin Returned(evm[k])
  <2>1. trace[evm[n]].parent = evm[k] /\ evm[n] \in Entries
    BY <1>7, <1>8, <1>14
  <2>2. evm[n] \in Open
    BY <1>12
  <2> QED
    BY <1>3, <1>4, <1>9, <1>12, <2>1, <2>2 DEF Returned
<1>15. ASSUME NEW k \in 1..(n - 1)
       PROVE  opcode_frames'[k] = <<evm'[k], Cardinality(Returned(evm[k])')>>
  <2>1. opcode_frames[k] = <<evm[k], Cardinality(Returned(evm[k]))>> /\ evm'[k] = evm[k]
    BY <1>1, <1>4, <1>8 DEF StackInv, FramesInv
  <2>2. CASE k # n - 1
    BY <2>1, <2>2, <1>6, <1>13
  <2>3. CASE k = n - 1
    <3>1. IsFiniteSet(Returned(evm[k]))
      BY ReturnedFinite DEF StackInv
    <3>2. Cardinality(Returned(evm[k])') = Cardinality(Returned(evm[k])) + 1
      BY <3>1, <2>3, <1>14, FS_AddElement
    <3>3. opcode_frames'[k] = <<opcode_frames[k][1], opcode_frames[k][2] + 1>>
      BY <1>6, <2>3
    <3> QED
      BY <2>1, <3>2, <3>3
  <2> QED
    BY <2>2, <2>3
<1>16. FramesInv'
  <2>1. call_stack' = evm' /\ hook_frames' = opcode_frames' /\ Len(opcode_frames') = Len(evm')
    BY <1>3, <1>4, <1>6
  <2> QED
    BY <2>1, <1>4, <1>6, <1>15 DEF FramesInv
<1> QED
  BY <1>10, <1>16 DEF StackInv

(* The other steps leave the stacks as they are. *)
LEMMA StackKept ==
  ASSUME StackInv, UNCHANGED <<evm, trace, call_stack, opcode_frames, hook_frames>>,
         phase' = phase \/ (phase' \in Phases \ {"executing"} /\ (evm = <<>> \/ phase' = "panicked"))
  PROVE  StackInv'
<1>1. Entries' = Entries /\ Open' = Open
  BY DEF Entries, Open
<1>2. ASSUME NEW k \in 1..Len(evm) PROVE Returned(evm[k])' = Returned(evm[k])
  BY <1>1 DEF Returned
<1>3. ChainInv'
  BY <1>1 DEF StackInv, ChainInv, Phases
<1>4. FramesInv'
  BY <1>2 DEF StackInv, FramesInv
<1> QED
  BY <1>3, <1>4 DEF StackInv

LEMMA StackStep == StackInv /\ [Next \/ PanicStep]_vars => StackInv'
<1> SUFFICES ASSUME StackInv, [Next \/ PanicStep]_vars PROVE StackInv'
  OBVIOUS
<1>1. ASSUME NEW kind \in Kinds, Call(kind) PROVE StackInv'
  BY <1>1, CallStack
<1>2. CASE CallEnd
  BY <1>2, EndStack
<1>3. CASE PlainStep \/ HookStep
  BY <1>3, StackKept DEF PlainStep, HookStep
<1>4. CASE Merge \/ Analyze
  <2>1. evm = <<>>
    BY <1>4 DEF Merge, Analyze, StackInv, ChainInv
  <2> QED
    BY <1>4, <2>1, StackKept DEF Merge, Analyze, inspectorVars, Phases
<1>5. CASE PanicStep
  BY <1>5, StackKept DEF PanicStep, inspectorVars, Phases
<1>6. CASE UNCHANGED vars
  BY <1>6, StackKept DEF vars, inspectorVars
<1> QED
  BY <1>1, <1>2, <1>3, <1>4, <1>5, <1>6 DEF Next

LEMMA StackInit == Init => StackInv
<1> SUFFICES ASSUME Init PROVE StackInv
  OBVIOUS
<1>1. trace = <<>> /\ evm = <<>> /\ opcode_frames = <<>> /\ hook_frames = <<>>
      /\ call_stack = <<>> /\ phase = "executing"
  BY DEF Init
<1>2. ChainInv
  BY <1>1 DEF ChainInv, Entries, Phases
<1>3. FramesInv
  BY <1>1 DEF FramesInv
<1> QED
  BY <1>2, <1>3 DEF StackInv
-----------------------------------------------------------------------------
(* Least of a set of numbers. *)

LEMMA MinFacts ==
  ASSUME NEW T \in SUBSET Nat, T # {}
  PROVE  Min(T) \in T /\ \A y \in T : Min(T) <= y
<1> DEFINE R == {ss \in Nat \X Nat : ss[1] < ss[2]}
<1>1. IsWellFoundedOn(R, Nat)
  BY NatLessThanWellFounded DEF OpToRel
<1>2. PICK x \in T : \A y \in T : <<y, x>> \notin R
  <2> HIDE DEF R
  <2> QED
    BY <1>1, WFMin
<1>3. ASSUME NEW y \in T PROVE x <= y
  <2>1. x \in Nat /\ y \in Nat /\ <<y, x>> \notin R
    BY <1>2
  <2>2. ~(y < x)
    BY <2>1
  <2> QED
    BY <2>1, <2>2
<1> QED
  BY <1>3 DEF Min

(* A set of numbers that has 0 and with each number the next has them all. *)
LEMMA Induction ==
  ASSUME NEW n \in Nat, NEW T, 0 \in T,
         \A i \in 1..n : i - 1 \in T => i \in T
  PROVE  0..n \subseteq T
<1> DEFINE B == (0..n) \ T
<1> SUFFICES ASSUME B # {} PROVE FALSE
  OBVIOUS
<1> HIDE DEF B
<1>1. B \in SUBSET Nat
  BY DEF B
<1>2. PICK m \in B : \A y \in B : m <= y
  BY <1>1, MinFacts
<1>3. m \in 0..n /\ m \notin T
  BY DEF B
<1>4. m \in 1..n /\ m - 1 \in 0..n
  BY <1>3
<1>5. m - 1 \notin B
  BY <1>2, <1>4
<1> QED
  BY <1>3, <1>4, <1>5 DEF B

(* FlattenSeq puts each sequence behind the ones before it. *)
JoinedAs(S, seqs, n, cut) ==
  /\ FlattenSeq(seqs) \in Seq(S)
  /\ Len(FlattenSeq(seqs)) = cut[n]
  /\ \A i \in 1..n : \A k \in 1..Len(seqs[i]) :
        FlattenSeq(seqs)[cut[i - 1] + k] = seqs[i][k]

LEMMA Flattened ==
  ASSUME NEW S, NEW seqs \in Seq(Seq(S)), NEW n \in Nat, n = Len(seqs),
         NEW cut \in [0..n -> Nat], cut[0] = 0,
         \A i \in 1..n : cut[i] = cut[i - 1] + Len(seqs[i])
  PROVE  JoinedAs(S, seqs, n, cut)
<1>1. CASE n = 0
  <2>1. seqs = <<>>
    BY <1>1, EmptySeq
  <2>2. FlattenSeq(seqs) = <<>>
    BY <1>1, <2>1 DEF FlattenSeq
  <2> QED
    BY <1>1, <2>2 DEF JoinedAs
<1>2. CASE n # 0
  <2> DEFINE Is(g, m) == g = [i \in 1..m |-> IF i = 1 THEN seqs[i] ELSE g[i - 1] \o seqs[i]]
             T == {m \in 0..n : \E g : Is(g, m)}
  <2>1. 0..n \subseteq T
    <3>1. 0 \in T
      <4>1. Is([i \in 1..0 |-> seqs[i]], 0)
        OBVIOUS
      <4>2. 0 \in 0..n
        OBVIOUS
      <4> HIDE DEF Is
      <4> QED
        BY <4>1, <4>2
    <3>2. ASSUME NEW m \in 1..n, m - 1 \in T PROVE m \in T
      <4>1. PICK g : Is(g, m - 1)
        BY <3>2
      <4> DEFINE last == IF m = 1 THEN seqs[m] ELSE g[m - 1] \o seqs[m]
                 h == [i \in 1..m |-> IF i = m THEN last ELSE g[i]]
      <4>2. \A i \in 1..(m - 1) : h[i] = g[i] /\ i # m /\ i \in 1..m
        OBVIOUS
      <4>3. ASSUME NEW i \in 1..m
            PROVE  h[i] = IF i = 1 THEN seqs[i] ELSE h[i - 1] \o seqs[i]
        <5>1. CASE i = m
          <6>1. h[i] = last
            BY <5>1
          <6>2. i # 1 => h[i - 1] = g[i - 1]
            BY <5>1, <4>2
          <6> QED
            BY <5>1, <6>1, <6>2
        <5>2. CASE i # m
          <6>1. i \in 1..(m - 1) /\ h[i] = g[i]
            BY <5>2
          <6>2. g[i] = IF i = 1 THEN seqs[i] ELSE g[i - 1] \o seqs[i]
            BY <4>1, <6>1
          <6>3. i # 1 => i - 1 \in 1..(m - 1) /\ h[i - 1] = g[i - 1]
            BY <6>1, <4>2
          <6> QED
            BY <6>1, <6>2, <6>3
        <5> QED
          BY <5>1, <5>2
      <4>4. h = [i \in 1..m |-> h[i]]
        OBVIOUS
      <4> HIDE DEF h
      <4>5. h = [i \in 1..m |-> IF i = 1 THEN seqs[i] ELSE h[i - 1] \o seqs[i]]
        BY <4>3, <4>4, Zenon
      <4>6. Is(h, m)
        BY <4>5
      <4>7. m \in 0..n
        OBVIOUS
      <4> HIDE DEF Is
      <4> QED
        BY <4>6, <4>7
    <3> HIDE DEF T
    <3> QED
      BY <3>1, <3>2, Induction
  <2> DEFINE g == CHOOSE f : Is(f, n)
  <2>2. Is(g, n)
    <3>1. n \in 0..n
      OBVIOUS
    <3>2. n \in T
      BY <2>1, <3>1
    <3> HIDE DEF Is
    <3> QED
      BY <3>2
  <2>3. FlattenSeq(seqs) = g[n]
    BY <1>2 DEF FlattenSeq
  <2> HIDE DEF g
  <2> DEFINE Good(i) == /\ g[i] \in Seq(S) /\ Len(g[i]) = cut[i]
                        /\ \A j \in 1..i : /\ cut[j] <= cut[i]
                                           /\ \A k \in 1..Len(seqs[j]) : g[i][cut[j - 1] + k] = seqs[j][k]
             U == {i \in 0..n : i = 0 \/ Good(i)}
  <2>4. 0..n \subseteq U
    <3>1. 0 \in U
      OBVIOUS
    <3>2. ASSUME NEW i \in 1..n, i - 1 \in U PROVE Good(i)
      <4>1. g[i] = IF i = 1 THEN seqs[i] ELSE g[i - 1] \o seqs[i]
        BY <2>2
      <4>2. seqs[i] \in Seq(S) /\ cut[i] = cut[i - 1] + Len(seqs[i])
            /\ cut[i] \in Nat /\ cut[i - 1] \in Nat /\ Len(seqs[i]) \in Nat
        <5>1. seqs[i] \in Seq(S)
          OBVIOUS
        <5>2. i \in 0..n /\ i - 1 \in 0..n
          OBVIOUS
        <5>3. Len(seqs[i]) \in Nat
          BY <5>1, LenProperties
        <5>4. cut[i] \in Nat /\ cut[i - 1] \in Nat
          BY <5>2
        <5> QED
          BY <5>1, <5>3, <5>4
      <4>3. CASE i = 1
        BY <4>1, <4>2, <4>3
      <4>4. CASE i # 1
        <5>1. Good(i - 1) /\ i - 1 \in 1..n
          BY <3>2, <4>4
        <5> DEFINE a == g[i - 1]
                   b == seqs[i]
        <5>2. a \in Seq(S) /\ b \in Seq(S) /\ g[i] = a \o b /\ Len(a) = cut[i - 1] /\ Len(b) \in Nat
          BY <4>1, <4>2, <4>4, <5>1
        <5> HIDE DEF a, b
        <5>3. /\ a \o b \in Seq(S) /\ Len(a \o b) = Len(a) + Len(b)
              /\ \A k \in 1..(Len(a) + Len(b)) :
                    (a \o b)[k] = IF k <= Len(a) THEN a[k] ELSE b[k - Len(a)]
          <6> SUFFICES ASSUME NEW s1 \in Seq(S), NEW s2 \in Seq(S)
                       PROVE  /\ s1 \o s2 \in Seq(S) /\ Len(s1 \o s2) = Len(s1) + Len(s2)
                              /\ \A k \in 1..(Len(s1) + Len(s2)) :
                                  (s1 \o s2)[k] = IF k <= Len(s1) THEN s1[k] ELSE s2[k - Len(s1)]
            BY <5>2
          <6> QED
            BY ConcatProperties
        <5>4. g[i] \in Seq(S) /\ Len(g[i]) = cut[i]
          BY <5>2, <5>3, <4>2 DEF b
        <5>5. ASSUME NEW j \in 1..i
              PROVE  /\ cut[j] <= cut[i]
                     /\ \A k \in 1..Len(seqs[j]) : g[i][cut[j - 1] + k] = seqs[j][k]
          <6>1. CASE j = i
            <7>1. ASSUME NEW k \in 1..Len(b) PROVE (a \o b)[cut[i - 1] + k] = b[k]
              <8>1. PICK x \in Nat : x = Len(a) + k
                BY <5>2, <4>2
              <8>2. x \in 1..(Len(a) + Len(b)) /\ ~(x <= Len(a)) /\ x - Len(a) = k
                <9>1. PICK la, lb \in Nat : la = Len(a) /\ lb = Len(b) /\ k \in 1..lb
                  BY <4>2, <5>2
                <9>2. x \in 1..(la + lb) /\ ~(x <= la) /\ x - la = k
                  BY <8>1, <9>1
                <9> QED
                  BY <9>1, <9>2
              <8>3. (a \o b)[x] = b[k]
                BY <5>3, <8>2
              <8> QED
                BY <8>1, <8>3, <5>2
            <7>2. \A k \in 1..Len(seqs[i]) : g[i][cut[i - 1] + k] = seqs[i][k]
              BY <7>1, <5>2 DEF b
            <7>3. cut[i] <= cut[i]
              BY <4>2
            <7> QED
              BY <6>1, <7>2, <7>3
          <6>2. CASE j # i
            <7>1. j \in 1..(i - 1) /\ j \in 1..n /\ j \in 0..n /\ j - 1 \in 0..n
              BY <6>2
            <7>2. cut[j] \in Nat /\ cut[j - 1] \in Nat /\ Len(seqs[j]) \in Nat
                  /\ cut[j] = cut[j - 1] + Len(seqs[j])
              <8>1. seqs[j] \in Seq(S)
                BY <7>1
              <8>2. Len(seqs[j]) \in Nat
                BY <8>1, LenProperties
              <8>3. cut[j] \in Nat /\ cut[j - 1] \in Nat
                BY <7>1
              <8> QED
                BY <7>1, <8>2, <8>3
            <7>3. cut[j] <= cut[i - 1]
                  /\ \A k \in 1..Len(seqs[j]) : a[cut[j - 1] + k] = seqs[j][k]
              BY <5>1, <7>1 DEF a
            <7>4. ASSUME NEW k \in 1..Len(seqs[j]) PROVE g[i][cut[j - 1] + k] = seqs[j][k]
              <8>2. \A c, l, d, la, lb \in Nat :
                      c + l <= d /\ la = d /\ k \in 1..l => c + k \in 1..(la + lb) /\ c + k <= la
                OBVIOUS
              <8>3. Len(a) \in Nat /\ cut[j - 1] + Len(seqs[j]) <= cut[i - 1]
                BY <4>2, <5>2, <7>2, <7>3
              <8>1. cut[j - 1] + k \in 1..(Len(a) + Len(b)) /\ cut[j - 1] + k <= Len(a)
                BY <4>2, <5>2, <7>2, <8>2, <8>3
              <8> QED
                BY <5>2, <5>3, <7>3, <8>1
            <7>5. cut[j] <= cut[i]
              BY <4>2, <7>2, <7>3
            <7> QED
              BY <7>4, <7>5
          <6> QED
            BY <6>1, <6>2
        <5> QED
          BY <5>4, <5>5
      <4> QED
        BY <4>3, <4>4
    <3>3. ASSUME NEW i \in 1..n, i - 1 \in U PROVE i \in U
      <4> HIDE DEF Good, U
      <4>1. Good(i)
        BY <3>2, <3>3
      <4>2. i \in 0..n
        OBVIOUS
      <4> USE DEF U
      <4> HIDE DEF Good
      <4> QED
        BY <4>1, <4>2
    <3> HIDE DEF U
    <3> QED
      BY <3>1, <3>3, Induction
  <2>5. Good(n)
    <3>1. n \in U
      <4>1. n \in 0..n
        OBVIOUS
      <4> HIDE DEF U
      <4> QED
        BY <2>4, <4>1
    <3> HIDE DEF Good
    <3> QED
      BY <1>2, <3>1
  <2> QED
    BY <2>3, <2>5 DEF JoinedAs
<1> QED
  BY <1>1, <1>2
-----------------------------------------------------------------------------
(* What is recorded.  The hook inspector's list h, with o's snapshots in the
   place of their frames' placeholders, holds the numbers 1 to t in order: the
   i-th item those from cut[i - 1] + 1 to cut[i]. *)

Items == [frame : Nat \X Nat, snapshot : Nat \union {None}]

Holds(x, o, tr, a, b) ==
  /\ a \in Nat /\ b \in Nat /\ a <= b
  /\ x.snapshot = None =>
       /\ Len(OrDefault(o, x.frame)) = b - a
       /\ \A k \in 1..(b - a) : OrDefault(o, x.frame)[k] = a + k
       /\ a # b => tr[x.frame[1]].kind = "plain"
  /\ x.snapshot # None =>
       /\ x.snapshot = b /\ b = a + 1
       /\ tr[x.frame[1]].kind = "sourced"

Layout(h, o, tr, t, cut) ==
  /\ cut \in [0..Len(h) -> Nat] /\ cut[0] = 0 /\ cut[Len(h)] = t
  /\ \A i \in 1..Len(h) : Holds(h[i], o, tr, cut[i - 1], cut[i])

(* No frame has two placeholders. *)
Distinct(h) ==
  \A i, j \in 1..Len(h) :
     h[i].snapshot = None /\ h[j].snapshot = None /\ h[i].frame = h[j].frame => i = j

(* Calls are made within calls: once an item of a call is followed by one of an
   earlier call, the calls between have ended. *)
Nested(h, open) ==
  \A i, j \in 1..Len(h) : i < j =>
     \A x \in Nat : h[j].frame[1] < x /\ x <= h[i].frame[1] =>
        x \notin open /\ \A m \in (j + 1)..Len(h) : h[m].frame[1] # x

LEMMA HoldsSame ==
  ASSUME NEW x, NEW o, NEW o2, NEW tr, NEW tr2, NEW a, NEW b, Holds(x, o, tr, a, b),
         x.snapshot = None => OrDefault(o2, x.frame) = OrDefault(o, x.frame),
         tr2[x.frame[1]] = tr[x.frame[1]]
  PROVE  Holds(x, o2, tr2, a, b)
<1> DEFINE p == OrDefault(o, x.frame)
           q == OrDefault(o2, x.frame)
<1> HIDE DEF p, q
<1>1. x.snapshot = None => q = p
  BY DEF p, q
<1> QED
  BY <1>1 DEF Holds, p, q

LEMMA Extended ==
  ASSUME NEW h \in Seq(Items), NEW x \in Items, NEW o, NEW o2, NEW tr, NEW tr2,
         NEW t, NEW t2 \in Nat, NEW cut, Layout(h, o, tr, t, cut),
         \A i \in 1..Len(h) : Holds(h[i], o2, tr2, cut[i - 1], cut[i]),
         Holds(x, o2, tr2, t, t2)
  PROVE  \E c : Layout(Append(h, x), o2, tr2, t2, c)
<1>1. PICK n \in Nat : n = Len(h)
  OBVIOUS
<1>2. /\ Append(h, x) \in Seq(Items) /\ Len(Append(h, x)) = n + 1
      /\ \A k \in 1..n : Append(h, x)[k] = h[k]
      /\ Append(h, x)[n + 1] = x
  BY <1>1, AppendFacts
<1>3. cut \in [0..n -> Nat] /\ cut[0] = 0 /\ cut[n] = t
  BY <1>1 DEF Layout
<1> DEFINE c == [i \in 0..(n + 1) |-> IF i = n + 1 THEN t2 ELSE cut[i]]
           g == Append(h, x)
<1>4. c \in [0..(n + 1) -> Nat] /\ c[n + 1] = t2 /\ \A i \in 0..n : c[i] = cut[i]
  <2>1. \A i \in 0..(n + 1) : i # n + 1 => i \in 0..n
    OBVIOUS
  <2> QED
    BY <1>3, <2>1
<1> HIDE DEF c, g
<1>5. ASSUME NEW i \in 1..(n + 1) PROVE Holds(g[i], o2, tr2, c[i - 1], c[i])
  <2>1. CASE i = n + 1
    <3>1. i - 1 = n /\ n \in 0..n
      BY <2>1
    <3>2. g[i] = x /\ c[i - 1] = t /\ c[i] = t2
      BY <1>2, <1>3, <1>4, <2>1, <3>1 DEF g
    <3> QED
      BY <3>2
  <2>2. CASE i \in 1..n
    <3>1. i - 1 \in 0..n /\ i \in 0..n
      BY <2>2
    <3>2. g[i] = h[i] /\ c[i - 1] = cut[i - 1] /\ c[i] = cut[i]
      BY <1>2, <1>4, <2>2, <3>1 DEF g
    <3> QED
      BY <1>1, <2>2, <3>2
  <2> QED
    BY <2>1, <2>2
<1>6. c[0] = 0
  BY <1>3, <1>4
<1>7. Len(g) = n + 1
  BY <1>2 DEF g
<1>8. Layout(g, o2, tr2, t2, c)
  BY <1>4, <1>5, <1>6, <1>7 DEF Layout
<1> QED
  BY <1>8 DEF g

LEMMA EndReplaced ==
  ASSUME NEW h \in Seq(Items), NEW g \in Seq(Items), NEW o, NEW o2, NEW tr, NEW tr2,
         NEW t, NEW t2 \in Nat, NEW cut, Layout(h, o, tr, t, cut),
         NEW n \in Nat \ {0}, n = Len(h), Len(g) = n,
         \A i \in 1..(n - 1) : g[i] = h[i] /\ Holds(h[i], o2, tr2, cut[i - 1], cut[i]),
         Holds(g[n], o2, tr2, cut[n - 1], t2)
  PROVE  \E c : Layout(g, o2, tr2, t2, c)
<1>1. cut \in [0..n -> Nat] /\ cut[0] = 0
  BY DEF Layout
<1> DEFINE c == [i \in 0..n |-> IF i = n THEN t2 ELSE cut[i]]
<1>2. c \in [0..n -> Nat] /\ c[n] = t2 /\ \A i \in 0..(n - 1) : c[i] = cut[i]
  BY <1>1
<1>3. c[0] = 0
  BY <1>1, <1>2
<1> HIDE DEF c
<1>4. ASSUME NEW i \in 1..n PROVE Holds(g[i], o2, tr2, c[i - 1], c[i])
  <2>1. i - 1 \in 0..(n - 1)
    OBVIOUS
  <2>2. CASE i = n
    BY <1>2, <2>1, <2>2
  <2>3. CASE i # n
    <3>1. i \in 1..(n - 1) /\ i \in 0..(n - 1)
      BY <2>3
    <3>2. g[i] = h[i] /\ Holds(h[i], o2, tr2, cut[i - 1], cut[i])
      BY <3>1
    <3>3. c[i] = cut[i] /\ c[i - 1] = cut[i - 1]
      BY <1>2, <2>1, <3>1
    <3> QED
      BY <3>2, <3>3
  <2> QED
    BY <2>2, <2>3
<1>5. Layout(g, o2, tr2, t2, c)
  BY <1>2, <1>3, <1>4 DEF Layout
<1> QED
  BY <1>5

(* record_snapshot, for the frame f of the last item. *)
LEMMA PieceGrows ==
  ASSUME NEW h \in Seq(Items), NEW o, NEW tr, NEW t \in Nat,
         \E cut : Layout(h, o, tr, t, cut), Distinct(h),
         NEW n \in Nat \ {0}, n = Len(h), NEW f, f = h[n].frame,
         tr[f[1]].kind = "plain",
         \A e \in DOMAIN o : o[e] \in Seq(Nat)
  PROVE  \E c : Layout(h, Put(o, f, Append(OrDefault(o, f), t + 1)), tr, t + 1, c)
<1> DEFINE s == OrDefault(o, f)
           o2 == Put(o, f, Append(s, t + 1))
<1>1. PICK cut : Layout(h, o, tr, t, cut)
  OBVIOUS
<1>2. s \in Seq(Nat)
  BY DEF OrDefault
<1>3. /\ OrDefault(o2, f) = Append(s, t + 1)
      /\ \A e : e # f => OrDefault(o2, e) = OrDefault(o, e)
  BY DEF OrDefault, Put
<1>4. /\ Append(s, t + 1) \in Seq(Nat) /\ Len(Append(s, t + 1)) = Len(s) + 1
      /\ \A k \in 1..Len(s) : Append(s, t + 1)[k] = s[k]
      /\ Append(s, t + 1)[Len(s) + 1] = t + 1 /\ Len(s) \in Nat
  BY <1>2, AppendFacts
<1> HIDE DEF s, o2
<1>5. n \in 1..Len(h) /\ cut[n] = t /\ Holds(h[n], o, tr, cut[n - 1], t)
  BY <1>1 DEF Layout
<1>6. h[n].snapshot = None
  BY <1>5 DEF Holds
<1>7. Holds(h[n], o2, tr, cut[n - 1], t + 1)
  <2>1. /\ cut[n - 1] \in Nat /\ cut[n - 1] <= t
        /\ Len(s) = t - cut[n - 1]
        /\ \A k \in 1..(t - cut[n - 1]) : s[k] = cut[n - 1] + k
    BY <1>5, <1>6 DEF Holds, s
  <2>2. PICK a \in Nat : a = cut[n - 1]
    BY <2>1
  <2>3. a <= t /\ Len(s) = t - a /\ (\A k \in 1..(t - a) : s[k] = a + k)
    BY <2>1, <2>2
  <2> DEFINE q == Append(s, t + 1)
  <2> HIDE DEF q
  <2>4. Len(q) = (t + 1) - a
    BY <1>4, <2>3 DEF q
  <2>5. ASSUME NEW k \in 1..((t + 1) - a) PROVE q[k] = a + k
    <3>1. CASE k = Len(s) + 1
      BY <3>1, <2>3, <1>4 DEF q
    <3>2. CASE k # Len(s) + 1
      <4>1. k \in 1..Len(s) /\ k \in 1..(t - a)
        BY <3>2, <2>3
      <4> QED
        BY <4>1, <2>3, <1>4 DEF q
    <3> QED
      BY <3>1, <3>2
  <2>6. OrDefault(o2, h[n].frame) = q
    BY <1>3 DEF q
  <2> QED
    BY <1>6, <2>2, <2>3, <2>4, <2>5, <2>6 DEF Holds
<1>8. ASSUME NEW i \in 1..(n - 1) PROVE Holds(h[i], o2, tr, cut[i - 1], cut[i])
  <2>1. i \in 1..Len(h) /\ i # n
    OBVIOUS
  <2>2. h[i].snapshot = None => h[i].frame # f
    BY <1>5, <1>6, <2>1 DEF Distinct
  <2>3. Holds(h[i], o, tr, cut[i - 1], cut[i])
    BY <1>1, <2>1 DEF Layout
  <2> QED
    BY <1>3, <2>2, <2>3, HoldsSame
<1>9. \E c : Layout(h, o2, tr, t + 1, c)
  <2>1. \A i \in 1..(n - 1) : h[i] = h[i] /\ Holds(h[i], o2, tr, cut[i - 1], cut[i])
    BY <1>8
  <2>2. t + 1 \in Nat
    OBVIOUS
  <2> QED
    BY <1>1, <1>7, <2>1, <2>2, EndReplaced
<1> QED
  BY <1>9 DEF o2, s
-----------------------------------------------------------------------------
(* The recording. *)

(* A frame of a call, entered no more often than the call's own if that is
   still in execution. *)
Bounded(f) ==
  /\ f \in Nat \X Nat /\ f[1] \in Entries
  /\ \A k \in 1..Len(evm) : f[1] = evm[k] => f[2] <= opcode_frames[k][2]

RecordInv ==
  /\ taken \in Nat /\ hook_snapshots \in Seq(Items)
  /\ \A f \in DOMAIN opcode_snapshots : opcode_snapshots[f] \in Seq(Nat) /\ Bounded(f)
  /\ \A i \in 1..Len(hook_snapshots) : Bounded(hook_snapshots[i].frame)
  /\ Distinct(hook_snapshots) /\ Nested(hook_snapshots, Open)
  /\ phase = "executing" /\ evm # <<>> =>
       /\ hook_snapshots # <<>>
       /\ hook_snapshots[Len(hook_snapshots)].frame = Last(hook_frames)
  /\ \E cut : Layout(hook_snapshots, opcode_snapshots, trace, taken, cut)

LEMMA NestedAppend ==
  ASSUME NEW h \in Seq(Items), NEW open, NEW open2, Nested(h, open), NEW x \in Items,
         x.frame[1] \in open2, \A y \in open2 : y \in Nat /\ y <= x.frame[1],
         \A i \in 1..Len(h), y \in open2 : y <= h[i].frame[1] => y \in open
  PROVE  Nested(Append(h, x), open2)
<1>1. PICK n \in Nat : n = Len(h)
  OBVIOUS
<1> DEFINE g == Append(h, x)
<1>2. /\ Len(g) = n + 1 /\ g[n + 1] = x /\ \A k \in 1..n : g[k] = h[k]
  BY <1>1, AppendFacts
<1> HIDE DEF g
<1>4. \A i \in 1..(n + 1) : i = n + 1 \/ i \in 1..n
  OBVIOUS
<1> SUFFICES ASSUME NEW i \in 1..(n + 1), NEW j \in 1..(n + 1), i < j, NEW y \in Nat,
                    g[j].frame[1] < y, y <= g[i].frame[1]
             PROVE  y \notin open2 /\ \A m \in (j + 1)..(n + 1) : g[m].frame[1] # y
  <2>1. Nested(g, open2)
    BY <1>2 DEF Nested
  <2> QED
    BY <2>1 DEF g
<1>5. i \in 1..n /\ g[i] = h[i] /\ y <= h[i].frame[1]
  <2>1. i \in 1..n
    OBVIOUS
  <2> QED
    BY <2>1, <1>2
<1>6. CASE j = n + 1
  <2>1. x.frame[1] \in Nat /\ x.frame[1] < y
    BY <1>6, <1>2
  <2>2. y \notin open2
    BY <2>1
  <2>3. (j + 1)..(n + 1) = {}
    BY <1>6
  <2> QED
    BY <2>2, <2>3
<1>7. CASE j \in 1..n
  <2>1. y \notin open /\ \A m \in (j + 1)..n : h[m].frame[1] # y
    BY <1>1, <1>2, <1>5, <1>7 DEF Nested
  <2>2. y \notin open2
    BY <1>1, <1>5, <2>1
  <2>3. ASSUME NEW m \in (j + 1)..(n + 1) PROVE g[m].frame[1] # y
    <3>1. CASE m = n + 1
      BY <3>1, <1>2, <2>2
    <3>2. CASE m # n + 1
      <4>1. m \in (j + 1)..n /\ m \in 1..n
        BY <3>2
      <4> QED
        BY <4>1, <2>1, <1>2
    <3> QED
      BY <3>1, <3>2
  <2> QED
    BY <2>2, <2>3
<1> QED
  BY <1>4, <1>6, <1>7

LEMMA NestedSame ==
  ASSUME NEW h \in Seq(Items), NEW g \in Seq(Items), NEW open, NEW open2, Nested(h, open),
         Len(g) = Len(h), \A i \in 1..Len(h) : g[i].frame = h[i].frame, open2 \subseteq open
  PROVE  Nested(g, open2)
<1> PICK n \in Nat : n = Len(h)
  OBVIOUS
<1> SUFFICES ASSUME NEW i \in 1..n, NEW j \in 1..n, i < j, NEW y \in Nat,
                    h[j].frame[1] < y, y <= h[i].frame[1]
             PROVE  y \notin open2 /\ \A m \in (j + 1)..n : g[m].frame[1] # y
  BY DEF Nested
<1>1. y \notin open /\ \A m \in (j + 1)..n : h[m].frame[1] # y
  BY DEF Nested
<1>2. \A m \in (j + 1)..n : m \in 1..n
  OBVIOUS
<1> QED
  BY <1>1, <1>2

LEMMA DistinctAppend ==
  ASSUME NEW h \in Seq(Items), NEW x \in Items, Distinct(h),
         x.snapshot = None => \A i \in 1..Len(h) : h[i].frame # x.frame
  PROVE  Distinct(Append(h, x))
<1>1. PICK n \in Nat : n = Len(h)
  OBVIOUS
<1> DEFINE g == Append(h, x)
<1>2. Len(g) = n + 1 /\ g[n + 1] = x /\ \A k \in 1..n : g[k] = h[k]
  BY <1>1, AppendFacts
<1> HIDE DEF g
<1>3. \A i \in 1..(n + 1) : i = n + 1 \/ i \in 1..n
  OBVIOUS
<1>4. Distinct(g)
  BY <1>1, <1>2, <1>3 DEF Distinct
<1> QED
  BY <1>4 DEF g

(* The frame in execution. *)
LEMMA TopFacts ==
  ASSUME StackInv, evm # <<>>
  PROVE  /\ Len(evm) \in Nat \ {0} /\ Last(evm) = evm[Len(evm)]
         /\ Last(evm) \in Nat /\ Last(evm) \in Entries /\ Last(evm) \in Open
         /\ \A y \in Open : y \in Nat /\ y <= Last(evm)
         /\ Last(hook_frames) = Last(opcode_frames)
         /\ Last(opcode_frames) = opcode_frames[Len(evm)]
         /\ Last(opcode_frames) \in Nat \X Nat
         /\ Last(opcode_frames)[1] = Last(evm)
<1>1. evm \in Seq(Nat) /\ opcode_frames \in Seq(Nat \X Nat) /\ Len(opcode_frames) = Len(evm)
      /\ hook_frames = opcode_frames
  BY DEF StackInv, ChainInv, FramesInv
<1>2. PICK n \in Nat \ {0} : n = Len(evm)
  BY <1>1, LastFacts
<1>3. opcode_frames # <<>>
  BY <1>1, <1>2
<1>4. Last(evm) = evm[n] /\ evm[n] \in Nat /\ n \in 1..n
  BY <1>1, <1>2, LastFacts
<1>5. Last(opcode_frames) = opcode_frames[n] /\ opcode_frames[n] \in Nat \X Nat
  BY <1>1, <1>2, <1>3, LastFacts
<1>6. evm[n] \in Entries /\ opcode_frames[n][1] = evm[n]
      /\ \A j \in 1..n : j < n => evm[j] < evm[n]
  <2>1. evm[n] \in Entries /\ \A j \in 1..n : j < n => evm[j] < evm[n]
    BY <1>2, <1>4 DEF StackInv, ChainInv
  <2>2. opcode_frames[n] = <<evm[n], Cardinality(Returned(evm[n]))>>
    BY <1>2, <1>4 DEF StackInv, FramesInv
  <2> QED
    BY <2>1, <2>2
<1>7. Open = {evm[j] : j \in 1..n} /\ \A j \in 1..n : evm[j] \in Nat
  BY <1>1, <1>2 DEF Open
<1>8. \A j \in 1..n : j = n \/ j < n
  OBVIOUS
<1>9. \A y \in Open : y \in Nat /\ y <= evm[n]
  BY <1>4, <1>6, <1>7, <1>8
<1> QED
  BY <1>1, <1>2, <1>4, <1>5, <1>6, <1>7, <1>9

LEMMA TopBounded ==
  ASSUME StackInv, evm # <<>>
  PROVE  Bounded(Last(opcode_frames))
<1> PICK n \in Nat \ {0} : n = Len(evm)
  BY TopFacts
<1>1. \A k \in 1..n : evm[k] = evm[n] => k = n
  <2>1. \A k \in 1..n : k = n \/ k < n
    OBVIOUS
  <2>2. \A k \in 1..n : evm[k] \in Nat
    BY DEF StackInv, ChainInv
  <2>3. \A k \in 1..n : k < n => evm[k] < evm[n]
    BY DEF StackInv, ChainInv
  <2> QED
    BY <2>1, <2>2, <2>3
<1>2. Last(opcode_frames)[2] \in Nat
  BY TopFacts
<1> QED
  BY <1>1, <1>2, TopFacts DEF Bounded

LEMMA BoundedInCall ==
  ASSUME StackInv, NEW kind \in Kinds, Call(kind), NEW f, Bounded(f)
  PROVE  Bounded(f)' /\ f[1] \in 1..Len(trace)
<1>1. PICK n \in Nat : n = Len(evm)
  BY CallFacts
<1>2. f \in Nat \X Nat /\ f[1] \in 1..Len(trace)
  BY DEF Bounded, Entries
<1>3. f[1] \in Entries'
  BY <1>2, CallFacts DEF Entries
<1>4. ASSUME NEW k \in 1..(n + 1), f[1] = evm'[k] PROVE f[2] <= opcode_frames'[k][2]
  <2>1. k # n + 1
    <3>1. evm'[n + 1] = Len(trace) + 1 /\ Len(trace) \in Nat
      BY <1>1, CallFacts
    <3> QED
      BY <3>1, <1>2, <1>4
  <2>2. k \in 1..n
    BY <2>1
  <2>3. evm'[k] = evm[k] /\ opcode_frames'[k] = opcode_frames[k]
    BY <1>1, <2>2, CallFacts
  <2> QED
    BY <1>1, <1>4, <2>2, <2>3 DEF Bounded
<1>5. Len(evm') = n + 1
  BY <1>1, CallFacts
<1> QED
  BY <1>2, <1>3, <1>4, <1>5 DEF Bounded

LEMMA BoundedInEnd ==
  ASSUME StackInv, CallEnd, NEW f, Bounded(f)
  PROVE  Bounded(f)'
<1>1. PICK n \in Nat \ {0} : n = Len(evm)
  BY EndFacts
<1>2. f \in Nat \X Nat /\ f[1] \in Entries'
  BY EndFacts DEF Bounded, Entries
<1>3. ASSUME NEW k \in 1..(n - 1), f[1] = evm'[k] PROVE f[2] <= opcode_frames'[k][2]
  <2>1. k \in 1..n /\ evm'[k] = evm[k]
    <3>1. \A i \in 1..(n - 1) : evm'[i] = evm[i]
      BY <1>1, EndFacts
    <3> QED
      BY <3>1
  <2>2. f[2] <= opcode_frames[k][2]
    BY <1>1, <1>3, <2>1 DEF Bounded
  <2>3. opcode_frames[k] \in Nat \X Nat
    BY <1>1, <2>1 DEF StackInv, FramesInv
  <2>4. opcode_frames'[k] = IF k = n - 1 THEN <<opcode_frames[k][1], opcode_frames[k][2] + 1>>
                            ELSE opcode_frames[k]
    BY <1>1, EndFacts
  <2>5. f[2] \in Nat /\ opcode_frames[k][2] \in Nat
    BY <1>2, <2>3
  <2> QED
    BY <2>2, <2>4, <2>5
<1>4. Len(evm') = n - 1
  BY <1>1, EndFacts
<1> QED
  BY <1>2, <1>3, <1>4 DEF Bounded

(* record_snapshot of the opcode inspector. *)
LEMMA RecordedFacts ==
  ASSUME StackInv, RecordInv, Recorded
  PROVE  /\ \E c : Layout(hook_snapshots, RecordOpcode, trace, taken + 1, c)
         /\ \A f \in DOMAIN RecordOpcode : RecordOpcode[f] \in Seq(Nat) /\ Bounded(f)
<1> DEFINE h == hook_snapshots
           f == Last(opcode_frames)
           s == OrDefault(opcode_snapshots, f)
<1>1. evm # <<>> /\ phase = "executing" /\ trace[Last(evm)].kind = "plain"
  BY DEF Recorded, Running
<1>2. PICK n \in Nat \ {0} : n = Len(h)
  <2>1. h \in Seq(Items) /\ h # <<>>
    BY <1>1 DEF RecordInv
  <2> QED
    BY <2>1, LastFacts
<1>3. h[n].frame = f
  BY <1>1, <1>2, TopFacts DEF RecordInv
<1>4. trace[f[1]].kind = "plain"
  BY <1>1, TopFacts
<1>5. RecordOpcode = Put(opcode_snapshots, f, Append(s, taken + 1))
  BY DEF RecordOpcode, SnapshotsOf
<1>6. /\ h \in Seq(Items) /\ taken \in Nat /\ Distinct(h)
      /\ \E cut : Layout(h, opcode_snapshots, trace, taken, cut)
      /\ \A e \in DOMAIN opcode_snapshots : opcode_snapshots[e] \in Seq(Nat)
  BY DEF RecordInv
<1>7. \E c : Layout(h, Put(opcode_snapshots, f, Append(s, taken + 1)), trace, taken + 1, c)
  <2> HIDE DEF h, f
  <2> QED
    BY <1>2, <1>3, <1>4, <1>6, PieceGrows
<1>8. ASSUME NEW e \in DOMAIN RecordOpcode PROVE RecordOpcode[e] \in Seq(Nat) /\ Bounded(e)
  <2>1. Append(s, taken + 1) \in Seq(Nat)
    BY <1>6, AppendFacts DEF OrDefault
  <2>2. CASE e = f
    BY <2>1, <2>2, <1>1, <1>5, TopBounded DEF Put
  <2>3. CASE e # f
    BY <2>3, <1>5, <1>6 DEF Put, RecordInv
  <2> QED
    BY <2>2, <2>3
<1> QED
  BY <1>5, <1>7, <1>8

(* The parts of RecordInv in the next state. *)
LEMMA RecordNext ==
  ASSUME NEW g \in Seq(Items), NEW o, NEW t \in Nat, NEW p,
         hook_snapshots' = g, opcode_snapshots' = o, taken' = t, Open' = p,
         \A e \in DOMAIN o : o[e] \in Seq(Nat) /\ Bounded(e)',
         \A i \in 1..Len(g) : \A e : e = g[i].frame => Bounded(e)',
         Distinct(g), Nested(g, p),
         phase' = "executing" /\ evm' # <<>> => g # <<>> /\ g[Len(g)].frame = Last(hook_frames)',
         \E c : Layout(g, o, trace', t, c)
  PROVE  RecordInv'
<1>1. taken' \in Nat /\ hook_snapshots' \in Seq(Items)
  OBVIOUS
<1>2. \A e \in DOMAIN opcode_snapshots' : opcode_snapshots'[e] \in Seq(Nat) /\ Bounded(e)'
  OBVIOUS
<1>3. ASSUME NEW i \in 1..Len(hook_snapshots'), NEW e, e = hook_snapshots'[i].frame PROVE Bounded(e)'
  BY <1>3
<1>4. Distinct(hook_snapshots)'
  BY DEF Distinct
<1>5. Nested(hook_snapshots, Open)'
  BY DEF Nested
<1>6. (\E cut : Layout(hook_snapshots, opcode_snapshots, trace, taken, cut))'
  <2>1. PICK c : Layout(g, o, trace', t, c)
    OBVIOUS
  <2>2. Layout(hook_snapshots, opcode_snapshots, trace, taken, c)'
    BY <2>1 DEF Layout, Holds, OrDefault
  <2> QED
    BY <2>2
<1>7. phase' = "executing" /\ evm' # <<>> =>
        hook_snapshots' # <<>> /\ hook_snapshots'[Len(hook_snapshots)'].frame = Last(hook_frames)'
  OBVIOUS
<1> QED
  BY <1>1, <1>2, <1>3, <1>4, <1>5, <1>6, <1>7 DEF RecordInv, Bounded

LEMMA CallRecord ==
  ASSUME StackInv, StackInv', RecordInv, NEW kind \in Kinds, Call(kind)
  PROVE  RecordInv'
<1>f. PICK f : f = <<Len(trace) + 1, 0>>
  OBVIOUS
<1>x. PICK x : x = Placeholder(f)
  OBVIOUS
<1> DEFINE h == hook_snapshots
           o1 == IF Recorded THEN RecordOpcode ELSE opcode_snapshots
           o2 == Put(o1, f, OrDefault(o1, f))
<1>1. /\ h \in Seq(Items) /\ taken \in Nat /\ Distinct(h) /\ Nested(h, Open)
      /\ \A i \in 1..Len(h) : Bounded(h[i].frame)
  BY DEF RecordInv
<1>2. /\ hook_snapshots' = Append(h, x)
      /\ opcode_snapshots' = o2
      /\ taken' = IF Recorded THEN taken + 1 ELSE taken
  BY <1>f, <1>x DEF Call
<1>3. Len(trace) \in Nat /\ f \in Nat \X Nat /\ x \in Items /\ x.frame = f /\ x.snapshot = None
  BY <1>f, <1>x, CallFacts DEF Items, Placeholder
<1>4. /\ \E c : Layout(h, o1, trace, taken', c)
      /\ \A e \in DOMAIN o1 : o1[e] \in Seq(Nat) /\ Bounded(e)
      /\ taken' \in Nat
  <2>1. CASE Recorded
    BY <1>1, <1>2, <2>1, RecordedFacts
  <2>2. CASE ~Recorded
    BY <1>1, <1>2, <2>2 DEF RecordInv
  <2> QED
    BY <2>1, <2>2
<1> HIDE DEF h, o1
<1>5. ASSUME NEW e, Bounded(e) PROVE e # f
  BY <1>5, <1>f, <1>3, BoundedInCall
<1>6. f \notin DOMAIN o1
  BY <1>4, <1>5
<1>7. OrDefault(o1, f) = <<>> /\ \A e : OrDefault(o2, e) = OrDefault(o1, e)
  BY <1>6 DEF OrDefault, Put
<1>8. Bounded(f)'
  <2>1. PICK n \in Nat : n = Len(evm)
    BY CallFacts
  <2>2. Len(evm') = n + 1 /\ Len(trace') = Len(trace) + 1
    BY <2>1, CallFacts
  <2>3. ASSUME NEW k \in 1..(n + 1), f[1] = evm'[k] PROVE f[2] <= opcode_frames'[k][2]
    <3>1. k # n + 1 => k \in 1..n
      OBVIOUS
    <3>2. \A i \in 1..n : evm'[i] = evm[i]
      BY <2>1, CallFacts
    <3>3. \A i \in 1..n : evm[i] \in 1..Len(trace)
      BY <2>1 DEF StackInv, ChainInv, Entries
    <3>4. k = n + 1
      BY <1>f, <1>3, <2>3, <3>1, <3>2, <3>3
    <3>5. opcode_frames'[k] = f
      BY <1>f, <2>1, <3>4, CallFacts
    <3> QED
      BY <1>f, <1>3, <3>5
  <2>4. f[1] \in Entries'
    BY <1>f, <1>3, <2>2 DEF Entries
  <2> QED
    BY <1>3, <2>2, <2>3, <2>4 DEF Bounded
<1>9. \A e \in DOMAIN o2 : o2[e] \in Seq(Nat) /\ Bounded(e)'
  <2>1. ASSUME NEW e \in DOMAIN o2 PROVE o2[e] \in Seq(Nat) /\ Bounded(e)'
    <3>1. CASE e = f
      BY <3>1, <1>7, <1>8 DEF Put
    <3>2. CASE e # f
      <4>1. e \in DOMAIN o1 /\ o2[e] = o1[e]
        BY <3>2 DEF Put
      <4>2. Bounded(e)
        BY <4>1, <1>4
      <4> QED
        BY <4>1, <4>2, <1>4, BoundedInCall
    <3> QED
      BY <3>1, <3>2
  <2> QED
    BY <2>1
<1> HIDE DEF o2
<1>a. PICK n \in Nat : n = Len(h)
  BY <1>1
<1>b. /\ Append(h, x) \in Seq(Items) /\ Len(Append(h, x)) = n + 1
      /\ \A k \in 1..n : Append(h, x)[k] = h[k]
      /\ Append(h, x)[n + 1] = x
  BY <1>1, <1>3, <1>a, AppendFacts
<1>10. ASSUME NEW i \in 1..(n + 1), NEW e, e = Append(h, x)[i].frame PROVE Bounded(e)'
  <2>1. CASE i = n + 1
    BY <2>1, <1>b, <1>3, <1>8, <1>10
  <2>2. CASE i # n + 1
    <3>1. i \in 1..n
      BY <2>2
    <3>2. Bounded(e)
      BY <1>1, <1>a, <1>b, <1>10, <3>1
    <3> QED
      BY <3>2, BoundedInCall
  <2> QED
    BY <2>1, <2>2
<1>11. Distinct(Append(h, x))
  <2>1. \A i \in 1..Len(h) : h[i].frame # x.frame
    BY <1>1, <1>3, <1>5
  <2> QED
    BY <1>1, <1>3, <2>1, DistinctAppend
<1>12. PICK p : p = Open \union {f[1]}
  OBVIOUS
<1>13. Open' = p
  <2>1. PICK m \in Nat : m = Len(evm)
    BY CallFacts
  <2>2. Len(evm') = m + 1 /\ evm'[m + 1] = f[1] /\ \A k \in 1..m : evm'[k] = evm[k]
    BY <1>f, <2>1, CallFacts
  <2>3. Open' = {evm'[j] : j \in 1..(m + 1)} /\ Open = {evm[j] : j \in 1..m}
    BY <2>1, <2>2 DEF Open
  <2>4. 1..m \subseteq 1..(m + 1) /\ m + 1 \in 1..(m + 1) /\ \A k \in 1..(m + 1) : k = m + 1 \/ k \in 1..m
    OBVIOUS
  <2> QED
    BY <1>12, <2>2, <2>3, <2>4
<1>14. Nested(Append(h, x), p)
  <2>1. \A y \in Open : y \in 1..Len(trace)
    BY DEF Open, StackInv, ChainInv, Entries
  <2>2. \A y \in p : y \in Nat /\ y <= x.frame[1]
    BY <1>f, <1>3, <1>12, <2>1
  <2>3. ASSUME NEW i \in 1..Len(h), NEW y \in p, y <= h[i].frame[1] PROVE y \in Open
    <3>1. h[i].frame[1] \in 1..Len(trace)
      BY <1>1 DEF Bounded, Entries
    <3> QED
      BY <1>f, <1>3, <1>12, <2>3, <3>1
  <2> QED
    BY <1>1, <1>3, <1>12, <2>2, <2>3, NestedAppend
<1>15. \E c : Layout(Append(h, x), o2, trace', taken', c)
  <2>1. PICK cut : Layout(h, o1, trace, taken', cut)
    BY <1>4
  <2>2. ASSUME NEW i \in 1..Len(h) PROVE Holds(h[i], o2, trace', cut[i - 1], cut[i])
    <3>1. Holds(h[i], o1, trace, cut[i - 1], cut[i])
      BY <2>1 DEF Layout
    <3>2. h[i].frame[1] \in 1..Len(trace)
      BY <1>1 DEF Bounded, Entries
    <3>3. trace'[h[i].frame[1]] = trace[h[i].frame[1]]
      BY <3>2, CallFacts
    <3> QED
      BY <1>7, <3>1, <3>3, HoldsSame
  <2>3. Holds(x, o2, trace', taken', taken')
    <3>1. PICK t \in Nat : t = taken'
      BY <1>4
    <3>2. OrDefault(o2, x.frame) = <<>> /\ 1..(t - t) = {} /\ t - t = 0 /\ t <= t
      BY <1>3, <1>7
    <3>3. Len(OrDefault(o2, x.frame)) = t - t
      BY <3>2
    <3>4. Holds(x, o2, trace', t, t)
      BY <1>3, <3>2, <3>3 DEF Holds
    <3> QED
      BY <3>1, <3>4
  <2> QED
    BY <1>1, <1>3, <1>4, <2>1, <2>2, <2>3, Extended
<1>16. hook_snapshots' # <<>> /\ hook_snapshots'[n + 1].frame = Last(hook_frames)'
  <2>1. hook_frames' = opcode_frames' /\ Len(opcode_frames') = Len(evm) + 1
        /\ opcode_frames'[Len(evm) + 1] = f
    BY <1>f, CallFacts
  <2>2. Last(hook_frames)' = f
    BY <2>1 DEF Last
  <2> QED
    BY <1>2, <1>3, <1>b, <2>2
<1>17. taken' \in Nat /\ Append(h, x) \in Seq(Items)
  BY <1>4, <1>b
<1>18. PICK g, o, t : g = hook_snapshots' /\ o = opcode_snapshots' /\ t = taken'
  OBVIOUS
<1> QED
  BY <1>2, <1>b, <1>9, <1>10, <1>11, <1>13, <1>14, <1>15, <1>16, <1>17, <1>18, RecordNext

LEMMA EndRecord ==
  ASSUME StackInv, StackInv', RecordInv, CallEnd
  PROVE  RecordInv'
<1>1. PICK n \in Nat \ {0} : n = Len(evm)
  BY EndFacts
<1> DEFINE h == hook_snapshots
           o == opcode_snapshots
<1>2. /\ h \in Seq(Items) /\ taken \in Nat /\ Distinct(h) /\ Nested(h, Open)
      /\ \A i \in 1..Len(h) : Bounded(h[i].frame)
      /\ \A e \in DOMAIN o : o[e] \in Seq(Nat) /\ Bounded(e)
      /\ \E cut : Layout(h, o, trace, taken, cut)
  BY DEF RecordInv
<1>3. /\ taken' = taken /\ opcode_snapshots' = o /\ trace' = trace
      /\ hook_snapshots' = IF hook_frames' = <<>> THEN h ELSE Append(h, Placeholder(Last(hook_frames')))
  BY DEF CallEnd, PopHookFrame, PopOpcodeFrame
<1>4. /\ evm' \in Seq(Nat) /\ Len(evm') = n - 1 /\ \A k \in 1..(n - 1) : evm'[k] = evm[k]
      /\ opcode_frames' \in Seq(Nat \X Nat) /\ Len(opcode_frames') = n - 1 /\ hook_frames' = opcode_frames'
      /\ phase' = IF evm' = <<>> THEN "executed" ELSE "executing"
  BY <1>1, EndFacts
<1>5. PICK p : p = {evm[j] : j \in 1..(n - 1)}
  OBVIOUS
<1>6. Open' = p /\ p \subseteq Open
  <2>1. 1..(n - 1) \subseteq 1..n
    OBVIOUS
  <2> QED
    BY <1>1, <1>4, <1>5, <2>1 DEF Open
<1>7. PICK t \in Nat : t = taken
  BY <1>2
<1>8. \A e \in DOMAIN o : o[e] \in Seq(Nat) /\ Bounded(e)'
  BY <1>2, BoundedInEnd
<1>9. CASE n = 1
  <2>1. hook_frames' = <<>> /\ evm' = <<>>
    BY <1>4, <1>9, EmptySeq
  <2>2. hook_snapshots' = h
    BY <1>3, <2>1
  <2>3. \A i \in 1..Len(h) : \A e : e = h[i].frame => Bounded(e)'
    BY <1>2, BoundedInEnd
  <2>4. Nested(h, p)
    BY <1>2, <1>6, NestedSame
  <2> HIDE DEF h, o
  <2> QED
    BY <1>2, <1>3, <1>4, <1>6, <1>7, <1>8, <2>1, <2>2, <2>3, <2>4, RecordNext
<1>10. CASE n # 1
  <2>1. n - 1 \in 1..(n - 1) /\ n - 1 \in 1..n /\ 1..(n - 1) \subseteq 1..n
    BY <1>10
  <2>2. PICK f : f = Last(hook_frames')
    OBVIOUS
  <2>3. PICK x : x = Placeholder(f)
    OBVIOUS
  <2>4. /\ hook_frames' # <<>> /\ f = opcode_frames'[n - 1]
        /\ hook_snapshots' = Append(h, x)
    <3>1. hook_frames' # <<>>
      BY <1>4, <1>10
    <3> QED
      BY <1>3, <1>4, <2>2, <2>3, <3>1, LastFacts
  <2>5. opcode_frames'[n - 1] = <<opcode_frames[n - 1][1], opcode_frames[n - 1][2] + 1>>
    <3>1. \A k \in 1..(n - 1) : opcode_frames'[k] =
            IF k = n - 1 THEN <<opcode_frames[k][1], opcode_frames[k][2] + 1>> ELSE opcode_frames[k]
      BY <1>1, EndFacts
    <3> QED
      BY <2>1, <3>1
  <2>6. opcode_frames[n - 1] \in Nat \X Nat /\ opcode_frames[n - 1][1] = evm[n - 1]
    <3>1. opcode_frames \in Seq(Nat \X Nat) /\ Len(opcode_frames) = n
      BY <1>1 DEF StackInv, FramesInv
    <3>2. \A k \in 1..n : opcode_frames[k] = <<evm[k], Cardinality(Returned(evm[k]))>>
      BY <1>1 DEF StackInv, FramesInv
    <3> QED
      BY <2>1, <3>1, <3>2
  <2>7. f \in Nat \X Nat /\ f[1] = evm[n - 1] /\ f[2] = opcode_frames[n - 1][2] + 1
    BY <2>4, <2>5, <2>6
  <2>8. x \in Items /\ x.frame = f /\ x.snapshot = None
    BY <2>3, <2>7 DEF Items, Placeholder
  <2>9. ASSUME NEW e, Bounded(e) PROVE e # f
    <3>1. e[1] = evm[n - 1] => e[2] <= opcode_frames[n - 1][2]
      BY <1>1, <2>1, <2>9 DEF Bounded
    <3> QED
      BY <2>6, <2>7, <3>1
  <2>10. /\ \A k \in 1..n : evm[k] \in Nat /\ evm[k] \in Entries
         /\ \A j, k \in 1..n : j < k => evm[j] < evm[k]
    BY <1>1 DEF StackInv, ChainInv
  <2>11. \A k \in 1..(n - 1) : evm[k] <= evm[n - 1] /\ (evm[k] = evm[n - 1] => k = n - 1)
    <3>1. \A k \in 1..(n - 1) : k = n - 1 \/ k < n - 1
      BY <2>1
    <3> QED
      BY <2>1, <2>10, <3>1
  <2>12. Bounded(f)'
    <3>1. f[1] \in Entries'
      BY <1>3, <2>1, <2>7, <2>10 DEF Entries
    <3>2. ASSUME NEW k \in 1..(n - 1), f[1] = evm'[k] PROVE f[2] <= opcode_frames'[k][2]
      BY <1>4, <2>4, <2>7, <2>11, <3>2
    <3> QED
      BY <1>4, <2>7, <3>1, <3>2 DEF Bounded
  <2>13. PICK m \in Nat : m = Len(h)
    BY <1>2
  <2>14. /\ Append(h, x) \in Seq(Items) /\ Len(Append(h, x)) = m + 1
         /\ \A k \in 1..m : Append(h, x)[k] = h[k]
         /\ Append(h, x)[m + 1] = x
    BY <1>2, <2>8, <2>13, AppendFacts
  <2>15. ASSUME NEW i \in 1..(m + 1), NEW e, e = Append(h, x)[i].frame PROVE Bounded(e)'
    <3>1. CASE i = m + 1
      BY <3>1, <2>8, <2>12, <2>14, <2>15
    <3>2. CASE i # m + 1
      <4>1. i \in 1..m
        BY <3>2
      <4>2. Bounded(e)
        BY <1>2, <2>13, <2>14, <2>15, <4>1
      <4> QED
        BY <4>2, BoundedInEnd
    <3> QED
      BY <3>1, <3>2
  <2>16. Distinct(Append(h, x))
    <3>1. \A i \in 1..Len(h) : h[i].frame # x.frame
      BY <1>2, <2>8, <2>9
    <3> QED
      BY <1>2, <2>8, <3>1, DistinctAppend
  <2>17. Nested(Append(h, x), p)
    <3>1. x.frame[1] \in p /\ \A y \in p : y \in Nat /\ y <= x.frame[1]
      BY <1>5, <2>1, <2>7, <2>8, <2>10, <2>11
    <3>2. \A i \in 1..Len(h), y \in p : y <= h[i].frame[1] => y \in Open
      BY <1>6
    <3> QED
      BY <1>2, <2>8, <3>1, <3>2, NestedAppend
  <2>18. \E c : Layout(Append(h, x), o, trace, t, c)
    <3>1. PICK cut : Layout(h, o, trace, t, cut)
      BY <1>2, <1>7
    <3>2. \A i \in 1..Len(h) : Holds(h[i], o, trace, cut[i - 1], cut[i])
      BY <3>1 DEF Layout
    <3>3. f \notin DOMAIN o
      BY <1>2, <2>9
    <3>4. OrDefault(o, x.frame) = <<>> /\ 1..(t - t) = {} /\ t - t = 0 /\ t <= t
      BY <2>8, <3>3 DEF OrDefault
    <3>5. Len(OrDefault(o, x.frame)) = t - t
      BY <3>4
    <3>6. Holds(x, o, trace, t, t)
      BY <2>8, <3>4, <3>5 DEF Holds
    <3> QED
      BY <1>2, <2>8, <3>1, <3>2, <3>6, Extended
  <2>19. Append(h, x) # <<>> /\ Append(h, x)[Len(Append(h, x))].frame = Last(hook_frames)'
    BY <2>2, <2>8, <2>14
  <2> HIDE DEF h, o
  <2>20. PICK g : g = hook_snapshots'
    OBVIOUS
  <2> QED
    BY <1>3, <1>6, <1>7, <1>8, <2>4, <2>14, <2>15, <2>16, <2>17, <2>18, <2>19, <2>20, RecordNext
<1> QED
  BY <1>9, <1>10

LEMMA BoundedSame ==
  ASSUME UNCHANGED <<evm, trace, opcode_frames>>, NEW e, Bounded(e)
  PROVE  Bounded(e)'
  BY DEF Bounded, Entries

LEMMA RecordKept ==
  ASSUME RecordInv, UNCHANGED <<evm, trace, opcode_frames, opcode_snapshots, hook_frames, hook_snapshots, taken>>,
         phase' = phase \/ phase' # "executing"
  PROVE  RecordInv'
<1>1. /\ hook_snapshots \in Seq(Items) /\ taken \in Nat /\ Distinct(hook_snapshots)
      /\ Nested(hook_snapshots, Open)
      /\ \A i \in 1..Len(hook_snapshots) : Bounded(hook_snapshots[i].frame)
      /\ \A e \in DOMAIN opcode_snapshots : opcode_snapshots[e] \in Seq(Nat) /\ Bounded(e)
      /\ \E cut : Layout(hook_snapshots, opcode_snapshots, trace, taken, cut)
  BY DEF RecordInv
<1>2. phase' = "executing" /\ evm' # <<>> =>
        hook_snapshots # <<>> /\ hook_snapshots[Len(hook_snapshots)].frame = Last(hook_frames)'
  <2>1. Last(hook_frames)' = Last(hook_frames)
    BY DEF Last
  <2> QED
    BY <2>1 DEF RecordInv
<1>3. PICK g, o, t, p : g = hook_snapshots /\ o = opcode_snapshots /\ t = taken /\ p = Open
  OBVIOUS
<1>4. Open' = p
  BY <1>3 DEF Open
<1>5. \A e \in DOMAIN o : o[e] \in Seq(Nat) /\ Bounded(e)'
  BY <1>1, <1>3, BoundedSame
<1>6. \A i \in 1..Len(g) : \A e : e = g[i].frame => Bounded(e)'
  BY <1>1, <1>3, BoundedSame
<1>7. \E c : Layout(g, o, trace', t, c)
  BY <1>1, <1>3
<1> QED
  BY <1>1, <1>2, <1>3, <1>4, <1>5, <1>6, <1>7, RecordNext

LEMMA PlainRecord ==
  ASSUME StackInv, RecordInv, PlainStep
  PROVE  RecordInv'
<1>1. /\ hook_snapshots \in Seq(Items) /\ taken \in Nat /\ Distinct(hook_snapshots)
      /\ Nested(hook_snapshots, Open)
      /\ \A i \in 1..Len(hook_snapshots) : Bounded(hook_snapshots[i].frame)
      /\ phase = "executing" /\ evm # <<>> =>
          /\ hook_snapshots # <<>>
          /\ hook_snapshots[Len(hook_snapshots)].frame = Last(hook_frames)
  BY DEF RecordInv
<1>2. /\ UNCHANGED <<evm, trace, opcode_frames, hook_frames, hook_snapshots, phase>>
      /\ opcode_snapshots' = RecordOpcode /\ taken' = taken + 1 /\ Recorded
  BY DEF PlainStep
<1>3. Last(hook_frames)' = Last(hook_frames)
  BY <1>2 DEF Last
<1>4. PICK g, o, t, p : g = hook_snapshots /\ o = RecordOpcode /\ t = taken + 1 /\ p = Open
  OBVIOUS
<1>5. Open' = p
  BY <1>2, <1>4 DEF Open
<1>6. \A e \in DOMAIN o : o[e] \in Seq(Nat) /\ Bounded(e)'
  BY <1>2, <1>4, RecordedFacts, BoundedSame
<1>7. \A i \in 1..Len(g) : \A e : e = g[i].frame => Bounded(e)'
  BY <1>1, <1>2, <1>4, BoundedSame
<1>8. \E c : Layout(g, o, trace', t, c)
  BY <1>2, <1>4, RecordedFacts
<1>9. t \in Nat
  BY <1>1, <1>4
<1> QED
  BY <1>1, <1>2, <1>3, <1>4, <1>5, <1>6, <1>7, <1>8, <1>9, RecordNext

LEMMA HookRecord ==
  ASSUME StackInv, RecordInv, HookStep
  PROVE  RecordInv'
<1> DEFINE h == hook_snapshots
           o == opcode_snapshots
<1>1. /\ UNCHANGED <<evm, trace, opcode_frames, hook_frames, opcode_snapshots, phase>>
      /\ hook_snapshots' = FillOrPush(Last(hook_frames), taken + 1) /\ taken' = taken + 1
      /\ phase = "executing" /\ evm # <<>> /\ trace[Last(evm)].kind = "sourced"
  BY DEF HookStep, Running
<1>2. /\ h \in Seq(Items) /\ taken \in Nat /\ Distinct(h) /\ Nested(h, Open)
      /\ \A i \in 1..Len(h) : Bounded(h[i].frame)
      /\ \A e \in DOMAIN o : o[e] \in Seq(Nat) /\ Bounded(e)
      /\ h # <<>> /\ h[Len(h)].frame = Last(hook_frames)
      /\ \E cut : Layout(h, o, trace, taken, cut)
  BY <1>1 DEF RecordInv
<1>3. PICK n \in Nat \ {0} : n = Len(h)
  BY <1>2, LastFacts
<1>4. PICK f : f = Last(hook_frames)
  OBVIOUS
<1>5. /\ f \in Nat \X Nat /\ f = Last(hook_frames)' /\ trace[f[1]].kind = "sourced"
      /\ f[1] \in Open /\ \A y \in Open : y \in Nat /\ y <= f[1]
  <2>1. Last(hook_frames)' = f
    BY <1>1, <1>4 DEF Last
  <2> QED
    BY <1>1, <1>4, <2>1, TopFacts
<1>6. PICK t \in Nat : t = taken + 1 /\ t - 1 = taken
  BY <1>2
<1>7. PICK cut : Layout(h, o, trace, taken, cut)
  BY <1>2
<1>8. \A e \in DOMAIN o : o[e] \in Seq(Nat) /\ Bounded(e)'
  BY <1>1, <1>2, BoundedSame
<1>9. Bounded(f)
  BY <1>2, <1>3, <1>4
<1>10. PICK p : p = Open
  OBVIOUS
<1>11. Open' = p
  BY <1>1, <1>10 DEF Open
<1>12. /\ cut \in [0..n -> Nat] /\ cut[n] = taken
       /\ \A i \in 1..n : Holds(h[i], o, trace, cut[i - 1], cut[i])
  BY <1>3, <1>7 DEF Layout
<1>13. Last(h) = h[n] /\ h[n] \in Items /\ n \in 1..n
  BY <1>2, <1>3, LastFacts
<1>14. CASE h[n].snapshot = None
  <2>1. PICK x : x = [h[n] EXCEPT !.snapshot = t]
    OBVIOUS
  <2>2. x \in Items /\ x.frame = f /\ x.snapshot = t /\ t # None
    BY <1>2, <1>3, <1>4, <1>13, <2>1 DEF Items
  <2>3. hook_snapshots' = [h EXCEPT ![n] = x]
    BY <1>1, <1>2, <1>3, <1>6, <1>13, <1>14, <2>1 DEF FillOrPush
  <2>4. PICK g : g = [h EXCEPT ![n] = x]
    OBVIOUS
  <2>5. /\ g \in Seq(Items) /\ Len(g) = n
        /\ \A j \in 1..n : g[j] = IF j = n THEN x ELSE h[j]
    <3> HIDE DEF h
    <3> QED
      BY <1>2, <1>3, <1>13, <2>2, <2>4, ExceptSeq
  <2>6. \A i \in 1..n : g[i].frame = h[i].frame
    BY <1>2, <1>3, <1>4, <2>2, <2>5
  <2>7. \A i \in 1..Len(g) : \A e : e = g[i].frame => Bounded(e)'
    BY <1>1, <1>2, <1>3, <2>5, <2>6, BoundedSame
  <2>8. Distinct(g)
    BY <1>2, <1>3, <2>2, <2>5 DEF Distinct
  <2>9. Nested(g, p)
    BY <1>2, <1>3, <1>10, <2>5, <2>6, NestedSame
  <2>10. Holds(h[n], o, trace, cut[n - 1], taken)
    BY <1>12, <1>13
  <2>11. cut[n - 1] = taken
    BY <1>2, <1>3, <1>4, <1>5, <1>14, <2>10 DEF Holds
  <2>12. Holds(x, o, trace, taken, t)
    BY <1>2, <1>5, <1>6, <2>2 DEF Holds
  <2>13. \A i \in 1..(n - 1) : g[i] = h[i] /\ Holds(h[i], o, trace, cut[i - 1], cut[i])
    BY <1>12, <2>5
  <2>14. g[n] = x
    BY <1>13, <2>5
  <2>15. \E c : Layout(g, o, trace, t, c)
    <3> HIDE DEF h, o
    <3> QED
      BY <1>2, <1>3, <1>7, <2>5, <2>11, <2>12, <2>13, <2>14, EndReplaced
  <2>16. g # <<>> /\ g[Len(g)].frame = Last(hook_frames)'
    BY <1>5, <2>2, <2>5, <2>14
  <2> HIDE DEF h, o
  <2>17. taken' = t /\ opcode_snapshots' = o /\ trace' = trace /\ hook_snapshots' = g
    BY <1>1, <1>6, <2>3, <2>4 DEF o
  <2> QED
    BY <1>8, <1>11, <2>5, <2>7, <2>8, <2>9, <2>15, <2>16, <2>17, RecordNext
<1>15. CASE h[n].snapshot # None
  <2>1. PICK x : x = [frame |-> f, snapshot |-> t]
    OBVIOUS
  <2>2. x \in Items /\ x.frame = f /\ x.snapshot = t /\ t # None
    BY <1>5, <2>1 DEF Items
  <2>3. hook_snapshots' = Append(h, x)
    BY <1>1, <1>4, <1>6, <1>13, <1>15, <2>1 DEF FillOrPush
  <2>4. /\ Append(h, x) \in Seq(Items) /\ Len(Append(h, x)) = n + 1
        /\ \A k \in 1..n : Append(h, x)[k] = h[k]
        /\ Append(h, x)[n + 1] = x
    BY <1>2, <1>3, <2>2, AppendFacts
  <2>5. ASSUME NEW i \in 1..(n + 1), NEW e, e = Append(h, x)[i].frame PROVE Bounded(e)'
    <3>1. CASE i = n + 1
      BY <3>1, <1>1, <1>9, <2>2, <2>4, <2>5, BoundedSame
    <3>2. CASE i # n + 1
      <4>1. i \in 1..n
        BY <3>2
      <4>2. Bounded(e)
        BY <1>2, <1>3, <2>4, <2>5, <4>1
      <4> QED
        BY <1>1, <4>2, BoundedSame
    <3> QED
      BY <3>1, <3>2
  <2>6. Distinct(Append(h, x))
    BY <1>2, <2>2, DistinctAppend
  <2>7. Nested(Append(h, x), p)
    BY <1>2, <1>5, <1>10, <2>2, NestedAppend
  <2>8. Holds(x, o, trace, taken, t)
    BY <1>2, <1>5, <1>6, <2>2 DEF Holds
  <2>9. \E c : Layout(Append(h, x), o, trace, t, c)
    <3> HIDE DEF h, o
    <3> QED
      BY <1>2, <1>3, <1>7, <1>12, <2>2, <2>8, Extended
  <2>10. Append(h, x) # <<>> /\ Append(h, x)[Len(Append(h, x))].frame = Last(hook_frames)'
    BY <1>5, <2>2, <2>4
  <2> HIDE DEF h, o
  <2>11. taken' = t /\ opcode_snapshots' = o /\ trace' = trace
    BY <1>1, <1>6 DEF o
  <2>12. PICK g : g = hook_snapshots'
    OBVIOUS
  <2> QED
    BY <1>8, <1>11, <2>3, <2>4, <2>5, <2>6, <2>7, <2>9, <2>10, <2>11, <2>12, RecordNext
<1> QED
  BY <1>14, <1>15

LEMMA RecordStep == StackInv /\ RecordInv /\ [Next \/ PanicStep]_vars => RecordInv'
<1> SUFFICES ASSUME StackInv, RecordInv, [Next \/ PanicStep]_vars PROVE RecordInv'
  OBVIOUS
<1>1. ASSUME NEW kind \in Kinds, Call(kind) PROVE RecordInv'
  BY <1>1, CallRecord, CallStack
<1>2. CASE CallEnd
  BY <1>2, EndRecord, EndStack
<1>3. CASE PlainStep
  BY <1>3, PlainRecord
<1>4. CASE HookStep
  BY <1>4, HookRecord
<1>5. CASE Merge \/ Analyze
  BY <1>5, RecordKept DEF Merge, Analyze, inspectorVars
<1>6. CASE PanicStep
  BY <1>6, RecordKept DEF PanicStep, inspectorVars
<1>7. CASE UNCHANGED vars
  BY <1>7, RecordKept DEF vars, inspectorVars
<1> QED
  BY <1>1, <1>2, <1>3, <1>4, <1>5, <1>6, <1>7 DEF Next

LEMMA RecordInit == Init => RecordInv
<1> SUFFICES ASSUME Init PROVE RecordInv
  OBVIOUS
<1>1. /\ evm = <<>> /\ trace = <<>> /\ hook_snapshots = <<>> /\ taken = 0
      /\ opcode_snapshots = [f \in {} |-> <<>>]
  BY DEF Init
<1>2. Layout(hook_snapshots, opcode_snapshots, trace, taken, [i \in 0..0 |-> 0])
  <2>1. Len(hook_snapshots) = 0 /\ 1..0 = {}
    BY <1>1
  <2> QED
    BY <1>1, <2>1 DEF Layout
<1>3. hook_snapshots \in Seq(Items) /\ 1..Len(hook_snapshots) = {} /\ taken \in Nat
  BY <1>1
<1>4. Distinct(hook_snapshots) /\ Nested(hook_snapshots, Open)
  BY <1>3 DEF Distinct, Nested
<1>5. DOMAIN opcode_snapshots = {}
  BY <1>1
<1> QED
  BY <1>1, <1>2, <1>3, <1>4, <1>5 DEF RecordInv
-----------------------------------------------------------------------------
(* The merged list. *)

MergedItems == [frame : Nat \X Nat, snapshot : Nat, hook : BOOLEAN]

(* The snapshots from 1 to t, with what is known of their calls: those taken at
   hooks are of instrumented calls, and once a snapshot of a call is followed by
   one of an earlier call, the calls between have no more. *)
MergedAs(m, t, tr) ==
  /\ m \in Seq(MergedItems) /\ Len(m) = t
  /\ \A k \in 1..t : /\ m[k].snapshot = k
                     /\ m[k].frame[1] \in 1..Len(tr)
                     /\ m[k].hook = (tr[m[k].frame[1]].kind = "sourced")
  /\ \A i, j, k \in 1..t : i < j /\ j < k =>
        ~(m[j].frame[1] < m[k].frame[1] /\ m[k].frame[1] <= m[i].frame[1])

MergedInv == phase \in {"merged", "linked"} => MergedAs(merged, taken, trace)

(* The items of a list that is cut in pieces, by the piece they are in. *)
LEMMA PieceIndex ==
  ASSUME NEW n \in Nat, NEW t \in Nat, NEW cut \in [0..n -> Nat], cut[0] = 0, cut[n] = t
  PROVE  \E ix \in [1..t -> 1..n] :
            /\ \A k \in 1..t : cut[ix[k] - 1] < k /\ k <= cut[ix[k]]
            /\ \A k, l \in 1..t : k < l => ix[k] <= ix[l]
<1> DEFINE T(k) == {i \in 1..n : k <= cut[i]}
           ix == [k \in 1..t |-> Min(T(k))]
<1>1. ASSUME NEW k \in 1..t
      PROVE  /\ T(k) \in SUBSET Nat /\ T(k) # {}
             /\ Min(T(k)) \in T(k) /\ \A y \in T(k) : Min(T(k)) <= y
  <2>1. n # 0
    OBVIOUS
  <2>2. n \in T(k)
    BY <2>1
  <2>3. T(k) \in SUBSET Nat /\ T(k) # {}
    BY <2>2
  <2> HIDE DEF T
  <2> QED
    BY <2>3, MinFacts
<1>2. ASSUME NEW k \in 1..t
      PROVE  ix[k] \in 1..n /\ cut[ix[k] - 1] < k /\ k <= cut[ix[k]]
  <2>1. PICK i \in 1..n : i = ix[k] /\ k <= cut[i] /\ \A y \in T(k) : i <= y
    BY <1>1
  <2>2. i - 1 \in 0..n /\ cut[i - 1] \in Nat
    OBVIOUS
  <2>3. CASE i = 1
    BY <2>1, <2>3
  <2>4. CASE i # 1
    <3>1. i - 1 \in 1..n /\ ~(i <= i - 1)
      BY <2>4
    <3>2. ~(k <= cut[i - 1])
      BY <2>1, <3>1
    <3> QED
      BY <2>1, <2>2, <3>2
  <2> QED
    BY <2>1, <2>3, <2>4
<1>3. ASSUME NEW k \in 1..t, NEW l \in 1..t, k < l PROVE ix[k] <= ix[l]
  <2>1. PICK j \in 1..n : j = ix[l] /\ l <= cut[j]
    BY <1>2
  <2>2. j \in 0..n /\ cut[j] \in Nat
    OBVIOUS
  <2>3. j \in T(k)
    BY <1>3, <2>1, <2>2
  <2> QED
    BY <1>1, <2>1, <2>3
<1>4. ix \in [1..t -> 1..n]
  BY <1>2
<1> HIDE DEF ix, T
<1> QED
  BY <1>2, <1>3, <1>4

(* The piece of an item has the numbers that Layout gives to it. *)
LEMMA PieceFacts ==
  ASSUME StackInv, RecordInv, NEW cut, Layout(hook_snapshots, opcode_snapshots, trace, taken, cut),
         NEW i \in 1..Len(hook_snapshots), NEW s,
         s = IF hook_snapshots[i].snapshot = None THEN OpcodePiece(i) ELSE HookPiece(i)
  PROVE  /\ s \in Seq(MergedItems) /\ Len(s) = cut[i] - cut[i - 1]
         /\ \A k \in 1..Len(s) :
              /\ s[k].frame = hook_snapshots[i].frame
              /\ s[k].snapshot = cut[i - 1] + k
              /\ s[k].hook = (trace[hook_snapshots[i].frame[1]].kind = "sourced")
<1> DEFINE h == hook_snapshots
           o == opcode_snapshots
<1>1. PICK x : x = h[i]
  OBVIOUS
<1>2. Holds(x, o, trace, cut[i - 1], cut[i])
  BY <1>1 DEF Layout
<1>3. PICK f : f = x.frame
  OBVIOUS
<1>4. /\ h \in Seq(Items) /\ x \in Items /\ f \in Nat \X Nat
      /\ \A e \in DOMAIN o : o[e] \in Seq(Nat)
  <2>1. h \in Seq(Items) /\ \A e \in DOMAIN o : o[e] \in Seq(Nat)
    BY DEF RecordInv
  <2>2. x \in Items
    BY <1>1, <2>1, ElementOfSeq
  <2> QED
    BY <1>3, <2>1, <2>2 DEF Items
<1>5. PICK a \in Nat, b \in Nat : a = cut[i - 1] /\ b = cut[i] /\ a <= b
  BY <1>2 DEF Holds
<1>6. CASE x.snapshot = None
  <2>1. \A j \in 1..(i - 1) : h[j] # Placeholder(f)
    <3>1. \A j \in 1..(i - 1) : j \in 1..Len(h) /\ j # i
      BY <1>4
    <3>2. \A j \in 1..(i - 1) : h[j] = Placeholder(f) => h[j].snapshot = None /\ h[j].frame = f
      BY DEF Placeholder
    <3> QED
      BY <1>1, <1>3, <1>6, <3>1, <3>2 DEF RecordInv, Distinct
  <2>2. PICK q : q = OrDefault(o, f)
    OBVIOUS
  <2>3. /\ q \in Seq(Nat) /\ Len(q) = b - a /\ \A k \in 1..(b - a) : q[k] = a + k
        /\ a # b => trace[f[1]].kind = "plain"
    <3>1. q \in Seq(Nat)
      BY <1>4, <2>2 DEF OrDefault
    <3> QED
      BY <1>2, <1>3, <1>5, <1>6, <2>2, <3>1 DEF Holds
  <2>4. s = [k \in DOMAIN q |-> [frame |-> f, snapshot |-> q[k], hook |-> FALSE]]
    <3>1. s = IF f \in DOMAIN o
              THEN [k \in DOMAIN o[f] |-> [frame |-> f, snapshot |-> o[f][k], hook |-> FALSE]]
              ELSE <<>>
      BY <1>1, <1>3, <1>6, <2>1 DEF OpcodePiece
    <3>2. CASE f \in DOMAIN o
      BY <2>2, <3>1, <3>2 DEF OrDefault
    <3>3. CASE f \notin DOMAIN o
      <4>1. q = <<>> /\ s = <<>>
        BY <2>2, <3>1, <3>3 DEF OrDefault
      <4> QED
        BY <4>1
    <3> QED
      BY <3>2, <3>3
  <2>5. PICK n \in Nat : n = Len(q) /\ DOMAIN q = 1..n /\ n = b - a
    BY <2>3
  <2>6. \A k \in 1..n : [frame |-> f, snapshot |-> q[k], hook |-> FALSE] \in MergedItems
    BY <1>4, <2>3, <2>5 DEF MergedItems
  <2>7. s \in Seq(MergedItems) /\ Len(s) = n
    <3>1. \A k \in 1..n : s[k] \in MergedItems
      BY <2>4, <2>5, <2>6
    <3>2. s = [k \in 1..n |-> s[k]] /\ n \in Nat
      BY <2>4, <2>5
    <3>3. s \in [1..n -> MergedItems]
      BY <3>1, <3>2
    <3> QED
      BY <3>2, <3>3, FunctionIsSeq
  <2>8. ASSUME NEW k \in 1..n
        PROVE  s[k].frame = f /\ s[k].snapshot = a + k /\ s[k].hook = (trace[f[1]].kind = "sourced")
    <3>1. s[k] = [frame |-> f, snapshot |-> q[k], hook |-> FALSE]
      BY <2>4, <2>5
    <3>2. b - a \in Nat /\ k \in 1..(b - a) /\ a # b
      BY <2>5
    <3>3. trace[f[1]].kind = "plain" /\ "plain" # "sourced"
      BY <2>3, <3>2
    <3>4. q[k] = a + k
      BY <2>3, <3>2
    <3>5. /\ s[k].frame = f /\ s[k].snapshot = a + k /\ s[k].hook = FALSE
          /\ trace[f[1]].kind # "sourced"
      BY <3>1, <3>3, <3>4
    <3>6. (trace[f[1]].kind = "sourced") = FALSE
      BY <3>5
    <3> QED
      BY <3>5, <3>6
  <2> QED
    BY <1>1, <1>3, <1>5, <2>5, <2>7, <2>8
<1>7. CASE x.snapshot # None
  <2>1. x.snapshot = b /\ b = a + 1 /\ trace[f[1]].kind = "sourced"
    BY <1>2, <1>3, <1>5, <1>7 DEF Holds
  <2>2. PICK y : y = [frame |-> f, snapshot |-> b, hook |-> TRUE]
    OBVIOUS
  <2>3. s = <<y>>
    BY <1>1, <1>3, <1>7, <2>1, <2>2 DEF HookPiece
  <2>4. y \in MergedItems
    BY <1>4, <2>2 DEF MergedItems
  <2>5. s \in Seq(MergedItems) /\ Len(s) = 1 /\ s[1] = y
    <3>1. ASSUME NEW S, NEW z \in S PROVE <<z>> \in Seq(S) /\ Len(<<z>>) = 1 /\ <<z>>[1] = z
      OBVIOUS
    <3> QED
      BY <2>3, <2>4, <3>1
  <2>6. b - a = 1 /\ \A k \in 1..1 : k = 1
    BY <2>1
  <2>7. y.frame = f /\ y.snapshot = a + 1 /\ y.hook = (trace[f[1]].kind = "sourced")
    BY <2>1, <2>2
  <2>8. \A k \in 1..Len(s) : k = 1 /\ s[k] = y
    BY <2>5, <2>6
  <2> HIDE DEF h, o
  <2>9. Len(s) = cut[i] - cut[i - 1]
    BY <1>5, <2>5, <2>6
  <2>10. \A k \in 1..Len(s) : /\ s[k].frame = f
                              /\ s[k].snapshot = cut[i - 1] + k
                              /\ s[k].hook = (trace[f[1]].kind = "sourced")
    BY <1>5, <2>7, <2>8
  <2>11. hook_snapshots[i].frame = f
    BY <1>1, <1>3 DEF h
  <2> QED
    BY <2>5, <2>9, <2>10, <2>11
<1> QED
  BY <1>6, <1>7

LEMMA MergeStep ==
  ASSUME StackInv, RecordInv, Merge
  PROVE  MergedAs(merged', taken, trace)
<1>1. PICK cut : Layout(hook_snapshots, opcode_snapshots, trace, taken, cut)
  BY DEF RecordInv
<1>2. PICK h : h = hook_snapshots /\ h \in Seq(Items)
  BY DEF RecordInv
<1>3. PICK n \in Nat : n = Len(h) /\ DOMAIN h = 1..n
  BY <1>2
<1>4. PICK t \in Nat : t = taken
  BY DEF RecordInv
<1>5. PICK seqs : seqs = [i \in 1..n |-> IF h[i].snapshot = None THEN OpcodePiece(i) ELSE HookPiece(i)]
  OBVIOUS
<1>6. PICK m : m = merged'
  OBVIOUS
<1>7. m = FlattenSeq(seqs)
  BY <1>2, <1>3, <1>5, <1>6 DEF Merge
<1>8. cut \in [0..n -> Nat] /\ cut[0] = 0 /\ cut[n] = t
  BY <1>1, <1>2, <1>3, <1>4 DEF Layout
<1>9. ASSUME NEW i \in 1..n
      PROVE  /\ seqs[i] \in Seq(MergedItems) /\ Len(seqs[i]) = cut[i] - cut[i - 1]
             /\ \A k \in 1..Len(seqs[i]) :
                  /\ seqs[i][k].frame = h[i].frame
                  /\ seqs[i][k].snapshot = cut[i - 1] + k
                  /\ seqs[i][k].hook = (trace[h[i].frame[1]].kind = "sourced")
  <2>1. PICK s : s = seqs[i]
    OBVIOUS
  <2>2. s = IF hook_snapshots[i].snapshot = None THEN OpcodePiece(i) ELSE HookPiece(i)
    BY <1>2, <1>5, <2>1
  <2>3. i \in 1..Len(hook_snapshots)
    BY <1>2, <1>3
  <2>4. /\ s \in Seq(MergedItems) /\ Len(s) = cut[i] - cut[i - 1]
        /\ \A k \in 1..Len(s) :
              /\ s[k].frame = hook_snapshots[i].frame
              /\ s[k].snapshot = cut[i - 1] + k
              /\ s[k].hook = (trace[hook_snapshots[i].frame[1]].kind = "sourced")
    BY <1>1, <2>2, <2>3, PieceFacts
  <2> QED
    BY <1>2, <2>1, <2>4
<1>10. seqs \in Seq(Seq(MergedItems)) /\ Len(seqs) = n
  <2>1. seqs = [i \in 1..n |-> seqs[i]]
    BY <1>5
  <2>2. \A i \in 1..n : seqs[i] \in Seq(MergedItems)
    BY <1>9
  <2> QED
    BY <2>1, <2>2, IsASeq
<1>11. \A i \in 1..n : cut[i] = cut[i - 1] + Len(seqs[i])
  <2>1. ASSUME NEW i \in 1..n PROVE cut[i] \in Nat /\ cut[i - 1] \in Nat /\ Len(seqs[i]) = cut[i] - cut[i - 1]
    <3>1. i \in 0..n /\ i - 1 \in 0..n
      OBVIOUS
    <3> QED
      BY <1>8, <1>9, <3>1
  <2> QED
    BY <2>1
<1>12. /\ m \in Seq(MergedItems) /\ Len(m) = t
       /\ \A i \in 1..n : \A k \in 1..Len(seqs[i]) : m[cut[i - 1] + k] = seqs[i][k]
  <2>1. /\ FlattenSeq(seqs) \in Seq(MergedItems)
        /\ Len(FlattenSeq(seqs)) = cut[n]
        /\ \A i \in 1..n : \A k \in 1..Len(seqs[i]) :
               FlattenSeq(seqs)[cut[i - 1] + k] = seqs[i][k]
    <3>1. seqs \in Seq(Seq(MergedItems)) /\ n \in Nat /\ n = Len(seqs)
      BY <1>3, <1>10
    <3>2. cut \in [0..n -> Nat]
      BY <1>8
    <3>3. cut[0] = 0
      BY <1>8
    <3>4. PICK S : S = MergedItems
      OBVIOUS
    <3>5. seqs \in Seq(Seq(S))
      BY <3>1, <3>4
    <3>6. JoinedAs(S, seqs, n, cut)
      BY <1>11, <3>1, <3>2, <3>3, <3>5, Flattened
    <3> QED
      BY <3>4, <3>6 DEF JoinedAs
  <2> QED
    BY <1>7, <1>8, <2>1
<1>13. PICK ix \in [1..t -> 1..n] :
          /\ \A k \in 1..t : cut[ix[k] - 1] < k /\ k <= cut[ix[k]]
          /\ \A k, l \in 1..t : k < l => ix[k] <= ix[l]
  <2>1. \E ix \in [1..t -> 1..n] :
            /\ \A k \in 1..t : cut[ix[k] - 1] < k /\ k <= cut[ix[k]]
            /\ \A k, l \in 1..t : k < l => ix[k] <= ix[l]
    BY <1>3, <1>4, <1>8, PieceIndex
  <2> QED
    BY <2>1
<1>14. ASSUME NEW k \in 1..t
       PROVE  /\ m[k].frame = h[ix[k]].frame /\ m[k].snapshot = k
              /\ m[k].hook = (trace[m[k].frame[1]].kind = "sourced")
  <2>1. PICK i \in 1..n : i = ix[k] /\ cut[i - 1] < k /\ k <= cut[i]
    BY <1>13
  <2>2. i \in 0..n /\ i - 1 \in 0..n /\ cut[i] \in Nat /\ cut[i - 1] \in Nat
    BY <1>8
  <2>3. PICK a \in Nat : a = cut[i - 1]
    BY <2>2
  <2>4. k - a \in 1..Len(seqs[i]) /\ a + (k - a) = k
    <3>1. PICK l : l = Len(seqs[i]) /\ l = cut[i] - a
      BY <1>9, <2>3
    <3>2. PICK c \in Nat : c = cut[i] /\ a < k /\ k <= c /\ l = c - a
      BY <2>1, <2>2, <2>3, <3>1
    <3>3. k - a \in 1..l /\ a + (k - a) = k
      BY <3>2
    <3> QED
      BY <3>1, <3>3
  <2>5. m[k] = seqs[i][k - a]
    BY <1>12, <2>3, <2>4
  <2>6. /\ seqs[i][k - a].frame = h[i].frame /\ seqs[i][k - a].snapshot = k
        /\ seqs[i][k - a].hook = (trace[h[i].frame[1]].kind = "sourced")
    BY <1>9, <2>3, <2>4
  <2> QED
    BY <2>1, <2>5, <2>6
<1>15. \A k \in 1..t : m[k].frame[1] \in 1..Len(trace) /\ m[k].frame[1] \in Nat
  <2>1. \A i \in 1..n : h[i].frame[1] \in 1..Len(trace) /\ h[i].frame[1] \in Nat
    BY <1>2, <1>3 DEF RecordInv, Bounded, Entries
  <2>2. \A k \in 1..t : ix[k] \in 1..n /\ m[k].frame = h[ix[k]].frame
    BY <1>13, <1>14
  <2> QED
    BY <2>1, <2>2
<1>16. ASSUME NEW i \in 1..t, NEW j \in 1..t, NEW k \in 1..t, i < j, j < k,
              m[j].frame[1] < m[k].frame[1], m[k].frame[1] <= m[i].frame[1]
       PROVE  FALSE
  <2>1. PICK x \in 1..n, y \in 1..n, z \in 1..n : x = ix[i] /\ y = ix[j] /\ z = ix[k]
    BY <1>13
  <2>2. x <= y /\ y <= z
    BY <1>13, <1>16, <2>1
  <2>3. m[i].frame = h[x].frame /\ m[j].frame = h[y].frame /\ m[k].frame = h[z].frame
    BY <1>14, <2>1
  <2>4. PICK e \in Nat : e = h[z].frame[1] /\ h[y].frame[1] < e /\ e <= h[x].frame[1]
    BY <1>15, <1>16, <2>3
  <2>5. h[x].frame[1] \in Nat /\ h[y].frame[1] \in Nat
    BY <1>15, <2>3
  <2>6. x # y /\ y # z
    BY <2>4, <2>5
  <2>7. x < y /\ z \in (y + 1)..n
    BY <2>2, <2>6
  <2>8. Nested(h, Open)
    BY <1>2 DEF RecordInv
  <2> QED
    BY <1>3, <2>4, <2>7, <2>8 DEF Nested
<1> QED
  BY <1>4, <1>6, <1>12, <1>14, <1>15, <1>16 DEF MergedAs

LEMMA MergedStep ==
  StackInv /\ RecordInv /\ MergedInv /\ [Next \/ PanicStep]_vars => MergedInv'
<1> SUFFICES ASSUME StackInv, RecordInv, MergedInv, [Next \/ PanicStep]_vars PROVE MergedInv'
  OBVIOUS
<1>1. CASE Merge
  <2>1. PICK m, t, tr : m = merged' /\ t = taken /\ tr = trace
    OBVIOUS
  <2>2. taken' = t /\ trace' = tr /\ merged' = m
    BY <1>1, <2>1 DEF Merge, inspectorVars
  <2>3. MergedAs(m, t, tr)
    BY <1>1, <2>1, MergeStep
  <2> QED
    BY <2>2, <2>3 DEF MergedInv, MergedAs
<1>2. CASE Analyze \/ UNCHANGED vars
  <2>1. UNCHANGED <<merged, taken, trace>> /\ (phase' = phase \/ phase = "merged")
    BY <1>2 DEF Analyze, inspectorVars, vars
  <2> QED
    BY <2>1 DEF MergedInv, MergedAs
<1>3. ASSUME phase' \notin {"merged", "linked"} PROVE MergedInv'
  BY <1>3 DEF MergedInv
<1>4. ASSUME NEW kind \in Kinds, Call(kind) PROVE MergedInv'
  BY <1>4, <1>3 DEF Call
<1>5. CASE CallEnd
  BY <1>5, <1>3 DEF CallEnd
<1>6. CASE PlainStep \/ HookStep \/ PanicStep
  BY <1>6, <1>3 DEF PlainStep, HookStep, PanicStep, Recorded, Running
<1> QED
  BY <1>1, <1>2, <1>4, <1>5, <1>6 DEF Next

LEMMA MergedInit == Init => MergedInv
  BY DEF Init, MergedInv
-----------------------------------------------------------------------------
(* The links. *)

LEMMA CallersFacts ==
  ASSUME ChainInv
  PROVE  \A e \in Entries :
           /\ e \in CallersOf(e)
           /\ trace[e].parent = None => CallersOf(e) = {e}
           /\ trace[e].parent # None =>
                trace[e].parent \in Entries /\ trace[e].parent < e
                /\ CallersOf(e) = {e} \union CallersOf(trace[e].parent)
<1>1. PICK n \in Nat : n = Len(trace) /\ Entries = 1..n
  BY DEF ChainInv, Entries
<1>2. \A i \in 1..n : trace[i].parent = None \/ trace[i].parent \in 1..(i - 1)
  BY <1>1 DEF ChainInv
<1> DEFINE up(c, g) == {g} \union (IF trace[g].parent = None THEN {} ELSE c[trace[g].parent])
           Is(c, m) == c = [g \in 1..m |-> up(c, g)]
           T == {m \in 0..n : \E c : Is(c, m)}
<1>3. 0..n \subseteq T
  <2>1. 0 \in T
    <3>1. Is([g \in 1..0 |-> g], 0)
      OBVIOUS
    <3>2. 0 \in 0..n
      OBVIOUS
    <3> HIDE DEF Is
    <3> QED
      BY <3>1, <3>2
  <2>2. ASSUME NEW m \in 1..n, m - 1 \in T PROVE m \in T
    <3>1. PICK c : Is(c, m - 1)
      BY <2>2
    <3> DEFINE d == [g \in 1..m |-> up(c, g)]
    <3>2. ASSUME NEW g \in 1..m PROVE d[g] = up(d, g)
      <4>1. trace[g].parent # None => trace[g].parent \in 1..(m - 1) /\ trace[g].parent \in 1..m
        BY <1>2
      <4>2. ASSUME NEW p \in 1..(m - 1) PROVE d[p] = c[p]
        <5>1. p \in 1..m
          OBVIOUS
        <5>2. d[p] = up(c, p)
          BY <5>1
        <5>3. c[p] = up(c, p)
          BY <3>1
        <5> QED
          BY <5>2, <5>3
      <4>3. d[g] = up(c, g)
        OBVIOUS
      <4>4. trace[g].parent # None => d[trace[g].parent] = c[trace[g].parent]
        BY <4>1, <4>2
      <4> HIDE DEF d
      <4> QED
        BY <4>3, <4>4
    <3>3. d = [g \in 1..m |-> d[g]]
      OBVIOUS
    <3> HIDE DEF d, up
    <3>4. d = [g \in 1..m |-> up(d, g)]
      BY <3>2, <3>3, Zenon
    <3>5. m \in 0..n
      OBVIOUS
    <3>6. Is(d, m)
      BY <3>4
    <3> HIDE DEF Is
    <3> QED
      BY <3>5, <3>6
  <2> HIDE DEF T
  <2> QED
    BY <2>1, <2>2, Induction
<1>4. \E c : Is(c, n)
  <2>1. n \in 0..n
    OBVIOUS
  <2>2. n \in T
    BY <1>3, <2>1
  <2> HIDE DEF Is
  <2> QED
    BY <2>2
<1> DEFINE c == CHOOSE x : Is(x, n)
<1>5. Is(c, n)
  <2> HIDE DEF Is
  <2> QED
    BY <1>4
<1>6. \A e : CallersOf(e) = c[e]
  BY <1>1 DEF CallersOf
<1> HIDE DEF c
<1>7. \A e \in 1..n : CallersOf(e) = up(c, e)
  BY <1>5, <1>6
<1>8. \A e \in 1..n : trace[e].parent # None => trace[e].parent \in 1..n /\ trace[e].parent < e
  BY <1>2
<1> QED
  BY <1>1, <1>6, <1>7, <1>8

LEMMA CallersEarlier ==
  ASSUME ChainInv
  PROVE  \A e \in Entries : \A x \in CallersOf(e) : x \in Entries /\ x <= e
<1> DEFINE B == {e \in Entries : \E x \in CallersOf(e) : ~(x \in Entries /\ x <= e)}
<1> SUFFICES ASSUME B # {} PROVE FALSE
  OBVIOUS
<1>1. Entries \in SUBSET Nat
  BY DEF ChainInv, Entries
<1>2. B \in SUBSET Nat
  BY <1>1
<1>3. PICK e \in B : \A y \in B : e <= y
  <2> HIDE DEF B
  <2> QED
    BY <1>2, MinFacts
<1>4. PICK x \in CallersOf(e) : ~(x \in Entries /\ x <= e)
  OBVIOUS
<1>5. e \in Entries /\ e \in Nat
  BY <1>1
<1>6. x # e
  BY <1>4, <1>5
<1>7. /\ trace[e].parent # None /\ trace[e].parent \in Entries /\ trace[e].parent < e
      /\ x \in CallersOf(trace[e].parent)
  BY <1>4, <1>5, <1>6, CallersFacts
<1>8. PICK p \in Nat : p = trace[e].parent /\ p < e /\ p \in Entries
  BY <1>1, <1>7
<1>9. p \notin B
  <2> HIDE DEF B
  <2> QED
    BY <1>3, <1>5, <1>8
<1>10. x \in Entries /\ x <= p
  BY <1>7, <1>8, <1>9
<1> QED
  BY <1>1, <1>4, <1>5, <1>8, <1>10

(* find_next_step_for_holed_snapshots, by what it finds for each caller. *)
After(i, e) == {j \in Ids : j > i /\ EntryOf(j) = e}

LEMMA FillHoleFacts ==
  ASSUME ChainInv, NEW i
  PROVE  \E c : /\ FillHole(i) = c[EntryOf(i)]
                /\ \A e \in Entries :
                     /\ trace[e].parent = None => c[e] = LastId
                     /\ trace[e].parent # None =>
                          c[e] = IF After(i, trace[e].parent) # {} THEN Min(After(i, trace[e].parent))
                                 ELSE c[trace[e].parent]
<1>1. PICK n \in Nat : n = Len(trace) /\ Entries = 1..n
  BY DEF ChainInv, Entries
<1>2. \A e \in 1..n : trace[e].parent = None \/ trace[e].parent \in 1..(e - 1)
  BY <1>1 DEF ChainInv
<1> DEFINE up(c, e) ==
             LET p == trace[e].parent
                 after == {j \in Ids : j > i /\ EntryOf(j) = p}
             IN  IF p = None THEN LastId
                 ELSE IF after # {} THEN Min(after) ELSE c[p]
           Is(c, m) == c = [g \in 1..m |-> up(c, g)]
           T == {m \in 0..n : \E c : Is(c, m)}
<1>3. 0..n \subseteq T
  <2>1. 0 \in T
    <3>1. Is([g \in 1..0 |-> g], 0)
      OBVIOUS
    <3>2. 0 \in 0..n
      OBVIOUS
    <3> HIDE DEF Is
    <3> QED
      BY <3>1, <3>2
  <2>2. ASSUME NEW m \in 1..n, m - 1 \in T PROVE m \in T
    <3>1. PICK c : Is(c, m - 1)
      BY <2>2
    <3> DEFINE d == [g \in 1..m |-> up(c, g)]
    <3>2. ASSUME NEW g \in 1..m PROVE d[g] = up(d, g)
      <4>1. trace[g].parent # None => trace[g].parent \in 1..(m - 1) /\ trace[g].parent \in 1..m
        BY <1>2
      <4>2. ASSUME NEW p \in 1..(m - 1) PROVE d[p] = c[p]
        <5>1. p \in 1..m
          OBVIOUS
        <5> HIDE DEF up
        <5>2. d[p] = up(c, p)
          BY <5>1
        <5>3. c[p] = up(c, p)
          BY <3>1
        <5> QED
          BY <5>2, <5>3
      <4>3. d[g] = up(c, g)
        <5> HIDE DEF up
        <5> QED
          OBVIOUS
      <4>4. trace[g].parent # None => d[trace[g].parent] = c[trace[g].parent]
        BY <4>1, <4>2
      <4> HIDE DEF d
      <4> QED
        BY <4>3, <4>4
    <3>3. d = [g \in 1..m |-> d[g]]
      OBVIOUS
    <3> HIDE DEF d, up
    <3>4. d = [g \in 1..m |-> up(d, g)]
      BY <3>2, <3>3, Zenon
    <3>5. m \in 0..n
      OBVIOUS
    <3>6. Is(d, m)
      BY <3>4
    <3> HIDE DEF Is
    <3> QED
      BY <3>5, <3>6
  <2> HIDE DEF T
  <2> QED
    BY <2>1, <2>2, Induction
<1>4. \E c : Is(c, n)
  <2>1. n \in 0..n
    OBVIOUS
  <2>2. n \in T
    BY <1>3, <2>1
  <2> HIDE DEF Is
  <2> QED
    BY <2>2
<1> DEFINE c == CHOOSE x : Is(x, n)
<1>5. Is(c, n)
  <2> HIDE DEF Is
  <2> QED
    BY <1>4
<1>6. FillHole(i) = c[EntryOf(i)]
  BY <1>1 DEF FillHole
<1> HIDE DEF c
<1>7. \A e \in 1..n : c[e] = up(c, e)
  <2> HIDE DEF up
  <2> QED
    BY <1>5
<1> QED
  BY <1>1, <1>6, <1>7 DEF After
-----------------------------------------------------------------------------
(* Stepping. *)

LEMMA MaxFacts ==
  ASSUME NEW T \in SUBSET Nat, T # {}, NEW n \in Nat, \A y \in T : y <= n
  PROVE  Max(T) \in T /\ \A y \in T : y <= Max(T)
<1> DEFINE B == {b \in Nat : \A y \in T : y <= b}
           m == Min(B)
<1>1. B \in SUBSET Nat /\ B # {}
  OBVIOUS
<1>2. m \in B /\ \A b \in B : m <= b
  <2> HIDE DEF B
  <2> QED
    BY <1>1, MinFacts
<1>3. m \in Nat /\ \A y \in T : y <= m
  BY <1>2
<1>4. m \in T
  <2>1. SUFFICES ASSUME m \notin T PROVE FALSE
    OBVIOUS
  <2>2. PICK y \in T : TRUE
    OBVIOUS
  <2> HIDE DEF m
  <2>3. \A z \in T : z \in Nat /\ z < m
    BY <1>3, <2>1
  <2>4. m - 1 \in Nat /\ \A z \in T : z <= m - 1
    BY <1>3, <2>2, <2>3
  <2>5. m - 1 \in B
    BY <2>4
  <2> QED
    BY <1>2, <1>3, <2>5
<1> HIDE DEF m, B
<1>5. \A y \in T : m >= y
  BY <1>3
<1>6. \E x \in T : \A y \in T : x >= y
  BY <1>4, <1>5
<1>7. Max(T) \in T /\ \A y \in T : Max(T) >= y
  BY <1>6 DEF Max
<1> QED
  BY <1>7
-----------------------------------------------------------------------------
(* The recording, and the answers of the server. *)

LEMMA MinIs ==
  ASSUME NEW T \in SUBSET Nat, NEW x \in T, \A y \in T : x <= y
  PROVE  Min(T) = x
<1>1. Min(T) \in T /\ \A y \in T : Min(T) <= y
  BY MinFacts
<1>2. Min(T) \in Nat /\ x \in Nat /\ Min(T) <= x /\ x <= Min(T)
  BY <1>1
<1> QED
  BY <1>2

LEMMA MergedFacts ==
  ASSUME MergedAs(merged, taken, trace), Len(trace) \in Nat, taken \in Nat
  PROVE  /\ Ids = 1..taken /\ LastId = taken
         /\ \A k \in Ids : /\ EntryOf(k) \in Entries /\ EntryOf(k) \in Nat
                           /\ merged[k].hook = (trace[EntryOf(k)].kind = "sourced")
         /\ \A i, j, k \in Ids : i < j /\ j < k =>
               ~(EntryOf(j) < EntryOf(k) /\ EntryOf(k) <= EntryOf(i))
<1>1. Len(merged) = taken
  BY DEF MergedAs
<1>2. \A k \in 1..taken : /\ EntryOf(k) \in 1..Len(trace)
                          /\ merged[k].hook = (trace[EntryOf(k)].kind = "sourced")
  BY DEF MergedAs, EntryOf
<1>3. \A i, j, k \in 1..taken : i < j /\ j < k =>
        ~(EntryOf(j) < EntryOf(k) /\ EntryOf(k) <= EntryOf(i))
  BY DEF MergedAs, EntryOf
<1>4. 1..Len(trace) \subseteq Nat
  OBVIOUS
<1> QED
  BY <1>1, <1>2, <1>3, <1>4 DEF Ids, LastId, Entries

(* What can be stepped to from i, out of the call e and its callers. *)
Outside(i, e) == {j \in Ids : j > i /\ EntryOf(j) \in CallersOf(e)}
Nearest(i, e) == IF Outside(i, e) = {} THEN LastId ELSE Min(Outside(i, e))

LEMMA OutsideFacts ==
  ASSUME ChainInv, MergedAs(merged, taken, trace), taken \in Nat,
         NEW i \in Ids, NEW e \in Entries, e <= EntryOf(i)
  PROVE  /\ After(i, e) # {} => Nearest(i, e) = Min(After(i, e))
         /\ After(i, e) = {} /\ trace[e].parent = None => Nearest(i, e) = LastId
         /\ After(i, e) = {} /\ trace[e].parent # None => Nearest(i, e) = Nearest(i, trace[e].parent)
<1>1. /\ Ids = 1..taken /\ LastId = taken /\ Entries \subseteq Nat
      /\ \A k \in Ids : EntryOf(k) \in Entries /\ EntryOf(k) \in Nat
      /\ \A a, b, c \in Ids : a < b /\ b < c =>
            ~(EntryOf(b) < EntryOf(c) /\ EntryOf(c) <= EntryOf(a))
  <2>1. Len(trace) \in Nat
    BY DEF ChainInv
  <2>2. Entries \subseteq Nat
    BY <2>1 DEF Entries
  <2> QED
    BY <2>1, <2>2, MergedFacts
<1>2. /\ e \in CallersOf(e)
      /\ trace[e].parent = None => CallersOf(e) = {e}
      /\ trace[e].parent # None => CallersOf(e) = {e} \union CallersOf(trace[e].parent)
  BY CallersFacts
<1>3. \A x \in CallersOf(e) : x \in Nat /\ x <= e
  BY <1>1, CallersEarlier
<1>4. CASE After(i, e) # {}
  <2>1. PICK m : m = Min(After(i, e))
    OBVIOUS
  <2>2. After(i, e) \in SUBSET Nat
    BY <1>1 DEF After
  <2>3. m \in After(i, e) /\ \A y \in After(i, e) : m <= y
    BY <1>4, <2>1, <2>2, MinFacts
  <2>4. m \in Ids /\ m > i /\ EntryOf(m) = e /\ m \in Nat /\ i \in Nat /\ e \in Nat
    BY <1>1, <2>3 DEF After
  <2>5. ASSUME NEW y \in Outside(i, e) PROVE m <= y
    <3>1. y \in Ids /\ y > i /\ EntryOf(y) \in CallersOf(e) /\ y \in Nat
      BY <1>1 DEF Outside
    <3>2. CASE EntryOf(y) = e
      BY <2>3, <3>1, <3>2 DEF After
    <3>3. CASE EntryOf(y) # e
      <4>1. EntryOf(y) < EntryOf(m) /\ EntryOf(m) <= EntryOf(i)
        BY <1>3, <2>4, <3>1, <3>3
      <4>2. ~(i < y /\ y < m)
        BY <1>1, <2>4, <3>1, <4>1
      <4> QED
        BY <2>4, <3>1, <4>2
    <3> QED
      BY <3>2, <3>3
  <2>6. m \in Outside(i, e)
    BY <1>2, <2>4 DEF Outside
  <2>7. Outside(i, e) \in SUBSET Nat
    BY <1>1 DEF Outside
  <2>8. Min(Outside(i, e)) = m
    BY <2>5, <2>6, <2>7, MinIs
  <2> QED
    BY <1>4, <2>1, <2>6, <2>8 DEF Nearest
<1>5. CASE After(i, e) = {} /\ trace[e].parent = None
  <2>1. Outside(i, e) = {}
    BY <1>2, <1>5 DEF Outside, After
  <2> QED
    BY <1>5, <2>1 DEF Nearest
<1>6. CASE After(i, e) = {} /\ trace[e].parent # None
  <2>1. Outside(i, e) = Outside(i, trace[e].parent)
    BY <1>2, <1>6 DEF Outside, After
  <2> QED
    BY <1>6, <2>1 DEF Nearest
<1> QED
  BY <1>4, <1>5, <1>6

(* A hole is filled with the nearest snapshot of a caller. *)
LEMMA HoleIsNearest ==
  ASSUME ChainInv, MergedAs(merged, taken, trace), taken \in Nat, NEW i \in Ids
  PROVE  FillHole(i) = IF trace[EntryOf(i)].parent = None THEN LastId
                       ELSE Nearest(i, trace[EntryOf(i)].parent)
<1>1. PICK c : /\ FillHole(i) = c[EntryOf(i)]
               /\ \A e \in Entries :
                    /\ trace[e].parent = None => c[e] = LastId
                    /\ trace[e].parent # None =>
                          c[e] = IF After(i, trace[e].parent) # {} THEN Min(After(i, trace[e].parent))
                                 ELSE c[trace[e].parent]
  BY FillHoleFacts
<1> DEFINE found(e) == IF trace[e].parent = None THEN LastId ELSE Nearest(i, trace[e].parent)
           B == {e \in Entries : e <= EntryOf(i) /\ c[e] # found(e)}
<1>2. Entries \subseteq Nat /\ EntryOf(i) \in Entries /\ EntryOf(i) \in Nat
  <2>1. Len(trace) \in Nat
    BY DEF ChainInv
  <2>2. Entries \subseteq Nat
    BY <2>1 DEF Entries
  <2> QED
    BY <2>1, <2>2, MergedFacts
<1>3. B = {}
  <2> SUFFICES ASSUME B # {} PROVE FALSE
    OBVIOUS
  <2>1. B \in SUBSET Nat
    BY <1>2
  <2>2. PICK e \in B : \A y \in B : e <= y
    <3> HIDE DEF B
    <3> QED
      BY <2>1, MinFacts
  <2>3. e \in Entries /\ e \in Nat /\ e <= EntryOf(i) /\ c[e] # found(e)
    BY <1>2
  <2>4. trace[e].parent # None
    BY <1>1, <2>3
  <2>5. PICK p : p = trace[e].parent
    OBVIOUS
  <2>6. p \in Entries /\ p \in Nat /\ p < e
    BY <1>2, <2>3, <2>4, <2>5, CallersFacts
  <2>7. p <= EntryOf(i)
    BY <1>2, <2>3, <2>6
  <2>8. found(e) = Nearest(i, p)
    BY <2>4, <2>5
  <2>9. c[e] = IF After(i, p) # {} THEN Min(After(i, p)) ELSE c[p]
    BY <1>1, <2>3, <2>4, <2>5
  <2>10. c[p] = found(p)
    <3>1. p \notin B
      <4> HIDE DEF B
      <4> QED
        BY <2>2, <2>3, <2>6
    <3> HIDE DEF found
    <3> QED
      BY <2>6, <2>7, <3>1
  <2>11. /\ After(i, p) # {} => Nearest(i, p) = Min(After(i, p))
         /\ After(i, p) = {} => Nearest(i, p) = found(p)
    BY <2>6, <2>7, OutsideFacts
  <2> HIDE DEF found, B
  <2> QED
    BY <2>3, <2>8, <2>9, <2>10, <2>11
<1>4. c[EntryOf(i)] = found(EntryOf(i))
  <2> HIDE DEF found
  <2>1. EntryOf(i) <= EntryOf(i)
    BY <1>2
  <2> QED
    BY <1>2, <1>3, <2>1
<1> QED
  BY <1>1, <1>4

LEMMA NearestFacts ==
  ASSUME Ids \subseteq Nat, LastId \in Ids, \A k \in Ids : k <= LastId, NEW i \in Ids, NEW e
  PROVE  /\ Nearest(i, e) \in Ids
         /\ i # LastId => Nearest(i, e) > i
         /\ i = LastId => Nearest(i, e) = LastId
<1>1. Outside(i, e) \in SUBSET Nat /\ \A j \in Outside(i, e) : j \in Ids /\ j > i
  BY DEF Outside
<1>2. CASE Outside(i, e) = {}
  <2>1. Nearest(i, e) = LastId
    BY <1>2 DEF Nearest
  <2>2. i # LastId => LastId > i
    OBVIOUS
  <2> QED
    BY <2>1, <2>2
<1>3. CASE Outside(i, e) # {}
  <2>1. Min(Outside(i, e)) \in Outside(i, e)
    BY <1>1, <1>3, MinFacts
  <2>2. PICK j : j = Nearest(i, e) /\ j \in Outside(i, e)
    BY <1>3, <2>1 DEF Nearest
  <2>3. i # LastId
    BY <1>1, <2>2
  <2> QED
    BY <1>1, <2>2, <2>3
<1> QED
  BY <1>2, <1>3

LEMMA NextIdIsNearest ==
  ASSUME ChainInv, MergedAs(merged, taken, trace), taken \in Nat, NEW i \in Ids
  PROVE  NextId(i) = Nearest(i, EntryOf(i))
<1>1. EntryOf(i) \in Entries /\ EntryOf(i) <= EntryOf(i)
  <2>1. Len(trace) \in Nat
    BY DEF ChainInv
  <2>2. EntryOf(i) \in Entries /\ EntryOf(i) \in Nat
    BY <2>1, MergedFacts
  <2> QED
    BY <2>2
<1>2. LaterInEntry(i) = After(i, EntryOf(i))
  BY DEF LaterInEntry, After
<1>3. /\ After(i, EntryOf(i)) # {} => Nearest(i, EntryOf(i)) = Min(After(i, EntryOf(i)))
      /\ After(i, EntryOf(i)) = {} => Nearest(i, EntryOf(i)) = FillHole(i)
  BY <1>1, OutsideFacts, HoleIsNearest
<1> QED
  BY <1>2, <1>3 DEF NextId

(* analyze_next_steps and analyze_prev_steps. *)
Forward(nx, n) ==
  \A i \in 1..n : nx[i] \in 1..n /\ (i # n => nx[i] > i) /\ (i = n => nx[i] = n)

LEMMA NextForward ==
  ASSUME ChainInv, MergedAs(merged, taken, trace), taken \in Nat, Analyze
  PROVE  /\ Forward(next_id', taken)
         /\ \A i \in Ids : ~merged[i].hook => next_id'[i] = Nearest(i, EntryOf(i))
<1>1. /\ Ids = 1..taken /\ LastId = taken /\ Entries \subseteq Nat
      /\ \A k \in Ids : /\ EntryOf(k) \in Entries /\ EntryOf(k) \in Nat
                        /\ merged[k].hook = (trace[EntryOf(k)].kind = "sourced")
  <2>1. Len(trace) \in Nat
    BY DEF ChainInv
  <2>2. Entries \subseteq Nat
    BY <2>1 DEF Entries
  <2> QED
    BY <2>1, <2>2, MergedFacts
<1>2. PICK hop \in [Sourced -> Ids] :
        /\ \A i \in Sourced : hop[i] \in SourcedNextIds(i)
        /\ next_id' = [i \in Ids |-> IF i \in Sourced THEN hop[i] ELSE NextId(i)]
  BY DEF Analyze
<1>3. ASSUME NEW i \in Ids
      PROVE  /\ next_id'[i] = IF i \in Sourced THEN hop[i] ELSE Nearest(i, EntryOf(i))
             /\ \A e : /\ Nearest(i, e) \in Ids
                       /\ i # LastId => Nearest(i, e) > i
                       /\ i = LastId => Nearest(i, e) = LastId
             /\ LastId \in Ids /\ i \in Nat /\ LastId \in Nat /\ i <= LastId
  <2>1. NextId(i) = Nearest(i, EntryOf(i))
    BY NextIdIsNearest
  <2>2. next_id'[i] = IF i \in Sourced THEN hop[i] ELSE NextId(i)
    BY <1>2
  <2>3. Ids \subseteq Nat /\ LastId \in Ids /\ \A k \in Ids : k <= LastId
    BY <1>1
  <2>4. \A e : /\ Nearest(i, e) \in Ids
               /\ i # LastId => Nearest(i, e) > i
               /\ i = LastId => Nearest(i, e) = LastId
    BY <2>3, NearestFacts
  <2> QED
    BY <2>1, <2>2, <2>3, <2>4
<1>4. ASSUME NEW i \in Ids, i \in Sourced
      PROVE  hop[i] \in Ids /\ hop[i] > i /\ i # LastId
  <2>1. hop[i] \in LaterInEntry(i) \union {FillHole(i)} /\ LaterInEntry(i) # {}
    BY <1>2, <1>4 DEF SourcedNextIds, Sourced
  <2>2. \A j \in LaterInEntry(i) : j \in Ids /\ j > i
    BY DEF LaterInEntry
  <2>3. i # LastId
    BY <1>1, <2>1, <2>2
  <2>4. FillHole(i) = IF trace[EntryOf(i)].parent = None THEN LastId
                      ELSE Nearest(i, trace[EntryOf(i)].parent)
    BY HoleIsNearest
  <2>5. FillHole(i) \in Ids /\ FillHole(i) > i
    BY <1>1, <1>3, <2>3, <2>4
  <2> QED
    BY <2>1, <2>2, <2>3, <2>5
<1>5. ASSUME NEW i \in Ids, ~merged[i].hook PROVE i \notin Sourced
  <2>1. PICK T : T = {k \in Ids : EntryOf(k) = EntryOf(i)}
    OBVIOUS
  <2>2. T \in SUBSET Nat /\ T # {} /\ \A k \in T : k <= taken
    BY <1>1, <2>1
  <2>3. Max(T) \in T
    BY <2>2, MaxFacts
  <2>4. LastOf(EntryOf(i)) = Max(T)
    BY <2>1 DEF LastOf
  <2>5. LastOf(EntryOf(i)) \in Ids /\ EntryOf(LastOf(EntryOf(i))) = EntryOf(i)
    BY <2>1, <2>3, <2>4
  <2>6. merged[LastOf(EntryOf(i))].hook = merged[i].hook
    BY <1>1, <2>5
  <2> QED
    BY <1>5, <2>6 DEF Sourced
<1>6. \A i \in Ids : ~merged[i].hook => next_id'[i] = Nearest(i, EntryOf(i))
  BY <1>3, <1>5
<1>7. Forward(next_id', taken)
  <2>1. ASSUME NEW i \in Ids
        PROVE  /\ next_id'[i] \in Ids
               /\ i # LastId => next_id'[i] > i
               /\ i = LastId => next_id'[i] = LastId
    <3>1. CASE i \in Sourced
      BY <1>3, <1>4, <3>1
    <3>2. CASE i \notin Sourced
      BY <1>3, <3>2
    <3> QED
      BY <3>1, <3>2
  <2> QED
    BY <1>1, <2>1 DEF Forward
<1> QED
  BY <1>6, <1>7

Backward(nx, pv, n) ==
  \A i \in 1..n : pv[i] \in 1..n /\ (i # 1 => pv[i] < i) /\ pv[nx[i]] <= i

LEMMA PrevBackward ==
  ASSUME NEW n \in Nat, NEW nx, Forward(nx, n), Ids = 1..n
  PROVE  Backward(nx, PrevIds(nx), n)
<1> DEFINE pv == PrevIds(nx)
           from(j) == {i \in 1..n : nx[i] = j}
<1>1. ASSUME NEW j \in 1..n
      PROVE  /\ from(j) # {} => pv[j] \in from(j) /\ \A y \in from(j) : pv[j] <= y
             /\ from(j) = {} => pv[j] = IF j = 1 THEN 1 ELSE j - 1
  <2>1. pv[j] = IF from(j) # {} THEN Min(from(j)) ELSE IF j = 1 THEN 1 ELSE j - 1
    BY DEF PrevIds
  <2>2. from(j) \in SUBSET Nat
    OBVIOUS
  <2> HIDE DEF from, pv
  <2>3. from(j) # {} => Min(from(j)) \in from(j) /\ \A y \in from(j) : Min(from(j)) <= y
    BY <2>2, MinFacts
  <2> QED
    BY <2>1, <2>3
<1> HIDE DEF pv
<1>2. ASSUME NEW j \in 1..n PROVE pv[j] \in 1..n /\ (j # 1 => pv[j] < j)
  <2>1. CASE from(j) = {}
    BY <1>1, <2>1
  <2>2. CASE from(j) # {}
    <3>1. PICK x \in 1..n : x = pv[j] /\ nx[x] = j /\ \A y \in from(j) : x <= y
      BY <1>1, <2>2
    <3>2. CASE x # n
      BY <3>1, <3>2 DEF Forward
    <3>3. CASE x = n
      <4>1. j = n
        BY <3>1, <3>3 DEF Forward
      <4>2. CASE n = 1
        BY <3>1, <3>3, <4>1, <4>2
      <4>3. CASE n # 1
        <5>1. n - 1 \in 1..n /\ n - 1 # n
          BY <4>3
        <5>2. nx[n - 1] \in 1..n /\ nx[n - 1] > n - 1
          BY <5>1 DEF Forward
        <5>3. nx[n - 1] = n
          BY <5>2
        <5>4. n - 1 \in from(j)
          BY <4>1, <5>1, <5>3
        <5>5. x <= n - 1
          BY <3>1, <5>4
        <5> QED
          BY <3>3, <5>5
      <4> QED
        BY <4>2, <4>3
    <3> QED
      BY <3>2, <3>3
  <2> QED
    BY <2>1, <2>2
<1>3. ASSUME NEW i \in 1..n PROVE pv[nx[i]] <= i
  <2>1. nx[i] \in 1..n
    BY DEF Forward
  <2>2. i \in from(nx[i])
    OBVIOUS
  <2> HIDE DEF from
  <2> QED
    BY <1>1, <2>1, <2>2
<1>4. Backward(nx, pv, n)
  BY <1>2, <1>3 DEF Backward
<1> QED
  BY <1>4 DEF pv

LinkInv ==
  phase = "linked" =>
     /\ Forward(next_id, taken) /\ Backward(next_id, prev_id, taken)
     /\ \A i \in Ids : ~merged[i].hook =>
          \A e : e = EntryOf(i) => next_id[i] = Nearest(i, e)

LEMMA NearestSame ==
  ASSUME UNCHANGED <<trace, merged>>, NEW i, NEW e
  PROVE  Nearest(i, e)' = Nearest(i, e)
<1>1. (CallersOf(e) = CallersOf(e)')
  BY DEF CallersOf, Entries
<1>2. Outside(i, e)' = Outside(i, e)
  BY <1>1 DEF Outside, Ids, EntryOf
<1> QED
  BY <1>2 DEF Nearest, LastId

LEMMA LinkKept ==
  ASSUME LinkInv, phase = "linked", UNCHANGED <<trace, merged, taken, next_id, prev_id>>
  PROVE  LinkInv'
<1>1. PICK nx, pv, t : nx = next_id /\ pv = prev_id /\ t = taken
  OBVIOUS
<1>2. next_id' = nx /\ prev_id' = pv /\ taken' = t
  BY <1>1
<1>3. Forward(nx, t) /\ Backward(nx, pv, t)
  BY <1>1 DEF LinkInv
<1>4. Ids' = Ids /\ \A i : EntryOf(i)' = EntryOf(i)
  BY DEF Ids, EntryOf
<1>5. ASSUME NEW i \in Ids', ~merged'[i].hook, NEW e, e = EntryOf(i)'
      PROVE  next_id'[i] = Nearest(i, e)'
  <2>1. next_id[i] = Nearest(i, e)
    BY <1>4, <1>5 DEF LinkInv
  <2> QED
    BY <2>1, NearestSame
<1> QED
  BY <1>2, <1>3, <1>5 DEF LinkInv, Forward, Backward

LEMMA LinkStep ==
  StackInv /\ RecordInv /\ MergedInv /\ LinkInv /\ [Next \/ PanicStep]_vars => LinkInv'
<1> SUFFICES ASSUME StackInv, RecordInv, MergedInv, LinkInv, [Next \/ PanicStep]_vars PROVE LinkInv'
  OBVIOUS
<1>1. CASE Analyze
  <2>1. ChainInv /\ MergedAs(merged, taken, trace) /\ taken \in Nat
    BY <1>1 DEF StackInv, MergedInv, RecordInv, Analyze
  <2>2. Ids = 1..taken
    <3>1. Len(trace) \in Nat
      BY <2>1 DEF ChainInv
    <3> QED
      BY <2>1, <3>1, MergedFacts
  <2>3. PICK n \in Nat : n = taken
    BY <2>1
  <2>n. PICK nx : nx = next_id'
    OBVIOUS
  <2>4. Forward(nx, n) /\ \A i \in Ids : ~merged[i].hook => nx[i] = Nearest(i, EntryOf(i))
    BY <1>1, <2>1, <2>3, <2>n, NextForward
  <2>5. PICK pv : pv = PrevIds(nx)
    OBVIOUS
  <2>6. Backward(nx, pv, n)
    BY <2>2, <2>3, <2>4, <2>5, PrevBackward
  <2>7. next_id' = nx /\ prev_id' = pv /\ taken' = n /\ UNCHANGED <<trace, merged>>
    <3>1. prev_id' = PrevIds(next_id') /\ UNCHANGED <<trace, merged, taken>>
      BY <1>1 DEF Analyze, inspectorVars
    <3> QED
      BY <2>3, <2>n, <2>5, <3>1
  <2>8. Ids' = Ids /\ \A i : EntryOf(i)' = EntryOf(i)
    BY <2>7 DEF Ids, EntryOf
  <2>9. ASSUME NEW i \in Ids', ~merged'[i].hook, NEW e, e = EntryOf(i)'
        PROVE  next_id'[i] = Nearest(i, e)'
    <3>1. next_id'[i] = Nearest(i, e)
      BY <2>4, <2>7, <2>8, <2>9
    <3> QED
      BY <2>7, <3>1, NearestSame
  <2> QED
    BY <2>4, <2>6, <2>7, <2>9 DEF LinkInv, Forward, Backward
<1>2. ASSUME phase' # "linked" PROVE LinkInv'
  BY <1>2 DEF LinkInv
<1>3. ASSUME NEW kind \in Kinds, Call(kind) PROVE LinkInv'
  BY <1>2, <1>3 DEF Call
<1>4. CASE CallEnd \/ Merge \/ PlainStep \/ HookStep \/ PanicStep
  BY <1>2, <1>4 DEF CallEnd, Merge, PlainStep, HookStep, PanicStep, Recorded, Running
<1>5. CASE UNCHANGED vars
  <2>1. CASE phase = "linked"
    BY <1>5, <2>1, LinkKept DEF vars, inspectorVars, linkVars
  <2>2. CASE phase # "linked"
    BY <1>2, <1>5, <2>2 DEF vars
  <2> QED
    BY <2>1, <2>2
<1> QED
  BY <1>1, <1>3, <1>4, <1>5 DEF Next

LEMMA LinkInit == Init => LinkInv
  BY DEF Init, LinkInv
-----------------------------------------------------------------------------
(* The behaviours. *)

RecordingInv == StackInv /\ RecordInv /\ MergedInv /\ LinkInv

LEMMA RecordingStep == RecordingInv /\ [Next \/ PanicStep]_vars => RecordingInv'
  BY StackStep, RecordStep, MergedStep, LinkStep DEF RecordingInv

LEMMA RecordingAlways == Init /\ [][Next \/ PanicStep]_vars => []RecordingInv
<1>1. Init => RecordingInv
  BY StackInit, RecordInit, MergedInit, LinkInit DEF RecordingInv
<1> QED
  BY <1>1, RecordingStep, PTL

(* A step of SnapshotContents is one of Recording, or leaves it as it is, or
   ends edb. *)
LEMMA ContentsRecords == [ContentsNext]_contentVars => [Next \/ PanicStep]_vars
<1> SUFFICES ASSUME [ContentsNext]_contentVars PROVE [Next \/ PanicStep]_vars
  OBVIOUS
<1>1. ASSUME NEW op, StepOf(op) \/ FailingStepOf(op) PROVE PlainStep
  BY <1>1 DEF StepOf, FailingStepOf
<1>2. ASSUME NEW op, Panic(op) PROVE PanicStep
  BY <1>2 DEF Panic, PanicStep, Recorded, Running
<1>3. ASSUME NEW op, UnrecordedWrite(op) PROVE UNCHANGED vars
  BY <1>3 DEF UnrecordedWrite
<1>4. ASSUME NEW kind \in Kinds, NEW create, CallOf(kind, create) PROVE Next
  BY <1>4 DEF CallOf, Next
<1>5. ASSUME NEW success, NEW named, CallEndOf(success, named) PROVE CallEnd
  BY <1>5 DEF CallEndOf
<1>6. HookStepOf => HookStep
  BY DEF HookStepOf
<1>7. UNCHANGED contentVars => UNCHANGED vars
  BY DEF contentVars
<1> QED
  BY <1>1, <1>2, <1>3, <1>4, <1>5, <1>6, <1>7 DEF ContentsNext, Next

LEMMA ContentsRecording == ContentsSpec => []RecordingInv
<1>1. ContentsInit => Init
  BY DEF ContentsInit
<1> QED
  BY <1>1, ContentsRecords, RecordingAlways, PTL DEF ContentsSpec

LEMMA FramesAgreeInv == RecordingInv => FramesAgree
<1> SUFFICES ASSUME RecordingInv PROVE FramesAgree
  OBVIOUS
<1>1. /\ call_stack = evm /\ hook_frames = opcode_frames /\ Len(opcode_frames) = Len(evm)
      /\ \A k \in 1..Len(evm) : opcode_frames[k] = <<evm[k], Cardinality(Returned(evm[k]))>>
  BY DEF RecordingInv, StackInv, FramesInv
<1>2. \A e : Returned(e) = {i \in Entries : trace[i].parent = e} \ {evm[j] : j \in 1..Len(evm)}
  BY DEF Returned, Open
<1> QED
  BY <1>1, <1>2 DEF FramesAgree

LEMMA MergedInExecutionOrderInv == RecordingInv => MergedInExecutionOrder
<1> SUFFICES ASSUME RecordingInv, phase = "merged"
             PROVE  [i \in Ids |-> merged[i].snapshot] = [i \in 1..taken |-> i]
  BY DEF MergedInExecutionOrder
<1>1. MergedAs(merged, taken, trace)
  BY DEF RecordingInv, MergedInv
<1>2. Ids = 1..taken /\ \A i \in 1..taken : merged[i].snapshot = i
  BY <1>1 DEF MergedAs, Ids
<1> QED
  BY <1>2

LEMMA StepsLinkForwardInv == RecordingInv => StepsLinkForward
<1> SUFFICES ASSUME RecordingInv, phase = "linked" PROVE StepsOverCalls /\ StepsProgress
  BY DEF StepsLinkForward, StepsOverCalls, StepsProgress
<1>1. /\ MergedAs(merged, taken, trace) /\ taken \in Nat
      /\ Forward(next_id, taken) /\ Backward(next_id, prev_id, taken)
      /\ \A i \in Ids : ~merged[i].hook => next_id[i] = Nearest(i, EntryOf(i))
  BY DEF RecordingInv, MergedInv, RecordInv, LinkInv
<1>2. Ids = 1..taken /\ LastId = taken
  BY <1>1 DEF MergedAs, Ids, LastId
<1>3. StepsOverCalls
  BY <1>1 DEF StepsOverCalls, Nearest, Outside
<1>4. StepsProgress
  BY <1>1, <1>2 DEF StepsProgress, Forward, Backward
<1> QED
  BY <1>3, <1>4

(* The inspectors agree with the EVM and with each other on the frame in
   execution (call_tracer.rs, opcode_snapshot_inspector.rs and
   hook_snapshot_inspector.rs, each in an execution of its own). *)
THEOREM SpecFramesAgree == ContentsSpec => []FramesAgree
  BY ContentsRecording, FramesAgreeInv, PTL

(* Snapshots::merge gives every snapshot its place in the order of the
   execution, and loses and doubles none (snapshot/mod.rs:315-361). *)
THEOREM SpecMergedInExecutionOrder == ContentsSpec => []MergedInExecutionOrder
  BY ContentsRecording, MergedInExecutionOrderInv, PTL

(* The links of analyze_next_steps and analyze_prev_steps go over calls, make
   progress, and leave no snapshot out of reach (snapshot/analysis.rs:104-227). *)
THEOREM SpecStepsLinkForward == ContentsSpec => []StepsLinkForward
  BY ContentsRecording, StepsLinkForwardInv, PTL
-----------------------------------------------------------------------------
(* What the snapshots hold. *)

Machine == [storage : Nat, transient : Nat]

FrameRecords ==
  [before : Machine, memory : Nat, stack : Seq(Nat), outcome : BOOLEAN \union {None},
   create : BOOLEAN, misread : BOOLEAN]

(* The stack kept of a recorded call is that of its frame, and there is one once
   the call has made a call. *)
StacksKept(tr, ev, fr, kept) ==
  \A k \in 1..Len(ev) : tr[ev[k]].kind = "plain" =>
     /\ fr[k].outcome = None => OrDefault(kept, ev[k]) = fr[k].stack \/ fr[k].misread
     /\ k < Len(ev) => ev[k] \in DOMAIN kept

MemoryKept(kept, f, m) == f \in DOMAIN kept => kept[f] = m

DataInv == phase # "panicked" => state \in Machine /\ database = state /\ hook_database = state

KeptInv ==
  phase = "executing" =>
    /\ frames \in Seq(FrameRecords) /\ Len(frames) = Len(evm)
    /\ DOMAIN trace_state \subseteq Entries
    /\ \A f \in DOMAIN frame_states : Bounded(f)
    /\ evm # <<>> /\ trace[Last(evm)].kind = "plain" =>
          MemoryKept(frame_states, Last(opcode_frames), Last(frames).memory)
    /\ StacksKept(trace, evm, frames, trace_state)

LEMMA PoppedFacts ==
  ASSUME NEW s \in Seq(Nat), NEW n \in Nat, n <= Len(s)
  PROVE  Popped(n, s) \in Seq(Nat)
<1>1. PICK m \in Nat : m = Len(s) /\ n <= m
  BY LenProperties
<1>2. 1 \in Int /\ m - n \in Int /\ \A i \in 1..(m - n) : i \in 1..m
  BY <1>1
<1>3. \A i \in 1..(m - n) : s[i] \in Nat
  BY <1>1, <1>2, ElementOfSeq
<1>4. SubSeq(s, 1, m - n) \in Seq(Nat)
  BY <1>2, <1>3, SubSeqProperties
<1> QED
  BY <1>1, <1>4 DEF Popped

LEMMA TopItemsFacts ==
  ASSUME NEW a \in Seq(Nat), NEW p \in Seq(Nat)
  PROVE  a \o p \in Seq(Nat) /\ TopItems(Len(p), a \o p) = p
<1>1. PICK m \in Nat, n \in Nat : m = Len(a) /\ n = Len(p)
  BY LenProperties
<1>2. /\ a \o p \in Seq(Nat) /\ Len(a \o p) = m + n
      /\ \A k \in 1..(m + n) : (a \o p)[k] = IF k <= m THEN a[k] ELSE p[k - m]
  BY <1>1, ConcatProperties
<1>3. PICK s : s = a \o p
  OBVIOUS
<1>4. PICK x, y \in Int : x = (m + n) - n + 1 /\ y = m + n /\ x = m + 1
  OBVIOUS
<1>5. \A i \in x..y : i \in 1..(m + n) /\ s[i] \in Nat
  <2>1. \A i \in x..y : i \in 1..(m + n)
    BY <1>4
  <2> QED
    BY <1>2, <1>3, <2>1, ElementOfSeq
<1>6. /\ SubSeq(s, x, y) \in Seq(Nat)
      /\ Len(SubSeq(s, x, y)) = IF x <= y THEN y - x + 1 ELSE 0
      /\ \A i \in 1..(y - x + 1) : SubSeq(s, x, y)[i] = s[x + i - 1]
  BY <1>4, <1>5, SubSeqProperties
<1>7. PICK q : q = SubSeq(s, x, y)
  OBVIOUS
<1>8. y - x + 1 = n /\ Len(q) = n
  BY <1>4, <1>6, <1>7
<1>9. ASSUME NEW i \in 1..n PROVE q[i] = p[i]
  <2>1. x + i - 1 = m + i /\ m + i \in 1..(m + n) /\ ~(m + i <= m) /\ m + i - m = i
    BY <1>4
  <2>2. q[i] = s[m + i]
    BY <1>6, <1>7, <1>8, <2>1
  <2>3. s[m + i] = p[i]
    <3>1. PICK k \in 1..(m + n) : k = m + i /\ ~(k <= m) /\ k - m = i
      BY <2>1
    <3> QED
      BY <1>2, <1>3, <3>1
  <2> QED
    BY <2>2, <2>3
<1>10. q = p
  <2>1. q \in Seq(Nat) /\ p \in Seq(Nat) /\ Len(q) = Len(p)
    BY <1>1, <1>6, <1>7, <1>8
  <2>2. \A i \in 1..Len(q) : q[i] = p[i]
    BY <1>8, <1>9
  <2> QED
    BY <2>1, <2>2, SeqEqual
<1>11. TopItems(n, s) = SubSeq(s, x, y)
  BY <1>2, <1>3, <1>4 DEF TopItems
<1> QED
  BY <1>1, <1>2, <1>3, <1>7, <1>10, <1>11

(* What an opcode leaves on the stack of its frame is what update_stack makes of
   the stack it keeps, when that is the one the opcode found. *)
LEMMA ExecutedFacts ==
  ASSUME NEW r \in FrameRecords, NEW op \in Opcodes \union {"call"}, taken \in Nat,
         Len(r.stack) >= Inputs(op)
  PROVE  /\ Executed(op, r) \in FrameRecords
         /\ Executed(op, r).misread = r.misread
         /\ UpdatedStack(op, r.stack, Executed(op, r).stack) = Executed(op, r).stack
         /\ ~ModifiesMemory(op) => Executed(op, r).memory = r.memory
<1>1. PICK n \in Nat : n = Inputs(op) /\ n <= Len(r.stack)
  BY DEF Inputs
<1>2. r.stack \in Seq(Nat) /\ Len(r.stack) \in Nat
  BY LenProperties DEF FrameRecords
<1>3. PICK a : a = Popped(n, r.stack) /\ a \in Seq(Nat)
  BY <1>1, <1>2, PoppedFacts
<1>4. PICK p : p = (CASE op = "push" -> <<Value>>
                      [] op = "swap" -> Reverse(TopItems(2, r.stack))
                      [] OTHER -> <<>>)
  OBVIOUS
<1>5. p \in Seq(Nat) /\ Len(p) = (IF op = "call" THEN 0 ELSE Outputs(op)) /\ (op = "call" => p = <<>>)
  <2>1. CASE op = "push"
    <3>1. p = <<Value>> /\ Value \in Nat
      BY <1>4, <2>1 DEF Value
    <3>2. ASSUME NEW S, NEW z \in S PROVE <<z>> \in Seq(S) /\ Len(<<z>>) = 1
      OBVIOUS
    <3> QED
      BY <2>1, <3>1, <3>2 DEF Outputs
  <2>2. CASE op = "swap"
    <3>1. PICK s : s = r.stack /\ s \in Seq(Nat) /\ Len(s) >= 2
      BY <1>1, <1>2, <2>2 DEF Inputs
    <3>2. PICK m \in Nat : m = Len(s) /\ m >= 2
      BY <3>1, LenProperties
    <3>3. PICK x, y \in Int : x = m - 2 + 1 /\ y = m /\ x = m - 1 /\ y - x + 1 = 2
      BY <3>2
    <3>4. \A i \in x..y : s[i] \in Nat
      <4>1. \A i \in x..y : i \in 1..m
        BY <3>2, <3>3
      <4> QED
        BY <3>1, <3>2, <4>1, ElementOfSeq
    <3>5. PICK q : q = SubSeq(s, x, y)
      OBVIOUS
    <3>6. q \in Seq(Nat) /\ Len(q) = 2
      <4>1. q \in Seq(Nat) /\ Len(q) = IF x <= y THEN y - x + 1 ELSE 0
        BY <3>3, <3>4, <3>5, SubSeqProperties
      <4> QED
        BY <3>3, <4>1
    <3>7. TopItems(2, s) = q
      BY <3>2, <3>3, <3>5 DEF TopItems
    <3>8. p = [i \in 1..2 |-> q[(2 - i) + 1]]
      BY <1>4, <2>2, <3>1, <3>6, <3>7 DEF Reverse
    <3>9. \A i \in 1..2 : p[i] \in Nat
      <4>1. \A i \in 1..2 : (2 - i) + 1 \in 1..2
        OBVIOUS
      <4>2. \A i \in 1..2 : q[i] \in Nat
        BY <3>6, ElementOfSeq
      <4> QED
        BY <3>8, <4>1, <4>2
    <3>10. p \in Seq(Nat)
      <4>1. p = [i \in 1..2 |-> p[i]]
        BY <3>8
      <4> QED
        BY <3>9, <4>1, IsASeq
    <3>11. Len(p) = 2
      BY <3>8
    <3> QED
      BY <2>2, <3>10, <3>11 DEF Outputs
  <2>3. CASE op \notin {"push", "swap"}
    <3>1. p = <<>>
      BY <1>4, <2>3
    <3> QED
      BY <2>3, <3>1 DEF Outputs
  <2> QED
    BY <2>1, <2>2, <2>3
<1>6. PICK s : s = a \o p
  OBVIOUS
<1>7. PICK m : m = (IF op = "mstore" THEN Value ELSE r.memory) /\ m \in Nat
  <2>1. Value \in Nat /\ r.memory \in Nat
    BY DEF Value, FrameRecords
  <2> QED
    BY <2>1
<1>8. PICK u \in BOOLEAN \union {None} :
         u = (CASE op = "stop" -> TRUE [] op = "revert" -> FALSE [] OTHER -> None)
  <2>1. \E u \in BOOLEAN \union {None} :
         u = (CASE op = "stop" -> TRUE [] op = "revert" -> FALSE [] OTHER -> None)
    <3>1. CASE op = "stop"
      BY <3>1
    <3>2. CASE op = "revert"
      BY <3>2
    <3>3. CASE op \notin {"stop", "revert"}
      BY <3>3
    <3> QED
      BY <3>1, <3>2, <3>3
  <2> QED
    BY <2>1
<1>9. Executed(op, r) = [r EXCEPT !.memory = m, !.stack = s, !.outcome = u]
  BY <1>1, <1>3, <1>4, <1>6, <1>7, <1>8 DEF Executed
<1>10. s \in Seq(Nat) /\ TopItems(Len(p), s) = p
  BY <1>3, <1>5, <1>6, TopItemsFacts
<1>11. /\ Executed(op, r) \in FrameRecords
       /\ Executed(op, r).misread = r.misread
       /\ Executed(op, r).stack = s
       /\ Executed(op, r).memory = m
  BY <1>7, <1>8, <1>9, <1>10 DEF FrameRecords
<1>12. UpdatedStack(op, r.stack, s) = s
  <2>1. CASE op = "call"
    BY <1>1, <1>3, <1>5, <1>6, <2>1 DEF UpdatedStack, IsMessageCall
  <2>2. CASE op # "call"
    BY <1>1, <1>3, <1>5, <1>6, <1>10, <2>2 DEF UpdatedStack, IsMessageCall
  <2> QED
    BY <2>1, <2>2
<1>13. ~ModifiesMemory(op) => m = r.memory
  BY <1>7 DEF ModifiesMemory
<1> QED
  BY <1>11, <1>12, <1>13

(* The machine's storage, and what the inspectors keep of it. *)
LEMMA WrittenFacts ==
  ASSUME state \in Machine, taken \in Nat, NEW op
  PROVE  /\ Written(op) \in Machine
         /\ op # "call" => UpdatedByOpcode(state, op, Written(op)) = Written(op)
         /\ UpdatedByOpcode(state, op, state) = state
<1>1. Value \in Nat
  BY DEF Value
<1>2. state = [storage |-> state.storage, transient |-> state.transient]
      /\ state.storage \in Nat /\ state.transient \in Nat
  BY DEF Machine
<1>3. Written(op) \in Machine
  BY <1>1, <1>2 DEF Written, Machine
<1>4. UpdatedByOpcode(state, op, state) = state
  BY <1>2 DEF UpdatedByOpcode
<1>5. op # "call" => UpdatedByOpcode(state, op, Written(op)) = Written(op)
  BY <1>2 DEF UpdatedByOpcode, Written, ModifiesEvmState, ModifiesTransientStorage, IsMessageCall
<1> QED
  BY <1>3, <1>4, <1>5

(* The parts of KeptInv in the next state. *)
LEMMA KeptNext ==
  ASSUME NEW fr \in Seq(FrameRecords), NEW ts, NEW fs,
         frames' = fr, trace_state' = ts, frame_states' = fs, Len(fr) = Len(evm'),
         DOMAIN ts \subseteq Entries', \A f \in DOMAIN fs : Bounded(f)',
         evm' # <<>> /\ trace'[Last(evm)'].kind = "plain" =>
            MemoryKept(fs, Last(opcode_frames)', Last(fr).memory),
         StacksKept(trace', evm', fr, ts)
  PROVE  KeptInv'
<1>1. frames' \in Seq(FrameRecords) /\ Len(frames)' = Len(evm)' /\ DOMAIN trace_state' \subseteq Entries'
  OBVIOUS
<1>2. \A f \in DOMAIN frame_states' : Bounded(f)'
  OBVIOUS
<1>3. evm' # <<>> /\ trace'[Last(evm)'].kind = "plain" =>
        (Last(opcode_frames)' \in DOMAIN frame_states' =>
           frame_states'[Last(opcode_frames)'] = Last(frames)'.memory)
  BY DEF MemoryKept, Last
<1>4. StacksKept(trace, evm, frames, trace_state)'
  BY DEF StacksKept, OrDefault
<1> QED
  BY <1>1, <1>2, <1>3, <1>4 DEF KeptInv, MemoryKept, Bounded

LEMMA KeptFacts ==
  ASSUME StackInv, KeptInv, Recorded
  PROVE  /\ evm # <<>> /\ phase = "executing" /\ trace[Last(evm)].kind = "plain"
         /\ frames \in Seq(FrameRecords) /\ Len(frames) = Len(evm) /\ frames # <<>>
         /\ Top = frames[Len(evm)] /\ Top \in FrameRecords
         /\ KeptMemory = Top.memory
         /\ GoesOn => KeptStack = Top.stack \/ Top.misread
<1>1. evm # <<>> /\ phase = "executing" /\ trace[Last(evm)].kind = "plain"
  BY DEF Recorded, Running
<1>2. PICK n \in Nat \ {0} : n = Len(evm) /\ Last(evm) = evm[n]
  BY <1>1, TopFacts
<1>3. /\ frames \in Seq(FrameRecords) /\ Len(frames) = n
      /\ MemoryKept(frame_states, Last(opcode_frames), Last(frames).memory)
      /\ StacksKept(trace, evm, frames, trace_state)
  BY <1>1, <1>2 DEF KeptInv
<1>4. frames # <<>> /\ Last(frames) = frames[n] /\ Last(frames) \in FrameRecords
  <2>1. frames # <<>>
    BY <1>2, <1>3
  <2> QED
    BY <1>3, <2>1, LastFacts
<1>5. KeptMemory = Top.memory
  BY <1>3 DEF KeptMemory, MemoryKept, Frame, Top
<1>6. GoesOn => KeptStack = Top.stack \/ Top.misread
  <2>1. n \in 1..Len(evm)
    BY <1>2
  <2>2. frames[n].outcome = None => OrDefault(trace_state, evm[n]) = frames[n].stack \/ frames[n].misread
    BY <1>1, <1>2, <1>3, <2>1 DEF StacksKept
  <2> QED
    BY <1>2, <1>4, <2>2 DEF GoesOn, Top, KeptStack
<1> QED
  BY <1>1, <1>2, <1>3, <1>4, <1>5, <1>6 DEF Top

(* KeepFrame keeps what the step leaves of the frame. *)
TopKept(fr, ts, fs, new) ==
  /\ fr \in Seq(FrameRecords) /\ Len(fr) = Len(evm) /\ Last(fr) = new
  /\ DOMAIN ts \subseteq Entries /\ Last(evm) \in DOMAIN ts
  /\ \A f \in DOMAIN fs : Bounded(f)
  /\ MemoryKept(fs, Last(opcode_frames), new.memory)
  /\ StacksKept(trace, evm, fr, ts)

LEMMA TopReplaced ==
  ASSUME StackInv, KeptInv, Recorded, GoesOn, NEW op, NEW new \in FrameRecords,
         new.outcome = None =>
            new.misread = Top.misread /\ UpdatedStack(op, Top.stack, new.stack) = new.stack,
         ~ModifiesMemory(op) => new.memory = Top.memory,
         NEW fr, fr = [frames EXCEPT ![Len(frames)] = new],
         NEW ts, ts = Put(trace_state, Last(evm), UpdatedStack(op, KeptStack, new.stack)),
         NEW fs, fs = Put(frame_states, Frame, IF ModifiesMemory(op) THEN new.memory ELSE KeptMemory)
  PROVE  TopKept(fr, ts, fs, new)
<1>1. PICK n \in Nat \ {0} : n = Len(evm)
  BY KeptFacts, TopFacts
<1>2. /\ evm # <<>> /\ phase = "executing" /\ trace[Last(evm)].kind = "plain"
      /\ frames \in Seq(FrameRecords) /\ Len(frames) = n /\ Top = frames[n]
      /\ KeptMemory = Top.memory /\ (KeptStack = Top.stack \/ Top.misread)
  BY <1>1, KeptFacts
<1>3. /\ DOMAIN trace_state \subseteq Entries /\ \A f \in DOMAIN frame_states : Bounded(f)
      /\ StacksKept(trace, evm, frames, trace_state)
  BY <1>2 DEF KeptInv
<1>4. /\ fr \in Seq(FrameRecords) /\ Len(fr) = n
      /\ \A j \in 1..n : fr[j] = IF j = n THEN new ELSE frames[j]
  <2>1. n \in 1..n /\ fr = [frames EXCEPT ![n] = new]
    BY <1>2
  <2> QED
    BY <1>2, <2>1, ExceptSeq
<1>5. Last(fr) = new
  BY <1>4 DEF Last
<1>6. Last(evm) = evm[n] /\ evm[n] \in Entries
  BY <1>1, <1>2, TopFacts
<1>7. DOMAIN ts = DOMAIN trace_state \union {evm[n]}
  BY <1>6 DEF Put
<1>8. ASSUME NEW f \in DOMAIN fs PROVE Bounded(f)
  <2>1. f \in DOMAIN frame_states \/ f = Last(opcode_frames)
    BY DEF Put, Frame
  <2> QED
    BY <1>2, <1>3, <2>1, TopBounded
<1>9. MemoryKept(fs, Last(opcode_frames), new.memory)
  BY <1>2 DEF MemoryKept, Put, Frame
<1>10. StacksKept(trace, evm, fr, ts)
  <2> SUFFICES ASSUME NEW k \in 1..n, trace[evm[k]].kind = "plain"
               PROVE  /\ fr[k].outcome = None => OrDefault(ts, evm[k]) = fr[k].stack \/ fr[k].misread
                      /\ k < n => evm[k] \in DOMAIN ts
    BY <1>1 DEF StacksKept
  <2>1. CASE k = n
    <3>1. fr[k] = new /\ OrDefault(ts, evm[k]) = UpdatedStack(op, KeptStack, new.stack)
      BY <1>4, <1>6, <2>1 DEF OrDefault, Put
    <3>2. CASE new.outcome = None
      <4>1. new.misread = Top.misread /\ UpdatedStack(op, Top.stack, new.stack) = new.stack
        BY <3>2
      <4>2. CASE KeptStack = Top.stack
        <5>1. OrDefault(ts, evm[k]) = new.stack
          BY <3>1, <4>1, <4>2
        <5> QED
          BY <2>1, <3>1, <5>1
      <4>3. CASE Top.misread
        <5>1. fr[k].misread = Top.misread
          BY <3>1, <4>1
        <5>2. fr[k].misread
          BY <4>3, <5>1
        <5>3. ~(k < n)
          BY <2>1
        <5> QED
          BY <5>2, <5>3
      <4> QED
        BY <1>2, <4>2, <4>3
    <3>3. CASE new.outcome # None
      BY <2>1, <3>1, <3>3
    <3> QED
      BY <3>2, <3>3
  <2>2. CASE k # n
    <3>1. k < n
      BY <2>2
    <3>2. evm[k] # evm[n]
      <4>1. evm[k] < evm[n] /\ evm[k] \in Nat /\ evm[n] \in Nat
        <5>1. /\ evm \in Seq(Nat)
              /\ \A i, j \in 1..Len(evm) : i < j => evm[i] < evm[j]
          BY <1>1 DEF StackInv, ChainInv
        <5>2. n = Len(evm) /\ k \in 1..Len(evm) /\ n \in 1..Len(evm)
          BY <1>1, <3>1
        <5> QED
          BY <3>1, <5>1, <5>2
      <4> QED
        BY <4>1
    <3>3. /\ frames[k].outcome = None =>
               OrDefault(trace_state, evm[k]) = frames[k].stack \/ frames[k].misread
          /\ evm[k] \in DOMAIN trace_state
      BY <1>1, <1>3, <3>1 DEF StacksKept
    <3>4. OrDefault(ts, evm[k]) = OrDefault(trace_state, evm[k])
      BY <1>6, <3>2, <3>3 DEF OrDefault, Put
    <3>5. fr[k] = frames[k]
      BY <1>4, <2>2
    <3> QED
      BY <1>7, <3>3, <3>4, <3>5
  <2> QED
    BY <2>1, <2>2
<1> QED
  BY <1>1, <1>3, <1>4, <1>5, <1>6, <1>7, <1>8, <1>9, <1>10 DEF TopKept

(* A step of a recorded call, also one that fails. *)
LEMMA KeptReplaced ==
  ASSUME StackInv, KeptInv, PlainStep, GoesOn, NEW op, NEW new \in FrameRecords,
         new.outcome = None =>
            new.misread = Top.misread /\ UpdatedStack(op, Top.stack, new.stack) = new.stack,
         ~ModifiesMemory(op) => new.memory = Top.memory,
         frames' = [frames EXCEPT ![Len(frames)] = new], KeepFrame(op, new)
  PROVE  KeptInv'
<1>1. PICK fr, ts, fs : fr = frames' /\ ts = trace_state' /\ fs = frame_states'
  OBVIOUS
<1>2. /\ ts = Put(trace_state, Last(evm), UpdatedStack(op, KeptStack, new.stack))
      /\ fs = Put(frame_states, Frame, IF ModifiesMemory(op) THEN new.memory ELSE KeptMemory)
      /\ fr = [frames EXCEPT ![Len(frames)] = new]
  BY <1>1 DEF KeepFrame
<1>3. Recorded /\ UNCHANGED <<evm, trace, opcode_frames>>
  BY DEF PlainStep
<1>4. /\ fr \in Seq(FrameRecords) /\ Len(fr) = Len(evm) /\ Last(fr) = new
      /\ DOMAIN ts \subseteq Entries
      /\ \A f \in DOMAIN fs : Bounded(f)
      /\ MemoryKept(fs, Last(opcode_frames), new.memory)
      /\ StacksKept(trace, evm, fr, ts)
  <2>1. TopKept(fr, ts, fs, new)
    BY <1>2, <1>3, TopReplaced
  <2> QED
    BY <2>1 DEF TopKept
<1>5. Entries' = Entries /\ Last(opcode_frames)' = Last(opcode_frames)
  BY <1>3 DEF Entries, Last
<1>6. StacksKept(trace', evm', fr, ts)
  BY <1>3, <1>4
<1>7. \A f \in DOMAIN fs : Bounded(f)'
  BY <1>3, <1>4, BoundedSame
<1> QED
  BY <1>1, <1>3, <1>4, <1>5, <1>6, <1>7, KeptNext

LEMMA StepKept ==
  ASSUME StackInv, RecordInv, KeptInv, NEW op \in Opcodes, StepOf(op)
  PROVE  KeptInv'
<1>1. PICK new : new = Executed(op, Top)
  OBVIOUS
<1>2. /\ PlainStep /\ GoesOn /\ Len(Top.stack) >= Inputs(op) /\ Recorded
      /\ frames' = [frames EXCEPT ![Len(frames)] = new] /\ KeepFrame(op, new)
  BY <1>1 DEF StepOf, PlainStep
<1>3. Top \in FrameRecords /\ taken \in Nat /\ op \in Opcodes \union {"call"}
  BY <1>2, KeptFacts DEF RecordInv
<1>4. /\ new \in FrameRecords /\ new.misread = Top.misread
      /\ UpdatedStack(op, Top.stack, new.stack) = new.stack
      /\ ~ModifiesMemory(op) => new.memory = Top.memory
  <2>1. PICK r : r = Top
    OBVIOUS
  <2> QED
    BY <1>1, <1>2, <1>3, <2>1, ExecutedFacts
<1> QED
  BY <1>2, <1>4, KeptReplaced

LEMMA FailingStepKept ==
  ASSUME StackInv, RecordInv, KeptInv, NEW op, FailingStepOf(op)
  PROVE  KeptInv'
<1>1. PICK new : new = [Top EXCEPT !.outcome = FALSE]
  OBVIOUS
<1>2. /\ PlainStep /\ GoesOn /\ Recorded
      /\ frames' = [frames EXCEPT ![Len(frames)] = new] /\ KeepFrame(op, new)
  BY <1>1 DEF FailingStepOf, PlainStep
<1>3. Top \in FrameRecords
  BY <1>2, KeptFacts
<1>4. new \in FrameRecords /\ new.outcome # None /\ new.memory = Top.memory
  BY <1>1, <1>3, OutcomeAssumption DEF FrameRecords
<1> QED
  BY <1>2, <1>4, KeptReplaced

(* A call: its frame is new to what is kept. *)
LEMMA CallKept ==
  ASSUME StackInv, RecordInv, KeptInv, state \in Machine,
         NEW kind \in Kinds, NEW create \in BOOLEAN, CallOf(kind, create)
  PROVE  KeptInv'
<1>1. PICK n \in Nat : n = Len(evm)
  BY DEF CallOf, StackInv, ChainInv
<1>2. PICK ts, fs, fr, new : /\ ts = trace_state' /\ fs = frame_states' /\ new = NewFrame(create)
                        /\ fr = IF Recorded THEN [frames EXCEPT ![Len(frames)] = Executed("call", Top)]
                                ELSE frames
  OBVIOUS
<1>3. /\ Call(kind) /\ (Recorded => GoesOn /\ Top.stack # <<>>)
      /\ frames' = Append(fr, new)
      /\ Recorded => KeepFrame("call", Executed("call", Top))
      /\ ~Recorded => ts = trace_state /\ fs = frame_states
  BY <1>2 DEF CallOf
<1>4. /\ Len(trace) \in Nat /\ trace' \in Seq(Calls) /\ Len(trace') = Len(trace) + 1
      /\ \A i \in 1..Len(trace) : trace'[i] = trace[i]
      /\ evm' \in Seq(Nat) /\ Len(evm') = n + 1 /\ (\A k \in 1..n : evm'[k] = evm[k])
      /\ evm'[n + 1] = Len(trace) + 1
      /\ Len(opcode_frames') = n + 1 /\ opcode_frames'[n + 1] = <<Len(trace) + 1, 0>>
      /\ phase = "executing"
  BY <1>1, <1>3, CallFacts
<1>5. /\ fr \in Seq(FrameRecords) /\ Len(fr) = n /\ DOMAIN ts \subseteq Entries
      /\ \A f \in DOMAIN fs : Bounded(f)
      /\ StacksKept(trace, evm, fr, ts)
      /\ n > 0 /\ trace[evm[n]].kind = "plain" => evm[n] \in DOMAIN ts
  <2>1. CASE Recorded
    <3>1. PICK c : c = Executed("call", Top)
      OBVIOUS
    <3>2. /\ Top \in FrameRecords /\ Top.stack # <<>> /\ GoesOn /\ taken \in Nat
          /\ evm # <<>>
      BY <1>3, <2>1, KeptFacts DEF RecordInv
    <3>3. Len(Top.stack) >= Inputs("call")
      <4>1. Top.stack \in Seq(Nat)
        BY <3>2 DEF FrameRecords
      <4>2. Len(Top.stack) \in Nat \ {0}
        BY <3>2, <4>1, LastFacts
      <4> QED
        BY <4>2 DEF Inputs
    <3>4. PICK r : r = Top
      OBVIOUS
    <3>5. /\ c \in FrameRecords /\ c.misread = Top.misread
          /\ UpdatedStack("call", Top.stack, c.stack) = c.stack
          /\ ~ModifiesMemory("call") => c.memory = Top.memory
      BY <3>1, <3>2, <3>3, <3>4, ExecutedFacts
    <3>6. /\ fr = [frames EXCEPT ![Len(frames)] = c]
          /\ ts = Put(trace_state, Last(evm), UpdatedStack("call", KeptStack, c.stack))
          /\ fs = Put(frame_states, Frame, IF ModifiesMemory("call") THEN c.memory ELSE KeptMemory)
      BY <1>2, <1>3, <2>1, <3>1 DEF KeepFrame
    <3>7. TopKept(fr, ts, fs, c)
      BY <2>1, <3>2, <3>5, <3>6, TopReplaced
    <3>8. Last(evm) = evm[n]
      BY <1>1, <3>2, TopFacts
    <3> QED
      BY <1>1, <3>7, <3>8 DEF TopKept
  <2>2. CASE ~Recorded
    <3>1. fr = frames /\ ts = trace_state /\ fs = frame_states
      BY <1>2, <1>3, <2>2
    <3>2. n > 0 => trace[evm[n]].kind # "plain"
      <4> SUFFICES ASSUME n > 0 PROVE trace[evm[n]].kind # "plain"
        OBVIOUS
      <4>1. evm # <<>>
        BY <1>1
      <4>2. Last(evm) = evm[n] /\ evm[n] \in Entries
        BY <1>1, <4>1, TopFacts
      <4>3. trace # <<>>
        BY <1>4, <4>2 DEF Entries
      <4>4. Running
        BY <1>3, <4>3 DEF Call
      <4> QED
        BY <2>2, <4>2, <4>4 DEF Recorded
    <3> QED
      BY <1>1, <1>4, <3>1, <3>2 DEF KeptInv
  <2> QED
    BY <2>1, <2>2
<1>6. new \in FrameRecords /\ new.stack = <<>>
  <2>1. new = [before |-> state, memory |-> 0, stack |-> <<>>, outcome |-> None,
               create |-> create, misread |-> FALSE]
    BY <1>2 DEF NewFrame
  <2> QED
    BY <2>1 DEF FrameRecords
<1>7. PICK g : g = Append(fr, new)
  OBVIOUS
<1>8. /\ g \in Seq(FrameRecords) /\ Len(g) = n + 1
      /\ \A k \in 1..n : g[k] = fr[k]
      /\ g[n + 1] = new
  BY <1>5, <1>6, <1>7, AppendFacts
<1>9. Entries \subseteq Entries' /\ Len(trace) + 1 \notin Entries
  BY <1>4 DEF Entries
<1>10. ASSUME NEW f \in DOMAIN fs PROVE Bounded(f)' /\ f # <<Len(trace) + 1, 0>>
  <2>1. Bounded(f)
    BY <1>5
  <2>2. Bounded(f)' /\ f[1] \in 1..Len(trace)
    BY <1>3, <2>1, BoundedInCall
  <2> QED
    BY <1>4, <2>2
<1>11. Last(opcode_frames)' = <<Len(trace) + 1, 0>>
  BY <1>4 DEF Last
<1>12. StacksKept(trace', evm', g, ts)
  <2> SUFFICES ASSUME NEW k \in 1..(n + 1), trace'[evm'[k]].kind = "plain"
               PROVE  /\ g[k].outcome = None => OrDefault(ts, evm'[k]) = g[k].stack \/ g[k].misread
                      /\ k < n + 1 => evm'[k] \in DOMAIN ts
    BY <1>4 DEF StacksKept
  <2>1. CASE k = n + 1
    <3>1. OrDefault(ts, evm'[k]) = <<>>
      BY <1>4, <1>5, <1>9, <2>1 DEF OrDefault
    <3> QED
      BY <1>6, <1>8, <2>1, <3>1
  <2>2. CASE k # n + 1
    <3>1. k \in 1..n
      BY <2>2
    <3>2. evm'[k] = evm[k] /\ g[k] = fr[k] /\ evm[k] \in 1..Len(trace)
      BY <1>1, <1>4, <1>8, <3>1 DEF StackInv, ChainInv, Entries
    <3>3. trace[evm[k]].kind = "plain"
      BY <1>4, <3>2
    <3>4. /\ fr[k].outcome = None => OrDefault(ts, evm[k]) = fr[k].stack \/ fr[k].misread
          /\ k < n => evm[k] \in DOMAIN ts
      BY <1>1, <1>5, <3>1, <3>3 DEF StacksKept
    <3>5. evm[k] \in DOMAIN ts
      <4>1. CASE k = n
        BY <1>5, <3>1, <3>3, <4>1
      <4>2. CASE k # n
        BY <3>1, <3>4, <4>2
      <4> QED
        BY <4>1, <4>2
    <3> QED
      BY <3>2, <3>4, <3>5
  <2> QED
    BY <2>1, <2>2
<1>13. DOMAIN ts \subseteq Entries'
  BY <1>5, <1>9
<1>14. MemoryKept(fs, Last(opcode_frames)', Last(g).memory)
  BY <1>10, <1>11 DEF MemoryKept
<1>15. frames' = g /\ trace_state' = ts /\ frame_states' = fs
  BY <1>2, <1>3, <1>7
<1>16. g \in Seq(FrameRecords) /\ Len(g) = Len(evm')
  BY <1>4, <1>8
<1>17. \A f \in DOMAIN fs : Bounded(f)'
  BY <1>10
<1>18. StacksKept(trace', evm', g, ts)
  BY <1>12
<1> QED
  BY <1>13, <1>14, <1>15, <1>16, <1>17, <1>18, KeptNext

(* The end of a call: the caller goes on in a frame that is new to what is kept,
   and its stack gets the same item as the one kept of it. *)
LEMMA EndKept ==
  ASSUME StackInv, RecordInv, KeptInv, NEW success \in BOOLEAN, NEW named \in BOOLEAN,
         CallEndOf(success, named)
  PROVE  KeptInv'
<1>1. CallEnd /\ phase = "executing" /\ evm # <<>>
  BY DEF CallEndOf, CallEnd
<1>2. CASE phase' # "executing"
  BY <1>2 DEF KeptInv
<1>3. CASE phase' = "executing"
  <2>1. PICK n \in Nat \ {0} : n = Len(evm)
    BY <1>1, EndFacts
  <2>2. /\ trace' = trace /\ evm' \in Seq(Nat) /\ Len(evm') = n - 1
        /\ \A k \in 1..(n - 1) : evm'[k] = evm[k]
        /\ Len(opcode_frames') = n - 1
        /\ \A k \in 1..(n - 1) : opcode_frames'[k] =
               IF k = n - 1 THEN <<opcode_frames[k][1], opcode_frames[k][2] + 1>> ELSE opcode_frames[k]
        /\ phase' = IF evm' = <<>> THEN "executed" ELSE "executing"
    BY <1>1, <2>1, EndFacts
  <2>3. n - 1 \in Nat \ {0} /\ n - 1 \in 1..(n - 1) /\ n - 1 \in 1..n /\ n \in 1..n /\ n > 1
    <3>1. n # 1
      BY <1>3, <2>2, EmptySeq
    <3> QED
      BY <3>1
  <2>4. PICK p : p = evm[n - 1]
    OBVIOUS
  <2>5. trace[Last(evm)].parent = p /\ \A k \in 1..n : evm[k] \in Entries /\ evm[k] \in Nat
    <3>1. Last(evm) = evm[n]
      BY <1>1, <2>1, TopFacts
    <3>2. \A k \in 1..n : /\ evm[k] \in Entries /\ evm[k] \in Nat
                          /\ trace[evm[k]].parent = IF k = 1 THEN None ELSE evm[k - 1]
      BY <2>1 DEF StackInv, ChainInv
    <3> QED
      BY <2>3, <2>4, <3>1, <3>2
  <2>6. /\ frames \in Seq(FrameRecords) /\ Len(frames) = n
        /\ DOMAIN trace_state \subseteq Entries
        /\ \A f \in DOMAIN frame_states : Bounded(f)
        /\ StacksKept(trace, evm, frames, trace_state)
    BY <1>1, <2>1 DEF KeptInv
  <2>7. PICK result, shown \in Nat : /\ result = (IF success THEN Value ELSE 0)
                                    /\ shown = (IF success \/ named THEN Value ELSE 0)
    <3>1. Value \in Nat
      BY DEF Value, RecordInv
    <3> QED
      BY <3>1
  <2>8. PICK m : m = (IF Top.create THEN frames[n - 1].memory ELSE Value)
    OBVIOUS
  <2>9. PICK c : c = frames[n - 1] /\ c \in FrameRecords
    BY <2>3, <2>6, ElementOfSeq
  <2>10. m \in Nat
    BY <2>8, <2>9 DEF FrameRecords, Value, RecordInv
  <2>11. PICK back : back = [c EXCEPT !.memory = m, !.stack = Append(@, result),
                                      !.misread = @ \/ shown # result]
    OBVIOUS
  <2>12. PICK fr, ts, fs : fr = frames' /\ ts = trace_state' /\ fs = frame_states'
    OBVIOUS
  <2>13. /\ fr = IF trace[p].kind = "plain" THEN Append(SubSeq(frames, 1, n - 2), back)
                 ELSE Front(frames)
         /\ ts = IF trace[p].kind = "plain" THEN [trace_state EXCEPT ![p] = Append(@, shown)]
                 ELSE trace_state
         /\ fs = [f \in DOMAIN frame_states \ {Frame} |-> frame_states[f]]
    <3>1. phase' # "executed" /\ Len(frames) > 1 /\ Len(frames) - 1 = n - 1 /\ Len(frames) - 2 = n - 2
      BY <1>3, <2>3, <2>6
    <3>2. fr = IF Len(frames) > 1 /\ trace[trace[Last(evm)].parent].kind = "plain"
               THEN Append(SubSeq(frames, 1, Len(frames) - 2),
                           [frames[Len(frames) - 1] EXCEPT
                              !.memory = IF Top.create THEN @ ELSE Value,
                              !.stack = Append(@, IF success THEN Value ELSE 0),
                              !.misread = @ \/ (IF success \/ named THEN Value ELSE 0)
                                               # (IF success THEN Value ELSE 0)])
               ELSE Front(frames)
      BY <2>12 DEF CallEndOf
    <3>3. /\ ts = IF Len(frames) > 1 /\ trace[trace[Last(evm)].parent].kind = "plain"
                  THEN [trace_state EXCEPT ![trace[Last(evm)].parent] =
                                               Append(@, IF success \/ named THEN Value ELSE 0)]
                  ELSE trace_state
          /\ fs = [f \in DOMAIN frame_states \ {Frame} |-> frame_states[f]]
      BY <2>12, <3>1 DEF CallEndOf
    <3>4. [frames[Len(frames) - 1] EXCEPT
              !.memory = IF Top.create THEN @ ELSE Value,
              !.stack = Append(@, IF success THEN Value ELSE 0),
              !.misread = @ \/ (IF success \/ named THEN Value ELSE 0)
                               # (IF success THEN Value ELSE 0)] = back
      BY <2>7, <2>8, <2>9, <2>11, <3>1
    <3> QED
      BY <2>5, <2>7, <3>1, <3>2, <3>3, <3>4
  <2>14. /\ back \in FrameRecords
         /\ back.outcome = c.outcome
         /\ back.stack = Append(c.stack, result)
         /\ back.misread = (c.misread \/ shown # result)
    <3>1. c.stack \in Seq(Nat) /\ c.misread \in BOOLEAN
      BY <2>9 DEF FrameRecords
    <3>2. Append(c.stack, result) \in Seq(Nat)
      BY <2>7, <3>1, AppendFacts
    <3>3. PICK s, b : s = Append(c.stack, result) /\ b = (c.misread \/ shown # result)
      OBVIOUS
    <3>4. b \in BOOLEAN
      BY <3>3
    <3>5. back = [c EXCEPT !.memory = m, !.stack = s, !.misread = b]
      BY <2>11, <3>3
    <3>6. /\ back \in FrameRecords /\ back.outcome = c.outcome
          /\ back.stack = s /\ back.misread = b
      BY <2>9, <2>10, <3>2, <3>3, <3>4, <3>5 DEF FrameRecords
    <3> QED
      BY <3>3, <3>6
  <2>15. /\ fr \in Seq(FrameRecords) /\ Len(fr) = n - 1
         /\ \A k \in 1..(n - 1) : fr[k] = IF k = n - 1 /\ trace[p].kind = "plain" THEN back ELSE frames[k]
    <3>1. CASE trace[p].kind = "plain"
      <4>1. PICK q, x : q = SubSeq(frames, 1, x) /\ x = n - 2
        OBVIOUS
      <4>2. x \in Nat /\ 1 \in Int /\ x \in Int /\ \A i \in 1..x : i \in 1..n
        BY <2>3, <4>1
      <4>3. \A i \in 1..x : frames[i] \in FrameRecords
        BY <2>6, <4>2, ElementOfSeq
      <4>4. /\ q \in Seq(FrameRecords) /\ Len(q) = (IF 1 <= x THEN x - 1 + 1 ELSE 0)
            /\ \A i \in 1..(x - 1 + 1) : q[i] = frames[1 + i - 1]
        BY <4>1, <4>2, <4>3, SubSeqProperties
      <4>5. Len(q) = x /\ \A i \in 1..x : q[i] = frames[i]
        BY <4>2, <4>4
      <4>6. /\ Append(q, back) \in Seq(FrameRecords) /\ Len(Append(q, back)) = x + 1
            /\ \A k \in 1..x : Append(q, back)[k] = q[k]
            /\ Append(q, back)[x + 1] = back
        BY <2>14, <4>4, <4>5, AppendFacts
      <4>7. fr = Append(q, back) /\ x + 1 = n - 1 /\ \A k \in 1..(n - 1) : k = n - 1 \/ k \in 1..x
        BY <2>13, <3>1, <4>1, <4>2
      <4>8. \A k \in 1..x : k # n - 1
        BY <4>1, <4>2
      <4> QED
        BY <3>1, <4>5, <4>6, <4>7, <4>8
    <3>2. CASE trace[p].kind # "plain"
      <4>1. frames # <<>>
        BY <2>3, <2>6
      <4> QED
        BY <2>6, <2>13, <3>2, <4>1, FrontFacts
    <3> QED
      BY <3>1, <3>2
  <2>16. Last(opcode_frames)' \notin DOMAIN fs
    <3>1. PICK f : f = Last(opcode_frames)'
      OBVIOUS
    <3>2. f = <<opcode_frames[n - 1][1], opcode_frames[n - 1][2] + 1>>
      <4>1. f = opcode_frames'[n - 1]
        BY <2>2, <3>1 DEF Last
      <4> QED
        BY <2>2, <2>3, <4>1
    <3>3. opcode_frames[n - 1] \in Nat \X Nat /\ opcode_frames[n - 1][1] = evm[n - 1]
      <4>1. opcode_frames \in Seq(Nat \X Nat) /\ Len(opcode_frames) = n
        BY <2>1 DEF StackInv, FramesInv
      <4>2. \A k \in 1..n : opcode_frames[k] = <<evm[k], Cardinality(Returned(evm[k]))>>
        BY <2>1 DEF StackInv, FramesInv
      <4> QED
        BY <2>3, <4>1, <4>2
    <3>4. ~Bounded(f)
      <4>1. f[1] = evm[n - 1] /\ f[2] = opcode_frames[n - 1][2] + 1
        BY <3>2, <3>3
      <4>2. Bounded(f) => f[2] <= opcode_frames[n - 1][2]
        BY <2>1, <2>3, <4>1 DEF Bounded
      <4> QED
        BY <3>3, <4>1, <4>2
    <3> QED
      BY <2>6, <2>13, <3>1, <3>4
  <2>17. StacksKept(trace', evm', fr, ts)
    <3> SUFFICES ASSUME NEW k \in 1..(n - 1), trace[evm'[k]].kind = "plain"
                 PROVE  /\ fr[k].outcome = None => OrDefault(ts, evm'[k]) = fr[k].stack \/ fr[k].misread
                        /\ k < n - 1 => evm'[k] \in DOMAIN ts
      BY <2>2 DEF StacksKept
    <3>1. k \in 1..n /\ k < n /\ evm'[k] = evm[k] /\ trace[evm[k]].kind = "plain"
      BY <2>2
    <3>2. /\ frames[k].outcome = None =>
               OrDefault(trace_state, evm[k]) = frames[k].stack \/ frames[k].misread
          /\ evm[k] \in DOMAIN trace_state
      BY <2>1, <2>6, <3>1 DEF StacksKept
    <3>3. evm[k] \in DOMAIN ts
      BY <2>13, <3>2
    <3>4. CASE k = n - 1
      <4>1. evm[k] = p /\ fr[k] = back /\ frames[k] = c
        BY <2>4, <2>9, <2>15, <3>1, <3>4
      <4>2. OrDefault(ts, p) = Append(OrDefault(trace_state, p), shown)
        BY <2>13, <3>1, <3>2, <3>3, <4>1 DEF OrDefault
      <4>3. ASSUME back.outcome = None, ~back.misread PROVE OrDefault(ts, p) = back.stack
        <5>1. shown = result /\ ~c.misread
          BY <2>14, <4>3
        <5>2. OrDefault(trace_state, p) = c.stack
          BY <2>14, <3>2, <4>1, <4>3, <5>1
        <5> QED
          BY <2>14, <4>2, <5>1, <5>2
      <4> QED
        BY <3>1, <3>3, <4>1, <4>3
    <3>5. CASE k # n - 1
      <4>1. k < n - 1 /\ fr[k] = frames[k]
        BY <2>15, <3>5
      <4>2. evm[k] # p
        <5>1. evm[k] < evm[n - 1]
          BY <2>1, <2>3, <3>1, <4>1 DEF StackInv, ChainInv
        <5> QED
          BY <2>3, <2>4, <2>5, <3>1, <5>1
      <4>3. OrDefault(ts, evm[k]) = OrDefault(trace_state, evm[k])
        BY <2>13, <3>2, <3>3, <4>2 DEF OrDefault
      <4> QED
        BY <3>1, <3>2, <3>3, <4>1, <4>3
    <3> QED
      BY <3>4, <3>5
  <2>18. DOMAIN ts \subseteq Entries'
    BY <2>2, <2>6, <2>13 DEF Entries
  <2>19. \A f \in DOMAIN fs : Bounded(f)'
    <3>1. \A f \in DOMAIN fs : Bounded(f)
      BY <2>6, <2>13
    <3> QED
      BY <1>1, <3>1, BoundedInEnd
  <2>20. MemoryKept(fs, Last(opcode_frames)', Last(fr).memory)
    BY <2>16 DEF MemoryKept
  <2> QED
    BY <2>2, <2>12, <2>15, <2>17, <2>18, <2>19, <2>20, KeptNext
<1> QED
  BY <1>2, <1>3

LEMMA KeptSame ==
  ASSUME KeptInv, UNCHANGED <<evm, trace, opcode_frames, frames, frame_states, trace_state>>,
         phase' = phase \/ phase' # "executing"
  PROVE  KeptInv'
<1>1. CASE phase' # "executing"
  BY <1>1 DEF KeptInv
<1>2. CASE phase' = "executing"
  <2>1. phase = "executing"
    BY <1>2
  <2>2. PICK fr, ts, fs : fr = frames /\ ts = trace_state /\ fs = frame_states
    OBVIOUS
  <2>3. /\ fr \in Seq(FrameRecords) /\ Len(fr) = Len(evm) /\ DOMAIN ts \subseteq Entries
        /\ \A f \in DOMAIN fs : Bounded(f)
        /\ evm # <<>> /\ trace[Last(evm)].kind = "plain" =>
              MemoryKept(fs, Last(opcode_frames), Last(fr).memory)
        /\ StacksKept(trace, evm, fr, ts)
    BY <2>1, <2>2 DEF KeptInv
  <2>4. Entries' = Entries /\ Last(evm)' = Last(evm) /\ Last(opcode_frames)' = Last(opcode_frames)
    BY DEF Entries, Last
  <2>5. \A f \in DOMAIN fs : Bounded(f)'
    BY <2>3, BoundedSame
  <2> QED
    BY <2>2, <2>3, <2>4, <2>5, KeptNext
<1> QED
  BY <1>1, <1>2

LEMMA KeptStep ==
  RecordingInv /\ DataInv /\ KeptInv /\ [ContentsNext]_contentVars => KeptInv'
<1> SUFFICES ASSUME RecordingInv, DataInv, KeptInv, [ContentsNext]_contentVars PROVE KeptInv'
  OBVIOUS
<1>1. StackInv /\ RecordInv
  BY DEF RecordingInv
<1>2. ASSUME NEW op \in Opcodes, StepOf(op) PROVE KeptInv'
  BY <1>1, <1>2, StepKept
<1>3. ASSUME NEW op, FailingStepOf(op) PROVE KeptInv'
  BY <1>1, <1>3, FailingStepKept
<1>4. ASSUME NEW op, Panic(op) PROVE KeptInv'
  BY <1>4 DEF Panic, KeptInv
<1>5. ASSUME NEW op, UnrecordedWrite(op) PROVE KeptInv'
  BY <1>5, KeptSame DEF UnrecordedWrite, vars, inspectorVars
<1>6. CASE HookStepOf
  BY <1>6, KeptSame DEF HookStepOf, HookStep, keptVars
<1>7. ASSUME NEW kind \in Kinds, NEW create \in BOOLEAN, CallOf(kind, create) PROVE KeptInv'
  <2>1. state \in Machine
    BY <1>7 DEF CallOf, Call, DataInv
  <2> QED
    BY <1>1, <1>7, <2>1, CallKept
<1>8. ASSUME NEW success \in BOOLEAN, NEW named \in BOOLEAN, CallEndOf(success, named) PROVE KeptInv'
  BY <1>1, <1>8, EndKept
<1>9. CASE (Merge \/ Analyze) /\ UNCHANGED <<state, frames, keptVars>>
  BY <1>9 DEF Merge, Analyze, KeptInv
<1>10. CASE UNCHANGED contentVars
  BY <1>10, KeptSame DEF contentVars, vars, inspectorVars, keptVars
<1> QED
  BY <1>2, <1>3, <1>4, <1>5, <1>6, <1>7, <1>8, <1>9, <1>10 DEF ContentsNext

(* The database and the transient storage are kept in step with the machine's:
   by the opcodes that write them, and around calls. *)
LEMMA DataStep ==
  RecordingInv /\ DataInv /\ KeptInv /\ [ContentsNext]_contentVars => DataInv'
<1> SUFFICES ASSUME RecordingInv, DataInv, KeptInv, [ContentsNext]_contentVars PROVE DataInv'
  OBVIOUS
<1>1. StackInv /\ RecordInv /\ taken \in Nat
  BY DEF RecordingInv, RecordInv
<1>2. phase = "executing" => state \in Machine /\ database = state /\ hook_database = state
  BY DEF DataInv
<1>3. ASSUME NEW op \in Opcodes, StepOf(op) PROVE DataInv'
  <2>1. phase = "executing" /\ op # "call"
    BY <1>3 DEF StepOf, PlainStep, Recorded, Running, Opcodes
  <2>2. PICK w : w = Written(op)
    OBVIOUS
  <2>3. w \in Machine /\ UpdatedByOpcode(state, op, w) = w
    BY <1>1, <1>2, <2>1, <2>2, WrittenFacts
  <2>4. state' = w
    BY <1>3, <2>2 DEF StepOf
  <2>5. database' = UpdatedByOpcode(database, op, w) /\ hook_database' = UpdatedByOpcode(hook_database, op, w)
    BY <1>3, <2>4 DEF StepOf, UpdatedByOpcode
  <2> QED
    BY <1>2, <2>1, <2>3, <2>4, <2>5 DEF DataInv
<1>4. ASSUME NEW op, FailingStepOf(op) PROVE DataInv'
  <2>1. phase = "executing"
    BY <1>4 DEF FailingStepOf, PlainStep, Recorded, Running
  <2>2. UpdatedByOpcode(state, op, state) = state
    BY <1>1, <1>2, <2>1, WrittenFacts
  <2> QED
    BY <1>2, <1>4, <2>1, <2>2 DEF FailingStepOf, DataInv
<1>5. ASSUME NEW op, Panic(op) PROVE DataInv'
  BY <1>5 DEF Panic, DataInv
<1>6. ASSUME NEW op \in {"sstore", "tstore"}, UnrecordedWrite(op) PROVE DataInv'
  <2>1. phase = "executing" /\ op # "call"
    BY <1>6 DEF UnrecordedWrite, Running
  <2>2. PICK w : w = Written(op)
    OBVIOUS
  <2>3. w \in Machine /\ UpdatedByOpcode(state, op, w) = w
    BY <1>1, <1>2, <2>1, <2>2, WrittenFacts
  <2>4. state' = w
    BY <1>6, <2>2 DEF UnrecordedWrite
  <2>5. database' = UpdatedByOpcode(database, op, w) /\ hook_database' = UpdatedByOpcode(hook_database, op, w)
    BY <1>6, <2>4 DEF UnrecordedWrite, UpdatedByOpcode
  <2> QED
    BY <1>2, <2>1, <2>3, <2>4, <2>5 DEF DataInv
<1>7. CASE HookStepOf
  BY <1>2, <1>7 DEF HookStepOf, HookStep, Running, keptVars, DataInv
<1>8. ASSUME NEW kind, NEW create, CallOf(kind, create) PROVE DataInv'
  BY <1>2, <1>8 DEF CallOf, Call, UpdatedByForce, DataInv
<1>9. ASSUME NEW success \in BOOLEAN, NEW named \in BOOLEAN, CallEndOf(success, named) PROVE DataInv'
  <2>1. phase = "executing" /\ evm # <<>>
    BY <1>9 DEF CallEndOf, CallEnd
  <2>2. Blank \in Machine
    BY DEF Blank, Machine
  <2>3. Top.before \in Machine
    <3>1. PICK n \in Nat \ {0} : n = Len(evm)
      BY <1>1, <2>1, TopFacts
    <3>2. frames \in Seq(FrameRecords) /\ Len(frames) = n
      BY <2>1, <3>1 DEF KeptInv
    <3>3. Last(frames) \in FrameRecords
      BY <3>1, <3>2, LastFacts
    <3> QED
      BY <3>3 DEF Top, FrameRecords
  <2>4. state' = IF phase' = "executed" THEN Blank ELSE IF success THEN state ELSE Top.before
    BY <1>9 DEF CallEndOf
  <2>5. CASE phase' = "executed"
    BY <1>9, <2>2, <2>4, <2>5 DEF CallEndOf, Forgotten, DataInv
  <2>6. CASE phase' # "executed"
    <3>1. database' = state' /\ hook_database' = state'
      BY <1>9, <2>6 DEF CallEndOf, UpdatedByForce
    <3> QED
      BY <1>2, <2>1, <2>3, <2>4, <2>6, <3>1 DEF DataInv
  <2> QED
    BY <2>5, <2>6
<1>10. CASE (Merge \/ Analyze) /\ UNCHANGED <<state, frames, keptVars>>
  BY <1>10 DEF Merge, Analyze, keptVars, DataInv
<1>11. CASE UNCHANGED contentVars
  BY <1>11 DEF contentVars, vars, keptVars, DataInv
<1> QED
  BY <1>3, <1>4, <1>5, <1>6, <1>7, <1>8, <1>9, <1>10, <1>11 DEF ContentsNext

LEMMA ContentsInits == ContentsInit => RecordingInv /\ DataInv /\ KeptInv
<1> SUFFICES ASSUME ContentsInit PROVE RecordingInv /\ DataInv /\ KeptInv
  OBVIOUS
<1>1. Init /\ evm = <<>> /\ frames = <<>>
  BY DEF ContentsInit, Init
<1>2. RecordingInv
  BY <1>1, StackInit, RecordInit, MergedInit, LinkInit DEF RecordingInv
<1>3. DataInv
  BY DEF ContentsInit, DataInv, Blank, Machine
<1>4. KeptInv
  <2>1. DOMAIN frame_states = {} /\ DOMAIN trace_state = {}
    BY DEF ContentsInit
  <2>2. frames \in Seq(FrameRecords) /\ Len(frames) = Len(evm) /\ 1..Len(evm) = {}
    BY <1>1
  <2> QED
    BY <1>1, <2>1, <2>2 DEF KeptInv, StacksKept
<1> QED
  BY <1>2, <1>3, <1>4

LEMMA ContentsInv == ContentsSpec => [](RecordingInv /\ DataInv /\ KeptInv)
<1>1. RecordingInv /\ DataInv /\ KeptInv /\ [ContentsNext]_contentVars
        => (RecordingInv /\ DataInv /\ KeptInv)'
  BY ContentsRecords, RecordingStep, DataStep, KeptStep
<1> QED
  BY <1>1, ContentsInits, PTL DEF ContentsSpec

(* A snapshot shows the machine as it is when it is taken
   (opcode_snapshot_inspector.rs:257-348, 424-431). *)
THEOREM SpecSnapshotsHoldTheState == ContentsSpec => []SnapshotsHoldTheState
<1>1. RecordingInv /\ DataInv /\ KeptInv => SnapshotsHoldTheState
  <2> SUFFICES ASSUME RecordingInv, DataInv, KeptInv PROVE SnapshotsHoldTheState
    OBVIOUS
  <2>1. Running => hook_database = state /\ database = state
    BY DEF Running, DataInv
  <2>2. Recorded /\ GoesOn => KeptMemory = Top.memory /\ (KeptStack = Top.stack \/ Top.misread)
    BY KeptFacts DEF RecordingInv
  <2> QED
    BY <2>1, <2>2 DEF SnapshotsHoldTheState, Recorded
<1> QED
  BY <1>1, ContentsInv, PTL
=============================================================================
