------------------------- MODULE PreparationProofs -------------------------
(***************************************************************************)
(* What the engine shows, for every chain and every entry.                 *)
(*                                                                         *)
(* First, for any number of snapshots, functions and calls: the source     *)
(* analysis forgets no snapshot, and its steps nest.  The argument is that *)
(* the open callsites, read up the stack, are in the order they were made. *)
(* A call that ends is then the latest one open, so all that was visited   *)
(* since is linked already, and nothing linked before jumped over it.      *)
(*                                                                         *)
(* Then, for chains of any length and any range in which arguments are     *)
(* looked for: the run that is shown runs the code the transaction ran on  *)
(* the chain, instrumented.  The argument is that addresses are never      *)
(* reused, so that an address says which transaction created its code and  *)
(* what with; that a fork which has replayed its block is the state the    *)
(* chain had; and that what extract_constructor_args finds, where it finds *)
(* as much as the constructor needs, are the arguments.                    *)
(***************************************************************************)
EXTENDS MCPreparation, FiniteSetTheorems, SequenceTheorems, WellFoundedInduction, TLAPS

(* Only the bottom has no callsite, and the callsites above it rise. *)
Shaped(s) ==
  /\ s \in Seq(StackEntries)
  /\ \A k \in 1..Len(s) : s[k].callsite = None <=> k = 1
  /\ \A k, l \in 2..Len(s) : k < l => s[k].callsite.id < s[l].callsite.id

OpenIn(s) == {s[k].callsite.id : k \in 2..Len(s)}

Reach == IF phase = "returning" THEN i + 1 ELSE i

IInv ==
  /\ TypeOK
  /\ Shaped(stack)
  /\ phase # "done" => i < LastStep
  /\ phase = "returning" => stack # <<>> /\ next_id[i] = i + 1
  /\ \A j \in OpenIn(stack) : j < i /\ next_id[j] = None
  /\ \A j \in 1..(i - 1) : next_id[j] = None => j \in OpenIn(stack)
  /\ phase = "done" => OpenIn(stack) \subseteq holes
  /\ \A j \in 1..LastStep : next_id[j] # None => j < next_id[j] /\ next_id[j] <= Reach
  /\ StepsNest
-----------------------------------------------------------------------------
LEMMA EntryType ==
  ASSUME NEW s, Shaped(s), NEW k \in 1..Len(s)
  PROVE  /\ s[k] \in StackEntries
         /\ k # 1 => s[k].callsite \in Callsites /\ s[k].callsite.id \in 1..LastStep
<1>1. s[k] \in StackEntries
  BY DEF Shaped
<1>2. ASSUME k # 1 PROVE s[k].callsite \in Callsites
  BY <1>1, <1>2 DEF Shaped, StackEntries
<1> QED BY <1>1, <1>2 DEF Callsites

LEMMA OpenInRange ==
  ASSUME NEW s, Shaped(s)
  PROVE  \A j \in OpenIn(s) : j \in 1..LastStep
<1> SUFFICES ASSUME NEW k \in 2..Len(s) PROVE s[k].callsite.id \in 1..LastStep
  BY DEF OpenIn
<1>1. k \in 1..Len(s) /\ k # 1
  BY DEF Shaped
<1> QED BY <1>1, EntryType

(* Step 1 of the outer loop leaves the callsites alone. *)
LEMMA EnteredType ==
  ASSUME NEW info \in Infos, NEW s \in Steps
  PROVE  Entered(info, s) \in Infos
<1>1. /\ info.function \in SUBSET Function /\ info.modifiers \in SUBSET Modifier
      /\ s.ufid \in Function \/ s.ufid \in Modifier
  BY DEF Infos, Steps, Ufid
<1>3. CASE s.ufid \in Modifier
  BY <1>1, <1>3 DEF Entered, Infos
<1>4. CASE s.ufid \in Function
  BY <1>1, <1>4, UfidAssumption DEF Entered, Infos, Invalid
<1> QED
  BY <1>1, <1>3, <1>4

LEMMA CurrentShape ==
  ASSUME TypeOK, Shaped(stack)
  PROVE  Shaped(Current) /\ Len(Current) >= 1 /\ OpenIn(Current) = OpenIn(stack)
<1>1. Bottom \in StackEntries
  BY DEF Bottom, StackEntries, Unknown, Infos
<1> DEFINE open == IF stack = <<>> THEN <<Bottom>> ELSE stack
<1>2. Shaped(open) /\ Len(open) >= 1 /\ OpenIn(open) = OpenIn(stack)
  <2>1. CASE stack = <<>>
    <3>1. open = <<Bottom>> /\ Len(open) = 1 /\ open[1] = Bottom /\ open \in Seq(StackEntries)
      BY <1>1, <2>1
    <3>2. Shaped(open)
      BY <3>1 DEF Shaped, Bottom
    <3>3. OpenIn(open) = {} /\ OpenIn(stack) = {}
      BY <2>1, <3>1 DEF OpenIn
    <3> QED
      BY <3>1, <3>2, <3>3
  <2>2. CASE stack # <<>>
    BY <2>2 DEF Shaped
  <2> QED
    BY <2>1, <2>2
<1> DEFINE n == Len(open)
           top == [open[n] EXCEPT !.info = Entered(open[n].info, step)]
<1>3. Current = [open EXCEPT ![n] = top]
  <2>1. Current = [open EXCEPT ![n].info = Entered(@, step)]
    BY Zenon DEF Current
  <2> HIDE DEF open
  <2> QED
    BY <2>1
<1>4. n \in 1..Len(open) /\ open \in Seq(StackEntries) /\ open[n] \in StackEntries
  BY <1>2, EntryType DEF Shaped
<1>5. top \in StackEntries /\ top.callsite = open[n].callsite
  <2>1. Entered(open[n].info, step) \in Infos
    BY <1>4, EnteredType DEF TypeOK, StackEntries
  <2> QED BY <2>1, <1>4 DEF StackEntries
<1> HIDE DEF open, n, top
<1>6. Current \in Seq(StackEntries) /\ Len(Current) = Len(open)
  BY <1>3, <1>4, <1>5
<1>7. \A k \in 1..Len(open) : Current[k].callsite = open[k].callsite
  BY <1>3, <1>4, <1>5
<1>8. Shaped(Current)
  <2>1. \A k \in 1..Len(Current) : Current[k].callsite = None <=> k = 1
    BY <1>2, <1>6, <1>7 DEF Shaped
  <2>2. \A k, l \in 2..Len(Current) : k < l => Current[k].callsite.id < Current[l].callsite.id
    BY <1>2, <1>6, <1>7 DEF Shaped
  <2> QED BY <1>6, <2>1, <2>2 DEF Shaped
<1>9. OpenIn(Current) = OpenIn(open)
  <2>1. \A k \in 2..Len(open) : Current[k].callsite.id = open[k].callsite.id
    BY <1>4, <1>7
  <2> QED BY <1>6, <2>1 DEF OpenIn
<1> QED BY <1>2, <1>6, <1>8, <1>9

LEMMA PushShape ==
  ASSUME NEW s, Shaped(s), Len(s) >= 1, NEW e \in StackEntries, e.callsite \in Callsites,
         \A j \in OpenIn(s) : j < e.callsite.id
  PROVE  Shaped(Append(s, e)) /\ OpenIn(Append(s, e)) = OpenIn(s) \union {e.callsite.id}
<1> DEFINE t == Append(s, e)
<1>1. /\ s \in Seq(StackEntries) /\ t \in Seq(StackEntries)
      /\ Len(t) = Len(s) + 1 /\ t[Len(s) + 1] = e
      /\ \A k \in 1..Len(s) : t[k] = s[k]
  BY DEF Shaped
<1>2. e.callsite # None
  BY NoCallsiteAssumption
<1>3. \A k \in 1..Len(t) : t[k].callsite = None <=> k = 1
  BY <1>1, <1>2 DEF Shaped
<1>4. \A k \in 2..Len(s) : s[k].callsite.id < e.callsite.id
  BY DEF OpenIn
<1> HIDE DEF t
<1>5. \A k, l \in 2..Len(t) : k < l => t[k].callsite.id < t[l].callsite.id
  <2> SUFFICES ASSUME NEW k \in 2..Len(t), NEW l \in 2..Len(t), k < l
               PROVE  t[k].callsite.id < t[l].callsite.id
    OBVIOUS
  <2>1. k \in 2..Len(s) /\ t[k] = s[k]
    BY <1>1
  <2>2. CASE l = Len(s) + 1
    BY <2>1, <2>2, <1>1, <1>4
  <2>3. CASE l # Len(s) + 1
    BY <2>1, <2>3, <1>1 DEF Shaped
  <2> QED BY <2>2, <2>3
<1>6. OpenIn(t) = OpenIn(s) \union {e.callsite.id}
  <2>1. 2..Len(t) = (2..Len(s)) \union {Len(s) + 1}
    BY <1>1
  <2>2. \A k \in 2..Len(s) : t[k] = s[k]
    BY <1>1
  <2> QED BY <2>1, <2>2, <1>1 DEF OpenIn
<1> QED BY <1>1, <1>3, <1>5, <1>6 DEF Shaped, t

LEMMA PopShape ==
  ASSUME NEW s, Shaped(s), Len(s) >= 2
  PROVE  LET t == SubSeq(s, 1, Len(s) - 1)  id == s[Len(s)].callsite.id
         IN  /\ Shaped(t) /\ Len(t) = Len(s) - 1
             /\ OpenIn(s) = OpenIn(t) \union {id}
             /\ \A j \in OpenIn(t) : j < id
<1> DEFINE t == SubSeq(s, 1, Len(s) - 1)
           id == s[Len(s)].callsite.id
<1>1. /\ s \in Seq(StackEntries) /\ t \in Seq(StackEntries)
      /\ Len(t) = Len(s) - 1
      /\ \A k \in 1..(Len(s) - 1) : t[k] = s[k]
  BY DEF Shaped
<1>2. \A j \in 2..(Len(s) - 1) : s[j].callsite.id < id
  BY <1>1 DEF Shaped
<1> HIDE DEF t, id
<1>3. Shaped(t)
  BY <1>1 DEF Shaped
<1>4. OpenIn(t) = {s[k].callsite.id : k \in 2..(Len(s) - 1)}
  BY <1>1 DEF OpenIn
<1>5. OpenIn(s) = OpenIn(t) \union {id}
  <2>1. 2..Len(s) = (2..(Len(s) - 1)) \union {Len(s)}
    BY <1>1
  <2> QED BY <2>1, <1>4 DEF OpenIn, id
<1>6. \A j \in OpenIn(t) : j < id
  BY <1>2, <1>4
<1> QED BY <1>1, <1>3, <1>5, <1>6 DEF t, id

LEMMA PopBottomShape ==
  ASSUME NEW s, Shaped(s), s # <<>>, s[Len(s)].callsite = None
  PROVE  SubSeq(s, 1, Len(s) - 1) = <<>> /\ OpenIn(s) = {}
<1>1. Len(s) = 1
  <2>1. s \in Seq(StackEntries) /\ Len(s) \in Nat /\ Len(s) # 0
    BY DEF Shaped
  <2>2. Len(s) \in 1..Len(s)
    BY <2>1
  <2> QED BY <2>1, <2>2 DEF Shaped
<1>2. SubSeq(s, 1, Len(s) - 1) = <<>>
  <2> DEFINE t == SubSeq(s, 1, 0)
  <2>1. t \in Seq(StackEntries) /\ Len(t) = 0
    BY DEF Shaped
  <2> HIDE DEF t
  <2>2. t = <<>>
    BY <2>1
  <2> QED BY <1>1, <2>2 DEF t
<1>3. 2..Len(s) = {}
  BY <1>1
<1> QED BY <1>2, <1>3 DEF OpenIn

LEMMA EmptyShape == Shaped(<<>>) /\ OpenIn(<<>>) = {}
  BY DEF Shaped, OpenIn
-----------------------------------------------------------------------------
(* Linking the latest open callsite to the snapshot at hand keeps the links
   nested: all between the two is linked. *)
LEMMA LinkNests ==
  ASSUME TypeOK, StepsNest, i < LastStep,
         NEW c \in 1..i, next_id[c] = None, next_id' = [next_id EXCEPT ![c] = i + 1],
         \A b \in (c + 1)..i : next_id[b] # None /\ next_id[b] <= i + 1
  PROVE  StepsNest'
<1>1. /\ next_id \in [1..LastStep -> (1..LastStep) \union {None}]
      /\ i \in 1..LastStep
  BY DEF TypeOK
<1> SUFFICES ASSUME NEW a \in 1..LastStep, next_id'[a] # None,
                    NEW b \in (a + 1)..(next_id'[a] - 1)
             PROVE  next_id'[b] # None /\ next_id'[b] <= next_id'[a]
  BY DEF StepsNest
<1>2. CASE a = c
  <2>1. next_id'[a] = i + 1 /\ b \in (c + 1)..i
    BY <1>1, <1>2
  <2>2. next_id'[b] = next_id[b]
    BY <1>1, <2>1
  <2> QED BY <2>1, <2>2
<1>3. CASE a # c
  <2>1. next_id'[a] = next_id[a]
    BY <1>1, <1>3
  <2>2. next_id[b] # None /\ next_id[b] <= next_id[a]
    BY <2>1 DEF StepsNest
  <2>3. next_id[a] \in 1..LastStep /\ b \in 1..LastStep
    BY <1>1, <2>1, BoundsAssumption
  <2> QED BY <1>1, <2>1, <2>2, <2>3
<1> QED BY <1>2, <1>3

(* What an action that goes on with the outer loop has to show. *)
LEMMA GoOnPreserves ==
  ASSUME IInv, i < LastStep, NEW s \in Steps, NEW open, GoOn(s, open),
         Shaped(open),
         \A j \in OpenIn(open) : j <= i /\ next_id'[j] = None,
         \A j \in 1..i : next_id'[j] = None => j \in OpenIn(open),
         next_id' \in [1..LastStep -> (1..LastStep) \union {None}],
         \A j \in 1..LastStep : next_id'[j] # None => j < next_id'[j] /\ next_id'[j] <= i + 1,
         StepsNest'
  PROVE  IInv'
<1>1. i \in 1..LastStep /\ i' = i + 1 /\ i' \in 1..LastStep
  BY BoundsAssumption DEF GoOn, IInv, TypeOK
<1>2. stack' = open /\ Shaped(stack)'
  BY DEF GoOn, Shaped, StackEntries, Callsites, Infos
<1>3. OpenIn(stack)' = OpenIn(open)
  BY <1>2 DEF OpenIn
<1>4. \A j \in OpenIn(open) : j \in 1..LastStep
  BY OpenInRange
<1>5. HolesOf(open) = OpenIn(open)
  <2>1. \A k \in 1..Len(open) : (\A n \in k..Len(open) : open[n].callsite # None) <=> k # 1
    BY DEF Shaped
  <2>2. Len(open) \in Nat
    BY DEF Shaped
  <2> DEFINE above == {k \in 1..Len(open) : \A n \in k..Len(open) : open[n].callsite # None}
  <2>3. above = 2..Len(open)
    BY <2>1, <2>2
  <2> QED BY <2>3 DEF HolesOf, OpenIn
<1>6. /\ phase' \in {"visiting", "done"} /\ holes' \subseteq 1..LastStep
      /\ phase' = "done" => OpenIn(open) \subseteq holes'
      /\ phase' # "done" => i' < LastStep
  <2>1. CASE i + 1 = LastStep
    BY <1>1, <1>4, <1>5, <2>1 DEF GoOn
  <2>2. CASE i + 1 # LastStep
    <3>1. phase' = "visiting" /\ holes' = holes /\ holes \subseteq 1..LastStep
      BY <2>2 DEF GoOn, IInv, TypeOK
    <3>2. i' < LastStep
      BY <1>1, <2>2, BoundsAssumption
    <3> QED BY <3>1, <3>2
  <2> QED BY <2>1, <2>2
<1>7. TypeOK'
  BY <1>1, <1>2, <1>6 DEF TypeOK, Shaped, GoOn
<1>8. Reach' = i + 1
  BY <1>1, <1>6 DEF Reach
<1>9. \A j \in OpenIn(open) : j < i' /\ next_id'[j] = None
  BY <1>1, <1>4
<1>10. \A j \in 1..(i' - 1) : next_id'[j] = None => j \in OpenIn(open)
  BY <1>1
<1> QED BY <1>2, <1>3, <1>6, <1>7, <1>8, <1>9, <1>10 DEF IInv
-----------------------------------------------------------------------------
LEMMA InitIInv == Init => IInv
<1> SUFFICES ASSUME Init PROVE IInv
  OBVIOUS
<1>1. Bottom \in StackEntries /\ Bottom.callsite = None
  BY DEF Bottom, StackEntries, Unknown, Infos
<1>2. Shaped(stack) /\ OpenIn(stack) = {}
  BY <1>1 DEF Init, Shaped, OpenIn
<1>3. TypeOK
  BY <1>1, BoundsAssumption DEF Init, TypeOK
<1>4. StepsNest
  BY DEF Init, StepsNest
<1> QED BY <1>2, <1>3, <1>4, BoundsAssumption DEF Init, IInv

(* What a turn of the outer loop starts from. *)
LEMMA VisitingFacts ==
  ASSUME IInv, phase = "visiting"
  PROVE  /\ i < LastStep /\ i \in 1..LastStep /\ next_id[i] = None
         /\ next_id \in [1..LastStep -> (1..LastStep) \union {None}]
         /\ \A j \in 1..LastStep : next_id[j] # None => j < next_id[j] /\ next_id[j] <= i
         /\ Shaped(Current) /\ Len(Current) >= 1 /\ OpenIn(Current) = OpenIn(stack)
         /\ \A j \in OpenIn(stack) : j < i /\ next_id[j] = None
         /\ \A j \in 1..(i - 1) : next_id[j] = None => j \in OpenIn(stack)
<1>1. Reach = i
  BY DEF Reach
<1>2. Shaped(Current) /\ Len(Current) >= 1 /\ OpenIn(Current) = OpenIn(stack)
  BY CurrentShape DEF IInv
<1>3. i \in 1..LastStep /\ next_id \in [1..LastStep -> (1..LastStep) \union {None}]
  BY DEF IInv, TypeOK
<1>4. \A j \in 1..LastStep : next_id[j] # None => j < next_id[j] /\ next_id[j] <= i
  BY <1>1 DEF IInv
<1>5. next_id[i] = None
  BY <1>3, <1>4
<1> QED BY <1>2, <1>3, <1>4, <1>5 DEF IInv

LEMMA VisitCallIInv ==
  ASSUME IInv, NEW s \in Steps, NEW r \in 0..MaxCalls, VisitCall(s, r)
  PROVE  IInv'
<1> DEFINE c == Callees(s, r)
           e == [info |-> Unknown, callsite |-> [id |-> i, callees |-> c],
                 return_after |-> step.returns]
<1>1. /\ phase = "visiting" /\ GoOn(s, Append(Current, e)) /\ next_id' = next_id
  BY DEF VisitCall, Push
<1>2. /\ i < LastStep /\ i \in 1..LastStep /\ next_id[i] = None
      /\ next_id \in [1..LastStep -> (1..LastStep) \union {None}]
      /\ \A j \in 1..LastStep : next_id[j] # None => j < next_id[j] /\ next_id[j] <= i
      /\ Shaped(Current) /\ Len(Current) >= 1 /\ OpenIn(Current) = OpenIn(stack)
      /\ \A j \in OpenIn(stack) : j < i /\ next_id[j] = None
      /\ \A j \in 1..(i - 1) : next_id[j] = None => j \in OpenIn(stack)
  BY <1>1, VisitingFacts
<1>3. c \in Nat \union {Many}
  <2>1. step.calls \in Nat /\ r \in Nat
    BY BoundsAssumption DEF IInv, TypeOK, Steps
  <2> QED BY <2>1 DEF Callees
<1>4. e \in StackEntries /\ e.callsite \in Callsites /\ e.callsite.id = i
  <2>1. step.returns \in BOOLEAN
    BY DEF IInv, TypeOK, Steps
  <2>2. Unknown \in Infos
    BY DEF Unknown, Infos
  <2> HIDE DEF c
  <2> QED BY <1>2, <1>3, <2>1, <2>2 DEF StackEntries, Callsites
<1> DEFINE open == Append(Current, e)
<1>5. Shaped(open) /\ OpenIn(open) = OpenIn(stack) \union {i}
  <2> HIDE DEF e
  <2> QED BY <1>2, <1>4, PushShape
<1> HIDE DEF open, e, c
<1>6. \A j \in OpenIn(open) : j <= i /\ next_id'[j] = None
  <2>1. \A j \in OpenIn(open) : j \in 1..LastStep
    BY <1>5, OpenInRange
  <2> QED BY <1>1, <1>2, <1>5, <2>1
<1>7. \A j \in 1..i : next_id'[j] = None => j \in OpenIn(open)
  BY <1>1, <1>2, <1>5
<1>8. \A j \in 1..LastStep : next_id'[j] # None => j < next_id'[j] /\ next_id'[j] <= i + 1
  BY <1>1, <1>2
<1>9. StepsNest'
  BY <1>1 DEF IInv, StepsNest
<1>10. GoOn(s, open)
  BY <1>1 DEF open
<1> QED BY <1>1, <1>2, <1>5, <1>6, <1>7, <1>8, <1>9, <1>10, GoOnPreserves

(* Steps 3 and 4: a step that makes no call is linked to the one after it. *)
LEMMA StepOverIInv ==
  ASSUME IInv, phase = "visiting", next_id' = [next_id EXCEPT ![i] = i + 1]
  PROVE  /\ StepsNest'
         /\ next_id' \in [1..LastStep -> (1..LastStep) \union {None}]
         /\ next_id'[i] = i + 1
         /\ \A j \in OpenIn(stack) : j < i /\ next_id'[j] = None
         /\ \A j \in 1..i : next_id'[j] = None => j \in OpenIn(stack)
         /\ \A j \in 1..LastStep : next_id'[j] # None => j < next_id'[j] /\ next_id'[j] <= i + 1
<1>1. /\ i < LastStep /\ i \in 1..LastStep /\ next_id[i] = None
      /\ next_id \in [1..LastStep -> (1..LastStep) \union {None}]
      /\ \A j \in 1..LastStep : next_id[j] # None => j < next_id[j] /\ next_id[j] <= i
      /\ \A j \in OpenIn(stack) : j < i /\ next_id[j] = None
      /\ \A j \in 1..(i - 1) : next_id[j] = None => j \in OpenIn(stack)
  BY VisitingFacts
<1>2. i \in 1..i /\ i + 1 \in 1..LastStep
  BY <1>1, BoundsAssumption
<1>3. StepsNest'
  <2>1. \A b \in (i + 1)..i : next_id[b] # None /\ next_id[b] <= i + 1
    BY <1>1
  <2> QED BY <1>1, <1>2, <2>1, LinkNests DEF IInv
<1>4. next_id' \in [1..LastStep -> (1..LastStep) \union {None}] /\ next_id'[i] = i + 1
  BY <1>1, <1>2
<1>5. i + 1 # None
  BY <1>1, NoneAssumption
<1>6. \A j \in OpenIn(stack) : j < i /\ next_id'[j] = None
  <2>1. \A j \in OpenIn(stack) : j \in 1..LastStep
    BY OpenInRange DEF IInv
  <2> QED BY <1>1, <2>1
<1>7. \A j \in 1..i : next_id'[j] = None => j \in OpenIn(stack)
  <2> SUFFICES ASSUME NEW j \in 1..i, next_id'[j] = None PROVE j \in OpenIn(stack)
    OBVIOUS
  <2>1. j # i
    BY <1>4, <1>5
  <2>2. j \in 1..(i - 1) /\ j \in 1..LastStep
    BY <2>1, <1>1, BoundsAssumption
  <2>3. next_id[j] = None
    BY <1>1, <2>1, <2>2
  <2> QED BY <1>1, <2>2, <2>3
<1>8. \A j \in 1..LastStep : next_id'[j] # None => j < next_id'[j] /\ next_id'[j] <= i + 1
  BY <1>1
<1> QED BY <1>3, <1>4, <1>6, <1>7, <1>8

LEMMA VisitStayIInv ==
  ASSUME IInv, NEW s \in Steps, NEW r \in 0..MaxCalls, VisitStay(s, r)
  PROVE  IInv'
<1>1. /\ phase = "visiting" /\ GoOn(s, Current)
      /\ next_id' = [next_id EXCEPT ![i] = i + 1]
  BY DEF VisitStay
<1>2. Shaped(Current) /\ OpenIn(Current) = OpenIn(stack) /\ i < LastStep /\ i \in 1..LastStep
  BY <1>1, VisitingFacts
<1>3. /\ StepsNest'
      /\ next_id' \in [1..LastStep -> (1..LastStep) \union {None}]
      /\ \A j \in OpenIn(Current) : j < i /\ next_id'[j] = None
      /\ \A j \in 1..i : next_id'[j] = None => j \in OpenIn(Current)
      /\ \A j \in 1..LastStep : next_id'[j] # None => j < next_id'[j] /\ next_id'[j] <= i + 1
  BY <1>1, <1>2, StepOverIInv
<1>4. \A j \in OpenIn(Current) : j <= i
  <2>1. \A j \in OpenIn(Current) : j \in 1..LastStep
    BY <1>2, OpenInRange
  <2> QED BY <1>2, <1>3, <2>1
<1> QED BY <1>1, <1>2, <1>3, <1>4, GoOnPreserves

LEMMA VisitReturnIInv ==
  ASSUME IInv, NEW s \in Steps, NEW r \in 0..MaxCalls, VisitReturn(s, r)
  PROVE  IInv'
<1>1. /\ phase = "visiting" /\ phase' = "returning" /\ stack' = Current /\ next' = s
      /\ next_id' = [next_id EXCEPT ![i] = i + 1] /\ UNCHANGED <<i, step, holes>>
  BY DEF VisitReturn
<1>2. /\ Shaped(Current) /\ Len(Current) >= 1 /\ OpenIn(Current) = OpenIn(stack)
      /\ i < LastStep /\ i \in 1..LastStep
  BY <1>1, VisitingFacts
<1>3. /\ StepsNest'
      /\ next_id' \in [1..LastStep -> (1..LastStep) \union {None}]
      /\ next_id'[i] = i + 1
      /\ \A j \in OpenIn(stack) : j < i /\ next_id'[j] = None
      /\ \A j \in 1..i : next_id'[j] = None => j \in OpenIn(stack)
      /\ \A j \in 1..LastStep : next_id'[j] # None => j < next_id'[j] /\ next_id'[j] <= i + 1
  BY <1>1, StepOverIInv
<1>4. Shaped(stack)' /\ OpenIn(stack)' = OpenIn(stack) /\ stack' # <<>>
  <2>1. Shaped(stack)' /\ OpenIn(stack)' = OpenIn(Current)
    BY <1>1, <1>2 DEF Shaped, StackEntries, Callsites, Infos, OpenIn
  <2>2. stack' # <<>>
    BY <1>1, <1>2
  <2> QED BY <1>2, <2>1, <2>2
<1>5. TypeOK'
  BY <1>1, <1>2, <1>3 DEF TypeOK, IInv, Shaped
<1>6. Reach' = i + 1
  BY <1>1 DEF Reach
<1>7. \A j \in 1..(i - 1) : next_id'[j] = None => j \in OpenIn(stack)
  BY <1>2, <1>3
<1> QED BY <1>1, <1>2, <1>3, <1>4, <1>5, <1>6, <1>7 DEF IInv

(* What a turn of the inner loop starts from. *)
LEMMA ReturningFacts ==
  ASSUME IInv, phase = "returning"
  PROVE  /\ i < LastStep /\ i \in 1..LastStep /\ next \in Steps
         /\ next_id \in [1..LastStep -> (1..LastStep) \union {None}]
         /\ \A j \in 1..LastStep : next_id[j] # None => j < next_id[j] /\ next_id[j] <= i + 1
         /\ Shaped(stack) /\ Len(stack) \in Nat /\ Len(stack) >= 1
         /\ \A j \in OpenIn(stack) : j \in 1..LastStep /\ j < i /\ next_id[j] = None
         /\ \A j \in 1..i : next_id[j] = None => j \in OpenIn(stack)
<1>1. Reach = i + 1
  BY DEF Reach
<1>2. i \in 1..LastStep /\ next_id \in [1..LastStep -> (1..LastStep) \union {None}] /\ next \in Steps
  BY DEF IInv, TypeOK
<1>3. Shaped(stack) /\ stack # <<>> /\ next_id[i] = i + 1
  BY DEF IInv
<1>4. Len(stack) \in Nat /\ Len(stack) >= 1
  <2>1. stack \in Seq(StackEntries)
    BY <1>3 DEF Shaped
  <2> QED BY <1>3, <2>1
<1>5. \A j \in OpenIn(stack) : j \in 1..LastStep /\ j < i /\ next_id[j] = None
  BY <1>3, OpenInRange DEF IInv
<1>6. \A j \in 1..i : next_id[j] = None => j \in OpenIn(stack)
  <2>1. i + 1 # None
    BY <1>2, NoneAssumption
  <2>2. \A j \in 1..i : j # i => j \in 1..(i - 1)
    BY <1>2
  <2> QED BY <1>3, <2>1, <2>2 DEF IInv
<1>7. \A j \in 1..LastStep : next_id[j] # None => j < next_id[j] /\ next_id[j] <= i + 1
  BY <1>1 DEF IInv
<1> QED BY <1>2, <1>3, <1>4, <1>5, <1>6, <1>7 DEF IInv

LEMMA ReturnFromTopIInv == ASSUME IInv, ReturnFromTop PROVE IInv'
<1>1. phase = "returning" /\ GoOn(next, Popped) /\ next_id' = next_id /\ Top.callsite = None
  BY DEF ReturnFromTop
<1>2. /\ i < LastStep /\ i \in 1..LastStep /\ next \in Steps
      /\ next_id \in [1..LastStep -> (1..LastStep) \union {None}]
      /\ \A j \in 1..LastStep : next_id[j] # None => j < next_id[j] /\ next_id[j] <= i + 1
      /\ Shaped(stack) /\ stack # <<>>
      /\ \A j \in 1..i : next_id[j] = None => j \in OpenIn(stack)
  BY <1>1, ReturningFacts DEF IInv
<1>3. Popped = <<>> /\ OpenIn(stack) = {}
  BY <1>1, <1>2, PopBottomShape DEF Popped, Top
<1>4. StepsNest'
  BY <1>1 DEF IInv, StepsNest
<1>5. Shaped(Popped) /\ OpenIn(Popped) = {}
  BY <1>3, EmptyShape
<1> QED BY <1>1, <1>2, <1>3, <1>4, <1>5, GoOnPreserves

(* The facts the two ways of returning to a callsite share. *)
LEMMA PoppedFacts ==
  ASSUME IInv, phase = "returning", Top.callsite # None
  PROVE  /\ Top \in StackEntries /\ Top.callsite \in Callsites
         /\ Top.callsite.id \in 1..LastStep /\ Top.callsite.id < i
         /\ next_id[Top.callsite.id] = None
         /\ Shaped(Popped) /\ Len(Popped) >= 1
         /\ OpenIn(stack) = OpenIn(Popped) \union {Top.callsite.id}
         /\ \A j \in OpenIn(Popped) : j < Top.callsite.id
<1>1. /\ Shaped(stack) /\ Len(stack) \in Nat /\ Len(stack) >= 1
      /\ \A j \in OpenIn(stack) : j \in 1..LastStep /\ j < i /\ next_id[j] = None
  BY ReturningFacts
<1>2. Len(stack) \in 1..Len(stack) /\ Len(stack) # 1
  BY <1>1 DEF Shaped, Top
<1>3. Top \in StackEntries /\ Top.callsite \in Callsites
  BY <1>1, <1>2, EntryType DEF Top
<1>4. /\ Shaped(Popped) /\ Len(Popped) = Len(stack) - 1
      /\ OpenIn(stack) = OpenIn(Popped) \union {Top.callsite.id}
      /\ \A j \in OpenIn(Popped) : j < Top.callsite.id
  <2>1. Len(stack) >= 2
    <3>1. \A n \in Nat : n >= 1 /\ n # 1 => n >= 2
      OBVIOUS
    <3> QED BY <1>1, <1>2, <3>1, Zenon
  <2>2. LET t == SubSeq(stack, 1, Len(stack) - 1)  id == stack[Len(stack)].callsite.id
        IN  /\ Shaped(t) /\ Len(t) = Len(stack) - 1
            /\ OpenIn(stack) = OpenIn(t) \union {id}
            /\ \A j \in OpenIn(t) : j < id
    BY <1>1, <2>1, PopShape
  <2> QED BY <2>2, Zenon DEF Popped, Top
<1> QED BY <1>1, <1>2, <1>3, <1>4

LEMMA ReturnToNextCalleeIInv == ASSUME IInv, ReturnToNextCallee PROVE IInv'
<1> DEFINE e == [Top EXCEPT !.info = Unknown, !.callsite.callees = CalleesLeft]
           open == Append(Popped, e)
<1>1. /\ phase = "returning" /\ Top.callsite # None
      /\ GoOn(next, open) /\ next_id' = next_id
  BY DEF ReturnToNextCallee
<1>2. /\ i < LastStep /\ i \in 1..LastStep /\ next \in Steps
      /\ next_id \in [1..LastStep -> (1..LastStep) \union {None}]
      /\ \A j \in 1..LastStep : next_id[j] # None => j < next_id[j] /\ next_id[j] <= i + 1
      /\ \A j \in OpenIn(stack) : j \in 1..LastStep /\ j < i /\ next_id[j] = None
      /\ \A j \in 1..i : next_id[j] = None => j \in OpenIn(stack)
  BY <1>1, ReturningFacts
<1>3. /\ Top \in StackEntries /\ Top.callsite \in Callsites
      /\ Shaped(Popped) /\ Len(Popped) >= 1
      /\ OpenIn(stack) = OpenIn(Popped) \union {Top.callsite.id}
      /\ \A j \in OpenIn(Popped) : j < Top.callsite.id
  BY <1>1, PoppedFacts
<1>4. e \in StackEntries /\ e.callsite \in Callsites /\ e.callsite.id = Top.callsite.id
  <2>1. CalleesLeft \in Nat \union {Many}
    BY <1>3 DEF CalleesLeft, Callsites
  <2>2. Unknown \in Infos
    BY DEF Unknown, Infos
  <2> QED BY <1>3, <2>1, <2>2 DEF StackEntries, Callsites
<1>5. Shaped(open) /\ OpenIn(open) = OpenIn(stack)
  <2> HIDE DEF e
  <2> QED BY <1>3, <1>4, PushShape
<1>6. StepsNest'
  BY <1>1 DEF IInv, StepsNest
<1>7. \A j \in OpenIn(open) : j <= i /\ next_id'[j] = None
  BY <1>1, <1>2, <1>5
<1> HIDE DEF open
<1> QED BY <1>1, <1>2, <1>5, <1>6, <1>7, GoOnPreserves

LEMMA ReturnToCallsiteIInv == ASSUME IInv, ReturnToCallsite PROVE IInv'
<1> DEFINE c == Top.callsite.id
<1>1. /\ phase = "returning" /\ Top.callsite # None
      /\ next_id' = [next_id EXCEPT ![c] = i + 1]
  BY DEF ReturnToCallsite
<1>2. /\ i < LastStep /\ i \in 1..LastStep /\ next \in Steps
      /\ next_id \in [1..LastStep -> (1..LastStep) \union {None}]
      /\ \A j \in 1..LastStep : next_id[j] # None => j < next_id[j] /\ next_id[j] <= i + 1
      /\ \A j \in OpenIn(stack) : j \in 1..LastStep /\ j < i /\ next_id[j] = None
      /\ \A j \in 1..i : next_id[j] = None => j \in OpenIn(stack)
  BY <1>1, ReturningFacts
<1>3. /\ c \in 1..LastStep /\ c < i /\ next_id[c] = None
      /\ Shaped(Popped) /\ Len(Popped) >= 1
      /\ OpenIn(stack) = OpenIn(Popped) \union {c}
      /\ \A j \in OpenIn(Popped) : j < c
  BY <1>1, PoppedFacts
<1> HIDE DEF c
<1>4. i + 1 \in 1..LastStep /\ i + 1 # None
  BY <1>2, BoundsAssumption, NoneAssumption
<1>5. StepsNest'
  <2>1. \A b \in (c + 1)..i : next_id[b] # None /\ next_id[b] <= i + 1
    <3> SUFFICES ASSUME NEW b \in (c + 1)..i PROVE next_id[b] # None /\ next_id[b] <= i + 1
      OBVIOUS
    <3>1. b \in 1..i /\ b \in 1..LastStep /\ b > c
      BY <1>2, <1>3, BoundsAssumption
    <3>2. b \notin OpenIn(stack)
      BY <1>3, <3>1
    <3> QED BY <1>2, <3>1, <3>2
  <2>2. c \in 1..i
    BY <1>2, <1>3, BoundsAssumption
  <2> QED BY <1>1, <1>2, <1>3, <2>1, <2>2, LinkNests DEF IInv
<1>6. next_id' \in [1..LastStep -> (1..LastStep) \union {None}] /\ next_id'[c] = i + 1
  BY <1>1, <1>2, <1>3, <1>4
<1>7. \A j \in OpenIn(Popped) : j < i /\ next_id'[j] = None
  BY <1>1, <1>2, <1>3
<1>8. \A j \in 1..i : next_id'[j] = None => j \in OpenIn(Popped)
  <2> SUFFICES ASSUME NEW j \in 1..i, next_id'[j] = None PROVE j \in OpenIn(Popped)
    OBVIOUS
  <2>1. j # c
    BY <1>4, <1>6
  <2>2. j \in 1..LastStep
    BY <1>2, BoundsAssumption
  <2>3. next_id[j] = None
    BY <1>1, <1>2, <2>1, <2>2
  <2> QED BY <1>2, <1>3, <2>1, <2>3
<1>9. \A j \in 1..LastStep : next_id'[j] # None => j < next_id'[j] /\ next_id'[j] <= i + 1
  BY <1>1, <1>2, <1>3
<1>10. CASE Leaves(Parent.info, next) \/ Top.return_after
  <2>1. stack' = Popped /\ UNCHANGED <<i, step, next, holes, phase>>
    BY <1>10 DEF ReturnToCallsite
  <2>2. Shaped(stack)' /\ OpenIn(stack)' = OpenIn(Popped) /\ stack' # <<>>
    BY <1>3, <2>1 DEF Shaped, StackEntries, Callsites, Infos, OpenIn
  <2>3. TypeOK'
    BY <1>3, <1>6, <2>1 DEF TypeOK, IInv, Shaped
  <2>4. Reach' = i + 1 /\ next_id'[i] = i + 1
    BY <1>1, <1>2, <1>3, <2>1 DEF Reach, IInv
  <2>5. \A j \in 1..(i - 1) : next_id'[j] = None => j \in OpenIn(Popped)
    BY <1>2, <1>8
  <2> QED BY <1>1, <1>2, <1>5, <1>7, <1>9, <2>1, <2>2, <2>3, <2>4, <2>5 DEF IInv
<1>11. CASE ~(Leaves(Parent.info, next) \/ Top.return_after)
  <2>1. GoOn(next, Popped)
    BY <1>11 DEF ReturnToCallsite
  <2>2. \A j \in OpenIn(Popped) : j <= i /\ next_id'[j] = None
    BY <1>2, <1>3, <1>7
  <2> QED BY <1>2, <1>3, <1>5, <1>6, <1>8, <1>9, <2>1, <2>2, GoOnPreserves
<1> QED BY <1>10, <1>11
-----------------------------------------------------------------------------
LEMMA NextIInv == IInv /\ [Next]_vars => IInv'
<1> SUFFICES ASSUME IInv, [Next]_vars PROVE IInv'
  OBVIOUS
<1>1. CASE \E s \in Steps, r \in 0..MaxCalls : Visit(s, r)
  BY <1>1, VisitCallIInv, VisitStayIInv, VisitReturnIInv DEF Visit
<1>2. CASE Return
  BY <1>2, ReturnFromTopIInv, ReturnToNextCalleeIInv, ReturnToCallsiteIInv DEF Return
<1>3. CASE UNCHANGED vars
  <2>1. UNCHANGED <<i, step, next, stack, next_id, holes, phase>>
    BY <1>3 DEF vars
  <2>2. TypeOK' /\ StepsNest'
    BY <2>1 DEF IInv, TypeOK, StepsNest, Steps, StackEntries
  <2>3. Shaped(stack)' /\ OpenIn(stack)' = OpenIn(stack) /\ Reach' = Reach
    BY <2>1 DEF IInv, Shaped, OpenIn, Reach, StackEntries, Callsites, Infos
  <2> QED BY <2>1, <2>2, <2>3 DEF IInv
<1> QED BY <1>1, <1>2, <1>3 DEF Next

LEMMA SpecIInv == Spec => []IInv
  BY InitIInv, NextIInv, PTL DEF Spec

LEMMA AllLinked == IInv => EveryStepLinked
<1> SUFFICES ASSUME IInv, NEW j \in 1..(i - 1)
             PROVE  \/ next_id[j] # None /\ next_id[j] > j
                    \/ phase # "done" /\ \E k \in 1..Len(stack) :
                          stack[k].callsite # None /\ stack[k].callsite.id = j
                    \/ phase = "done" /\ j \in holes
  BY DEF EveryStepLinked
<1>1. CASE next_id[j] # None
  <2>1. j \in 1..LastStep /\ next_id[j] \in 1..LastStep
    BY <1>1, BoundsAssumption DEF IInv, TypeOK
  <2>2. j < next_id[j]
    BY <1>1, <2>1 DEF IInv
  <2> QED BY <1>1, <2>1, <2>2
<1>2. CASE next_id[j] = None
  <2>1. j \in OpenIn(stack)
    BY <1>2 DEF IInv
  <2>2. PICK k \in 2..Len(stack) : stack[k].callsite.id = j
    BY <2>1 DEF OpenIn
  <2>3. k \in 1..Len(stack) /\ stack[k].callsite # None
    BY <2>2 DEF IInv, Shaped
  <2> QED BY <2>1, <2>2, <2>3 DEF IInv
<1> QED BY <1>1, <1>2

(* Every variable keeps its type, and so no callees counter runs below 0. *)
THEOREM StepAnalysisTypes == Spec => []TypeOK
<1>1. IInv => TypeOK
  BY DEF IInv
<1> QED BY <1>1, SpecIInv, PTL

(* No snapshot is forgotten: analyze_prev_steps never fails for a missing
   next_id in an entry analysed from its source. *)
THEOREM StepAnalysisLinks == Spec => []EveryStepLinked
  BY SpecIInv, AllLinked, PTL

(* Stepping over nests. *)
THEOREM StepAnalysisNests == Spec => []StepsNest
<1>1. IInv => StepsNest
  BY DEF IInv
<1> QED BY <1>1, SpecIInv, PTL
-----------------------------------------------------------------------------
(* What follows the code of a creation.  Nothing in it marks where its arguments
   begin; a push names the length of the code without them. *)
Hash == {"runtime", "hash", "another_hash", "a_hash", "of_two_words"}

LEMMA HashFacts ==
  "runtime" \in Hash /\ "hash" \in Hash /\ "another_hash" \in Hash /\ "a_hash" \in Hash /\ "of_two_words" \in Hash
BY DEF Hash

LEMMA MetadataType ==
  ASSUME NEW b \in Builds
  PROVE  Metadata(b) \in Seq(Hash)
<1>1. CASE b = "same"
  <2>1. Metadata(b) = <<"hash">>
    BY <1>1 DEF Metadata
  <2> QED BY <2>1, HashFacts
<1>2. CASE b = "other"
  <2>1. Metadata(b) = <<"another_hash">>
    BY <1>2 DEF Metadata
  <2> QED BY <2>1, HashFacts
<1>3. CASE b = "longer"
  <2>1. Metadata(b) = <<"a_hash", "of_two_words">>
    BY <1>3 DEF Metadata
  <2> QED BY <2>1, HashFacts
<1>4. CASE b \in {"shorter", "terse"}
  <2>1. Metadata(b) = <<>>
    BY <1>4 DEF Metadata
  <2> QED BY <2>1
<1> QED BY <1>1, <1>2, <1>3, <1>4 DEF Builds

LEMMA RuntimeType ==
  ASSUME NEW b \in Builds
  PROVE  Runtime(b) \in Seq(Hash) /\ Len(Runtime(b)) \in Nat
<1> DEFINE r == <<"runtime">>  m == Metadata(b)
<1>1. r \in Seq(Hash) /\ m \in Seq(Hash)
  BY HashFacts, MetadataType
<1>2. Runtime(b) = r \o m
  BY DEF Runtime
<1> HIDE DEF r, m
<1>3. r \o m \in Seq(Hash)
  BY <1>1, ConcatProperties
<1> QED
  BY <1>2, <1>3

(* A word is an instruction or data; only a push has an operand. *)
Instruction == {"codesize", "sub", "dup", "codecopy"}
Word(D) == {<<"push", n>> : n \in Nat} \union {<<w>> : w \in Instruction} \union {<<"data", d>> : d \in D}

LEMMA InstructionFacts ==
  "codesize" \in Instruction /\ "sub" \in Instruction /\ "dup" \in Instruction /\ "codecopy" \in Instruction
BY DEF Instruction

LEMMA DataType ==
  ASSUME NEW D, NEW s \in Seq(D)
  PROVE  /\ Data(s) \in Seq(Word(D)) /\ Len(Data(s)) = Len(s) /\ DOMAIN Data(s) = 1..Len(s)
         /\ \A n \in 1..Len(s) : Data(s)[n] = <<"data", s[n]>> /\ Data(s)[n][1] = "data"
<1>1. DOMAIN s = 1..Len(s) /\ Len(s) \in Nat /\ \A n \in 1..Len(s) : s[n] \in D
  OBVIOUS
<1>2. \A n \in 1..Len(s) : <<"data", s[n]>> \in Word(D)
  BY <1>1 DEF Word
<1>3. Data(s) = [n \in 1..Len(s) |-> <<"data", s[n]>>]
  BY <1>1 DEF Data
<1>4. \A n \in 1..Len(s) : Data(s)[n] = <<"data", s[n]>>
  BY <1>3
<1>5. Data(s) \in Seq(Word(D)) /\ Len(Data(s)) = Len(s) /\ DOMAIN Data(s) = 1..Len(s)
  <2>1. \A n \in 1..Len(s) : Data(s)[n] \in Word(D)
    BY <1>2, <1>4
  <2> HIDE DEF Word
  <2> QED BY <1>1, <1>3, <2>1
<1>6. \A n \in 1..Len(s) : Data(s)[n][1] = "data"
  BY <1>4
<1> QED
  BY <1>4, <1>5, <1>6

(* The code of a creation: its length is the operand of each push in it. *)
LEMMA CreationCodeShape ==
  ASSUME NEW b \in Builds
  PROVE  /\ CreationCode(b) \in Seq(Word(Hash)) /\ Len(CreationCode(b)) \in Nat \ (0..5)
         /\ CreationCode(b)[1] = <<"push", Len(CreationCode(b))>>
         /\ \A n \in 1..Len(CreationCode(b)) :
              CreationCode(b)[n][1] = "push" => CreationCode(b)[n][2] = Len(CreationCode(b))
<1> DEFINE r == Runtime(b)  end == 6 + Len(r)
           again == IF b = "terse" THEN <<"dup">> ELSE <<"push", end>>
           head == <<<<"push", end>>, <<"codesize">>, <<"sub">>, again, <<"dup">>, <<"codecopy">>>>
           tail == Data(r)  code == head \o tail  W == Word(Hash)
<1>1. r \in Seq(Hash) /\ Len(r) \in Nat /\ end \in Nat
  BY RuntimeType
<1>2. CreationCode(b) = code
  BY DEF CreationCode
<1>0. again \in {<<"dup">>, <<"push", end>>}
  OBVIOUS
<1> HIDE DEF r, end, again
<1>3. head \in Seq(W)
  <2>1. again \in W /\ <<"push", end>> \in W /\ <<"codesize">> \in W /\ <<"sub">> \in W /\ <<"dup">> \in W /\ <<"codecopy">> \in W
    BY <1>0, <1>1, InstructionFacts DEF Word
  <2> HIDE DEF W
  <2> QED
    BY <2>1
<1>4. Len(head) = 6 /\ head[1] = <<"push", end>> /\ \A n \in 1..6 : head[n][1] = "push" => head[n][2] = end
  <2>1. Len(head) = 6 /\ head[1] = <<"push", end>> /\ head[2] = <<"codesize">> /\ head[3] = <<"sub">>
        /\ head[4] = again /\ head[5] = <<"dup">> /\ head[6] = <<"codecopy">>
    OBVIOUS
  <2>2. head[2][1] = "codesize" /\ head[3][1] = "sub" /\ head[5][1] = "dup" /\ head[6][1] = "codecopy"
        /\ head[1][2] = end /\ (head[4][1] = "push" => head[4][2] = end)
    BY <1>0, <2>1
  <2> HIDE DEF head
  <2>3. \A n \in 1..6 : n = 1 \/ n = 2 \/ n = 3 \/ n = 4 \/ n = 5 \/ n = 6
    OBVIOUS
  <2> QED
    BY <2>1, <2>2, <2>3
<1>5. tail \in Seq(W) /\ Len(tail) = Len(r) /\ \A n \in 1..Len(r) : tail[n][1] = "data"
  BY <1>1, DataType
<1> HIDE DEF head, tail, W
<1>6. /\ code \in Seq(W) /\ Len(code) = Len(head) + Len(tail)
      /\ \A n \in 1..Len(head) + Len(tail) : code[n] = IF n <= Len(head) THEN head[n] ELSE tail[n - Len(head)]
  <2>1. tail \in Seq(W)
    BY <1>5
  <2>2. /\ head \o tail \in Seq(W) /\ Len(head \o tail) = Len(head) + Len(tail)
        /\ \A n \in 1..Len(head) + Len(tail) :
             (head \o tail)[n] = IF n <= Len(head) THEN head[n] ELSE tail[n - Len(head)]
    BY <1>3, <2>1, ConcatProperties
  <2> QED BY <2>2
<1>7. Len(code) = 6 + Len(r) /\ Len(code) = end
  BY <1>4, <1>5, <1>6 DEF end
<1>8. code[1] = <<"push", end>>
  BY <1>4, <1>6, <1>7, <1>1, <1>5
<1>9. ASSUME NEW n \in 1..Len(code), code[n][1] = "push" PROVE code[n][2] = end
  <2>1. CASE n <= 6
    BY <2>1, <1>4, <1>5, <1>6, <1>9, <1>1
  <2>2. CASE n > 6
    <3>1. n - 6 \in 1..Len(r) /\ code[n] = tail[n - 6]
      BY <2>2, <1>4, <1>5, <1>6, <1>7, <1>1
    <3> QED BY <3>1, <1>5, <1>9
  <2> QED BY <2>1, <2>2, <1>7, <1>1
<1> HIDE DEF code
<1>10. Len(code) \in Nat \ (0..5)
  BY <1>7, <1>1
<1> QED
  BY <1>2, <1>6, <1>7, <1>8, <1>9, <1>10 DEF W

(* Code is followed by one argument: what has the size of it is it. *)
LEMMA InitCodeShape ==
  ASSUME NEW init, init.build \in Builds, NEW x, init.args = <<x>>
  PROVE  /\ InitCode(init) \in Seq(Word(Hash \union {x})) /\ Len(InitCode(init)) = Len(CreationCode(init.build)) + 1
         /\ InitCode(init)[1] = CreationCode(init.build)[1]
         /\ InitCode(init)[Len(CreationCode(init.build)) + 1] = <<"data", x>>
         /\ \A n \in 1..Len(InitCode(init)) :
              InitCode(init)[n][1] = "push" => InitCode(init)[n][2] = Len(CreationCode(init.build))
<1> DEFINE b == init.build  code == CreationCode(b)  D == Hash \union {x}  last == Data(<<x>>)  words == code \o last
<1>1. code \in Seq(Word(Hash)) /\ Len(code) \in Nat \ (0..5)
  BY CreationCodeShape
<1>2. code \in Seq(Word(D))
  <2>1. Word(Hash) \subseteq Word(D)
    BY DEF Word
  <2> HIDE DEF code, D
  <2> QED BY <1>1, <2>1, SeqMonotonic
<1>3. last \in Seq(Word(D)) /\ Len(last) = 1 /\ last[1] = <<"data", x>> /\ last[1][1] = "data"
  <2>1. <<x>> \in Seq(D) /\ Len(<<x>>) = 1 /\ <<x>>[1] = x
    OBVIOUS
  <2> DEFINE t == <<x>>
  <2> HIDE DEF t, D
  <2>2. t \in Seq(D) /\ Len(t) = 1 /\ t[1] = x
    BY <2>1 DEF t
  <2>3. /\ Data(t) \in Seq(Word(D)) /\ Len(Data(t)) = 1
        /\ Data(t)[1] = <<"data", t[1]>> /\ Data(t)[1][1] = "data"
    <3>1. 1 \in 1..Len(t)
      BY <2>2
    <3>2. /\ Data(t) \in Seq(Word(D)) /\ Len(Data(t)) = Len(t)
          /\ \A n \in 1..Len(t) : Data(t)[n] = <<"data", t[n]>> /\ Data(t)[n][1] = "data"
      BY <2>2, DataType
    <3> QED BY <2>2, <3>1, <3>2
  <2> QED BY <2>2, <2>3 DEF t
<1>4. \A n \in 1..Len(code) : code[n][1] = "push" => code[n][2] = Len(code)
  BY CreationCodeShape
<1> HIDE DEF code, last, D
<1>5. /\ words \in Seq(Word(D)) /\ Len(words) = Len(code) + Len(last)
      /\ \A n \in 1..Len(code) + Len(last) : words[n] = IF n <= Len(code) THEN code[n] ELSE last[n - Len(code)]
  BY <1>2, <1>3, ConcatProperties
<1>6. Len(words) = Len(code) + 1 /\ words[1] = code[1] /\ words[Len(code) + 1] = <<"data", x>>
  BY <1>1, <1>3, <1>5
<1>7. ASSUME NEW n \in 1..Len(words), words[n][1] = "push" PROVE words[n][2] = Len(code)
  <2>1. CASE n <= Len(code)
    BY <2>1, <1>1, <1>3, <1>4, <1>5, <1>7
  <2>2. CASE n > Len(code)
    <3>1. n = Len(code) + 1
      BY <2>2, <1>1, <1>6
    <3>2. words[n] = last[1]
      BY <3>1, <1>1, <1>3, <1>5
    <3> QED BY <3>2, <1>3, <1>7
  <2> QED BY <2>1, <2>2, <1>1, <1>6
<1> HIDE DEF words
<1>8. InitCode(init) = words
  BY DEF InitCode, words, code, last
<1> QED
  BY <1>5, <1>6, <1>7, <1>8 DEF code, D

LEMMA LastOfWords ==
  ASSUME NEW S, NEW words \in Seq(S), NEW n \in Nat, Len(words) = n + 1, NEW offset \in Nat,
         Len(From(words, offset)) = 1
  PROVE  offset = n /\ From(words, offset) = <<words[n + 1]>>
<1>1. From(words, offset) = SubSeq(words, offset + 1, n + 1)
  BY DEF From
<1>2. offset = n
  BY <1>1
<1>3. SubSeq(words, n + 1, n + 1) = <<words[n + 1]>>
  <2>1. /\ SubSeq(words, n + 1, n + 1) \in Seq({words[n + 1]}) /\ Len(SubSeq(words, n + 1, n + 1)) = 1
        /\ SubSeq(words, n + 1, n + 1)[1] = words[n + 1]
    <3>1. n + 1 \in Int /\ \A k \in (n + 1)..(n + 1) : words[k] \in {words[n + 1]}
      OBVIOUS
    <3>2. /\ SubSeq(words, n + 1, n + 1) \in Seq({words[n + 1]})
          /\ Len(SubSeq(words, n + 1, n + 1)) = IF n + 1 <= n + 1 THEN (n + 1) - (n + 1) + 1 ELSE 0
          /\ \A k \in 1..((n + 1) - (n + 1) + 1) : SubSeq(words, n + 1, n + 1)[k] = words[(n + 1) + k - 1]
      BY <3>1, SubSeqProperties
    <3> QED BY <3>2
  <2> DEFINE t == SubSeq(words, n + 1, n + 1)
  <2> HIDE DEF t
  <2>2. t \in Seq({words[n + 1]}) /\ Len(t) = 1 /\ t[1] = words[n + 1]
    BY <2>1 DEF t
  <2>3. t = <<words[n + 1]>>
    BY <2>2
  <2> QED BY <2>3 DEF t
<1> QED
  BY <1>1, <1>2, <1>3

(* Where an argument is found, it is the one the code was followed by. *)
(* However the code on the chain was built and however far the search goes, what
   extract_constructor_args finds where the explorer lists nothing is the argument
   the contract was created with, or nothing (tweak_inspector.rs:100-330). *)
THEOREM ExtractedArgument ==
  ASSUME NEW contract, Inputs(contract) = 1,
         NEW init, init.build \in Builds, NEW x, init.args = <<x>>
  PROVE  ExtractConstructorArgs(contract, <<>>, init) \in {<<>>, <<x>>}
<1> DEFINE code == CreationCode(init.build)  words == InitCode(init)  W == Word(Hash \union {x})
           Unwrapped(s) == [k \in DOMAIN s |-> s[k][2]]
           n == Len(code)
<1>1. /\ words \in Seq(W) /\ Len(words) = n + 1 /\ words[1] = code[1] /\ words[n + 1] = <<"data", x>>
      /\ \A k \in 1..Len(words) : words[k][1] = "push" => words[k][2] = n
  BY InitCodeShape
<1>2. n \in Nat /\ code[1] = <<"push", n>>
  BY CreationCodeShape
<1>3. /\ Original \in Seq(Word(Hash)) /\ Len(Original) \in Nat \ {0} /\ Original[1] = <<"push", Len(Original)>>
  BY CreationCodeShape DEF Original, Builds
<1>4. Len(Runtime("same")) \in Nat
  BY RuntimeType DEF Builds
<1> HIDE DEF code, words, W, n
<1>5. ASSUME NEW offset \in Nat, Len(From(words, offset)) = 1
      PROVE  Unwrapped(From(words, offset)) = <<x>>
  <2>1. From(words, offset) = <<<<"data", x>>>>
    BY <1>1, <1>2, <1>5, LastOfWords
  <2>2. Unwrapped(<<<<"data", x>>>>) = <<x>>
    OBVIOUS
  <2> QED BY <2>1, <2>2
<1>6. ASSUME IsPrefix(Original, words) PROVE Len(From(words, Len(Original))) = 1
  <2>1. Len(Original) <= Len(words) /\ SubSeq(Original, 1, Len(Original)) = SubSeq(words, 1, Len(Original))
    BY <1>6 DEF IsPrefix
  <2>2. SubSeq(Original, 1, Len(Original))[1] = Original[1] /\ SubSeq(words, 1, Len(Original))[1] = words[1]
    BY <1>1, <1>2, <1>3, <2>1
  <2>3. <<"push", Len(Original)>> = <<"push", n>>
    BY <1>1, <1>2, <1>3, <2>1, <2>2
  <2>4. Len(Original) = n
    BY <2>3
  <2> QED BY <1>1, <1>2, <2>4 DEF From
<1>7. ASSUME NEW offset \in Fitting(contract, words), Len(words) > Len(Original)
      PROVE  offset \in Nat /\ Len(From(words, offset)) = 1
  <2>1. offset \in Tried(words) /\ Len(From(words, offset)) = 1
    BY <1>7 DEF Fitting, CanUseAsConstructorArgs
  <2>2. PICK d \in 0..SearchRange :
          offset \in {IF Len(Original) + d < Len(words) THEN Len(Original) + d ELSE Len(words) - 1,
                      IF d < Len(Original) THEN Len(Original) - d ELSE 0}
    BY <2>1 DEF Tried
  <2>3. offset \in Nat
    BY <2>2, <1>1, <1>2, <1>3, SearchRangeAssumption
  <2> QED BY <2>1, <2>3
<1>8. ASSUME NEW s \in ByKPattern(contract, words)
      PROVE  \E offset \in Nat : s = From(words, offset) /\ Len(From(words, offset)) = 1
  <2>1. PICK k \in KCandidates(words) :
          /\ s = From(words, k + Len(Runtime("same")))
          /\ Len(From(words, k + Len(Runtime("same")))) = Inputs(contract)
    BY <1>8 DEF ByKPattern, CanUseAsConstructorArgs
  <2>2. PICK m \in 1..Len(words) - 2 : IsPush(words[m]) /\ k = words[m][2]
    BY <2>1 DEF KCandidates, SizesArgs
  <2>3. k = n
    <3>1. m \in 1..Len(words)
      BY <1>1, <1>2
    <3> QED BY <3>1, <2>2, <1>1 DEF IsPush
  <2>4. k + Len(Runtime("same")) \in Nat
    BY <2>3, <1>2, <1>4
  <2> QED BY <2>1, <2>4
<1> DEFINE Suffix(offset) == Unwrapped(From(words, offset))
<1>9. ExtractConstructorArgs(contract, <<>>, init) =
        IF IsPrefix(Original, words) THEN Suffix(Len(Original))
        ELSE IF Len(words) > Len(Original) /\ Fitting(contract, words) # {}
          THEN Suffix(CHOOSE offset \in Fitting(contract, words) : TRUE)
        ELSE IF ByKPattern(contract, words) # {}
          THEN Unwrapped(CHOOSE s \in ByKPattern(contract, words) : TRUE)
        ELSE <<>>
  BY DEF ExtractConstructorArgs, words
<1>10. ASSUME IsPrefix(Original, words) PROVE Suffix(Len(Original)) = <<x>>
  BY <1>3, <1>5, <1>6, <1>10
<1>11. ASSUME Len(words) > Len(Original), Fitting(contract, words) # {}
       PROVE  Suffix(CHOOSE offset \in Fitting(contract, words) : TRUE) = <<x>>
  BY <1>5, <1>7, <1>11
<1>12. ASSUME ByKPattern(contract, words) # {}
       PROVE  Unwrapped(CHOOSE s \in ByKPattern(contract, words) : TRUE) = <<x>>
  <2> DEFINE s == CHOOSE t \in ByKPattern(contract, words) : TRUE
  <2>1. s \in ByKPattern(contract, words)
    BY <1>12
  <2> HIDE DEF s, Unwrapped
  <2>2. PICK offset \in Nat : s = From(words, offset) /\ Len(From(words, offset)) = 1
    BY <1>8, <2>1
  <2>3. Unwrapped(s) = <<x>>
    BY <1>5, <2>2
  <2> QED BY <2>3 DEF s
<1> HIDE DEF Suffix, Unwrapped
<1> QED
  BY <1>9, <1>10, <1>11, <1>12
-----------------------------------------------------------------------------
(* A transaction calls what is there and creates one contract at most. *)
LEMMA SetToSeqEmpty == SetToSeq({}) = <<>>
<1>1. Cardinality({}) = 0
  BY FS_EmptySet
<1>2. SetToSeq({}) = CHOOSE f \in [1..0 -> {}] : IsInjective(f)
  BY <1>1 DEF SetToSeq
<1>3. <<>> \in [1..0 -> {}] /\ IsInjective(<<>>)
  BY DEF IsInjective
<1>4. \A f \in [1..0 -> {}] : f = <<>>
  OBVIOUS
<1> QED
  BY <1>2, <1>3, <1>4

LEMMA SetToSeqOne ==
  ASSUME NEW c
  PROVE  SetToSeq({c}) = <<c>>
<1>1. Cardinality({c}) = 1
  BY FS_Singleton
<1>2. SetToSeq({c}) = CHOOSE f \in [1..1 -> {c}] : IsInjective(f)
  BY <1>1 DEF SetToSeq
<1>3. <<c>> \in [1..1 -> {c}] /\ IsInjective(<<c>>)
  BY DEF IsInjective
<1>4. \A f \in [1..1 -> {c}] : f = <<c>>
  OBVIOUS
<1> QED
  BY <1>2, <1>3, <1>4

(* A transaction on the chain, and the state after it. *)
Ran(does, s, built) == CallsOf(does, s, NoInspector, built)
Onwards(does, s, built) == After(does, s, Ran(does, s, built), built)

CodeRecord(c) == [contract |-> c.contract, by |-> c.by, args |-> c.args, seen |-> c.seen]

(* A state of the chain: no code is instrumented, and only Alice creates factories. *)
Good(s) ==
  /\ s = [nonce |-> s.nonce, code |-> s.code, cell |-> s.cell, token |-> s.token, factory |-> s.factory]
  /\ s.code = [a \in DOMAIN s.code |-> s.code[a]]
  /\ \A a \in DOMAIN s.code : a # NoOne /\ s.code[a] = CodeRecord(s.code[a]) /\ s.code[a].by = NoOne
  /\ s.factory # NoOne => Len(s.factory) = 2 /\ s.factory[1] = Alice

(* No code changes from s to t. *)
Extended(s, t) ==
  \A a \in DOMAIN s.code : a \in DOMAIN t.code /\ t.code[a] = s.code[a]

(* The call a transaction begins with, if there is code where it goes *)
Callee(does, s) ==
  CASE does = "use" -> s.token
    [] does \in {"produce", "produce_salted"} -> s.factory
    [] OTHER -> NoOne
CallTo(does, s) == [at |-> Callee(does, s), is |-> "call", done |-> TRUE, code |-> s.code[Callee(does, s)]]
Called(does, s) == IF Callee(does, s) \in DOMAIN s.code THEN 1 ELSE 0

(* and the creation it may make. *)
At(c, s) == CreatedAddress(c[1], s.nonce[c[1]], c[2], c[3])
Creating(c, s, inspector) == CreationCall(c, s.nonce[c[1]], s.cell, DOMAIN s.code, inspector)

IsCreation(c, s, built) ==
  /\ c[2] = [contract |-> c[2].contract, by |-> NoOne, build |-> built, args |-> c[2].args]
  /\ \/ Inputs(c[2].contract) = 0 /\ c[2].args = <<>>
     \/ Inputs(c[2].contract) = 1 /\ c[2].args = <<c[2].args[1]>>
  /\ c[2].contract \in {"token", "factory"}
  /\ c[1] # Alice => c[1] = s.factory /\ s.factory \in DOMAIN s.code
  /\ c[2].contract = "factory" => c[1] = Alice
  /\ c[1] = Alice => c[3] = "create"

(* On the chain, what is created has the arguments its constructor takes. *)
LEMMA CreationsCases ==
  ASSUME NEW does, NEW s, Good(s), NEW built
  PROVE  \/ Creations(does, s, built) = {}
         \/ \E c : Creations(does, s, built) = {c} /\ IsCreation(c, s, built)
<1>1. CASE does = "deploy_token"
  <2> DEFINE c == <<Alice, FirstCode("token", <<"x">>, built), "create">>
  <2>1. Creations(does, s, built) = {c}
    BY <1>1 DEF Creations
  <2>2. c[1] = Alice /\ c[2] = [contract |-> "token", by |-> NoOne, build |-> built, args |-> <<"x">>] /\ c[3] = "create"
    BY DEF FirstCode
  <2> HIDE DEF c
  <2>3. IsCreation(c, s, built)
    BY <2>2 DEF IsCreation, Inputs
  <2> QED BY <2>1, <2>3
<1>2. CASE does = "deploy_factory"
  <2> DEFINE c == <<Alice, FirstCode("factory", <<>>, built), "create">>
  <2>1. Creations(does, s, built) = {c}
    BY <1>2 DEF Creations
  <2>2. c[1] = Alice /\ c[2] = [contract |-> "factory", by |-> NoOne, build |-> built, args |-> <<>>] /\ c[3] = "create"
    BY DEF FirstCode
  <2> HIDE DEF c
  <2>3. IsCreation(c, s, built)
    BY <2>2 DEF IsCreation, Inputs
  <2> QED BY <2>1, <2>3
<1>3. CASE does \in {"produce", "produce_salted"} /\ s.factory \in DOMAIN s.code
  <2> DEFINE scheme == IF does = "produce_salted" THEN "create2" ELSE "create"
             f == s.factory
             x == IF scheme = "create2" THEN "w" ELSE IF s.nonce[f] = 1 THEN "y" ELSE "z"
             c == <<f, TokenOf(s.code[f], scheme, s.nonce[f], built), scheme>>
  <2>1. Creations(does, s, built) = {c}
    BY <1>3 DEF Creations
  <2>2. s.code[f].by = NoOne /\ f \in DOMAIN s.code
    BY <1>3 DEF Good
  <2>3. TokenOf(s.code[f], scheme, s.nonce[f], built) =
          [contract |-> "token", by |-> NoOne, build |-> built, args |-> <<x>>]
    BY <2>2 DEF TokenOf
  <2>4. f # Alice
    <3>1. f # NoOne
      BY <2>2 DEF Good
    <3>2. Len(f) = 2
      BY <3>1 DEF Good
    <3>3. Len(Alice) = 1
      BY DEF Alice
    <3> QED BY <3>2, <3>3
  <2>5. c[1] = f /\ c[2] = [contract |-> "token", by |-> NoOne, build |-> built, args |-> <<x>>]
    BY <2>3
  <2> HIDE DEF c, scheme, x
  <2>6. IsCreation(c, s, built)
    BY <2>2, <2>4, <2>5 DEF IsCreation, Inputs, f
  <2> QED BY <2>1, <2>6
<1>4. CASE /\ does # "deploy_token" /\ does # "deploy_factory"
           /\ ~(does \in {"produce", "produce_salted"} /\ s.factory \in DOMAIN s.code)
  BY <1>4 DEF Creations
<1> QED BY <1>1, <1>2, <1>3, <1>4

LEMMA CallsShape ==
  ASSUME NEW does, NEW s
  PROVE  Calls(does, s) = IF Callee(does, s) \in DOMAIN s.code THEN <<CallTo(does, s)>> ELSE <<>>
BY DEF Calls, Callee, CallTo

LEMMA ConcatOnes ==
  ASSUME NEW x, NEW y
  PROVE  <<>> \o <<y>> = <<y>> /\ <<x>> \o <<y>> = <<x, y>>
<1> DEFINE S == {x, y}  a == <<x>>  b == <<y>>  ab == a \o b
<1>1. a \in Seq(S) /\ b \in Seq(S) /\ Len(a) = 1 /\ Len(b) = 1 /\ a[1] = x /\ b[1] = y
  OBVIOUS
<1>2. <<>> \o b = b
  BY <1>1, ConcatEmptySeq
<1> HIDE DEF S, a, b
<1>3. ab \in Seq(S) /\ Len(ab) = Len(a) + Len(b)
      /\ \A k \in 1..Len(a) + Len(b) : ab[k] = IF k <= Len(a) THEN a[k] ELSE b[k - Len(a)]
  BY <1>1, ConcatProperties
<1> HIDE DEF ab
<1>4. ab \in Seq(S) /\ Len(ab) = 2 /\ ab[1] = x /\ ab[2] = y
  BY <1>1, <1>3
<1>5. ab = <<x, y>>
  BY <1>4
<1> QED BY <1>2, <1>5 DEF ab, a, b

(* The calls of a transaction, one by one. *)
LEMMA RunShape ==
  ASSUME NEW does, NEW s, NEW inspector, NEW built, NEW c,
         Creations(does, s, built) = {} \/ Creations(does, s, built) = {c}
  PROVE  /\ DOMAIN CallsOf(does, s, inspector, built) =
              1..(Called(does, s) + IF Creations(does, s, built) = {} THEN 0 ELSE 1)
         /\ Called(does, s) = 1 => CallsOf(does, s, inspector, built)[1] = CallTo(does, s)
         /\ Creations(does, s, built) = {c} =>
              CallsOf(does, s, inspector, built)[Called(does, s) + 1] = Creating(c, s, inspector)
<1> DEFINE made == {CreationCall(d, s.nonce[d[1]], s.cell, DOMAIN s.code, inspector) : d \in Creations(does, s, built)}
           x == CallTo(does, s)  y == Creating(c, s, inspector)  first == Calls(does, s)  run == CallsOf(does, s, inspector, built)
<1>1. run = first \o SetToSeq(made)
  BY DEF CallsOf
<1>2. Creations(does, s, built) = {} => made = {}
  OBVIOUS
<1>3. Creations(does, s, built) = {c} => made = {y}
  BY DEF Creating
<1>4. /\ Called(does, s) = 1 => first = <<x>>
      /\ Called(does, s) # 1 => first = <<>>
      /\ Called(does, s) = 0 \/ Called(does, s) = 1
  BY CallsShape DEF Called
<1> HIDE DEF made, x, y, first, run
<1>5. CASE Creations(does, s, built) = {}
  <2>1. run = first \o <<>>
    BY <1>1, <1>2, <1>5, SetToSeqEmpty
  <2>2. <<>> \o <<>> = <<>> /\ <<x>> \o <<>> = <<x>>
    BY ConcatEmptySeq
  <2>3. Called(does, s) = 1 => run = <<x>>
    BY <2>1, <2>2, <1>4
  <2>4. Called(does, s) = 0 => run = <<>>
    BY <2>1, <2>2, <1>4
  <2>5. /\ DOMAIN run = 1..(Called(does, s) + 0)
        /\ Called(does, s) = 1 => run[1] = x
    <3>1. DOMAIN <<x>> = 1..1 /\ <<x>>[1] = x /\ DOMAIN <<>> = {} /\ 1..0 = {}
      OBVIOUS
    <3>2. CASE Called(does, s) = 1
      BY <2>3, <3>1, <3>2
    <3>3. CASE Called(does, s) = 0
      BY <2>4, <3>1, <3>3
    <3> QED BY <3>2, <3>3, <1>4
  <2>6. {} # {c}
    OBVIOUS
  <2> QED BY <2>5, <2>6, <1>5 DEF run, x
<1>6. CASE Creations(does, s, built) = {c}
  <2>1. run = first \o <<y>>
    BY <1>1, <1>3, <1>6, SetToSeqOne
  <2>2. <<>> \o <<y>> = <<y>> /\ <<x>> \o <<y>> = <<x, y>>
    BY ConcatOnes
  <2>3. Called(does, s) = 1 => run = <<x, y>>
    BY <2>1, <2>2, <1>4
  <2>4. Called(does, s) = 0 => run = <<y>>
    BY <2>1, <2>2, <1>4
  <2>5. /\ DOMAIN run = 1..(Called(does, s) + 1)
        /\ Called(does, s) = 1 => run[1] = x
        /\ run[Called(does, s) + 1] = y
    <3>1. /\ DOMAIN <<x, y>> = 1..2 /\ <<x, y>>[1] = x /\ <<x, y>>[2] = y
          /\ DOMAIN <<y>> = 1..1 /\ <<y>>[1] = y
      OBVIOUS
    <3>2. CASE Called(does, s) = 1
      BY <2>3, <3>1, <3>2
    <3>3. CASE Called(does, s) = 0
      BY <2>4, <3>1, <3>3
    <3> QED BY <3>2, <3>3, <1>4
  <2>6. {} # {c}
    OBVIOUS
  <2> QED BY <2>5, <2>6, <1>6 DEF run, x, y
<1> QED BY <1>5, <1>6

(* Addresses are tuples that begin with the creator's. *)
LEMMA AddressFacts ==
  ASSUME NEW s, Good(s), NEW built, NEW c, IsCreation(c, s, built)
  PROVE  /\ At(c, s) # NoOne
         /\ s.factory \in DOMAIN s.code => At(c, s) # s.factory \/ c[1] = Alice
         /\ c[1] = Alice => At(c, s) = <<Alice, s.nonce[Alice]>>
<1> DEFINE a == At(c, s)
<1>1. a = <<c[1], c[2].by, c[2].args>> \/ a = <<c[1], s.nonce[c[1]]>>
  BY DEF At, CreatedAddress
<1>2. a # NoOne
  BY <1>1 DEF NoOne
<1>3. c[1] = Alice => a = <<Alice, s.nonce[Alice]>>
  <2>1. "create" # "create2"
    OBVIOUS
  <2> QED BY <2>1 DEF IsCreation, At, CreatedAddress
<1>4. ASSUME s.factory \in DOMAIN s.code, c[1] # Alice PROVE a # s.factory
  <2>1. c[1] = s.factory
    BY <1>4 DEF IsCreation
  <2>2. s.factory # NoOne
    BY <1>4 DEF Good
  <2>3. Len(s.factory) = 2 /\ s.factory[1] = Alice
    BY <2>2 DEF Good
  <2>4. Len(Alice) = 1
    BY DEF Alice
  <2>5. s.factory # Alice
    BY <2>3, <2>4
  <2>6. a[1] = s.factory
    BY <1>1, <2>1
  <2> QED BY <2>3, <2>5, <2>6
<1> QED BY <1>2, <1>3, <1>4

PlainCode(c, s) == [contract |-> c[2].contract, by |-> NoOne, args |-> c[2].args, seen |-> s.cell]

LEMMA EnoughArguments ==
  ASSUME NEW s, NEW built, NEW c, IsCreation(c, s, built)
  PROVE  Len(c[2].args) >= Inputs(c[2].contract)
<1>1. CASE Inputs(c[2].contract) = 0 /\ c[2].args = <<>>
  BY <1>1
<1>2. CASE Inputs(c[2].contract) = 1 /\ c[2].args = <<c[2].args[1]>>
  <2>1. Len(<<c[2].args[1]>>) = 1
    OBVIOUS
  <2> QED BY <1>2, <2>1
<1> QED BY <1>1, <1>2 DEF IsCreation

LEMMA NotHooked ==
  ASSUME NEW a, a # NoOne, NEW init, NEW inspector, inspector.target = NoOne, inspector.hooks = {}
  PROVE  Intercepted(a, init, inspector) = init
<1>1. Intercepted(a, init, inspector) = Hooked(init, {})
  BY DEF Intercepted
<1>2. Hooked(init, {}) = init
  BY DEF Hooked
<1> QED BY <1>1, <1>2

(* What a creation gives on the chain *)
LEMMA PlainCreation ==
  ASSUME NEW s, Good(s), NEW built, NEW c, IsCreation(c, s, built)
  PROVE  LET made == Creating(c, s, NoInspector) IN
         /\ made.at = At(c, s) /\ made.is = "creation"
         /\ made.done <=> At(c, s) \notin DOMAIN s.code
         /\ made.done => made.code = PlainCode(c, s)
         /\ ~made.done => made.code = NoCode
         /\ made = [at |-> made.at, is |-> "creation", done |-> made.done, code |-> made.code]
<1> DEFINE a == At(c, s)  made == Creating(c, s, NoInspector)
<1>1. Intercepted(a, c[2], NoInspector) = c[2]
  BY NotHooked, AddressFacts DEF NoInspector
<1>2. made = [at |-> a, is |-> "creation", done |-> Len(c[2].args) >= Inputs(c[2].contract) /\ a \notin DOMAIN s.code,
              code |-> IF Len(c[2].args) >= Inputs(c[2].contract) /\ a \notin DOMAIN s.code
                         THEN [contract |-> c[2].contract, by |-> c[2].by, args |-> c[2].args, seen |-> s.cell] ELSE NoCode]
  BY <1>1 DEF Creating, CreationCall, At
<1>3. c[2].by = NoOne
  BY DEF IsCreation
<1>4. Len(c[2].args) >= Inputs(c[2].contract)
  BY EnoughArguments
<1> HIDE DEF made, a
<1>5. made.at = a /\ made.is = "creation"
  BY <1>2
<1>6. made.done <=> a \notin DOMAIN s.code
  BY <1>2, <1>4
<1>7. /\ made.done => made.code = PlainCode(c, s)
      /\ ~made.done => made.code = NoCode
  BY <1>2, <1>3, <1>4 DEF PlainCode
<1>8. made = [at |-> made.at, is |-> "creation", done |-> made.done, code |-> made.code]
  BY <1>2
<1> QED BY <1>5, <1>6, <1>7, <1>8 DEF made, a

(* A transaction adds the code it creates, and changes no other. *)
Deployed(s, t, c) ==
  /\ At(c, s) \notin DOMAIN s.code
  /\ t.code = [a \in DOMAIN s.code \union {At(c, s)} |-> IF a = At(c, s) THEN PlainCode(c, s) ELSE s.code[a]]
  /\ t.factory = IF c[2].contract = "factory" THEN At(c, s) ELSE s.factory

Untouched(s, t) == t.code = s.code /\ t.factory = s.factory

IsState(t) == t = [nonce |-> t.nonce, code |-> t.code, cell |-> t.cell, token |-> t.token, factory |-> t.factory]

LEMMA OnwardsShape ==
  ASSUME NEW does, NEW s, Good(s), NEW built
  PROVE  /\ IsState(Onwards(does, s, built))
         /\ \/ Untouched(s, Onwards(does, s, built))
            \/ \E c : /\ Creations(does, s, built) = {c} /\ IsCreation(c, s, built)
                      /\ Deployed(s, Onwards(does, s, built), c)
         /\ \A c : Creations(does, s, built) = {c} /\ At(c, s) \notin DOMAIN s.code =>
                     Deployed(s, Onwards(does, s, built), c)
<1> DEFINE made == Ran(does, s, built)  t == Onwards(does, s, built)
           new == {made[n].at : n \in {m \in DOMAIN made : made[m].is = "creation" /\ made[m].done}}
           CodeAt(address) == (CHOOSE n \in DOMAIN made : made[n].at = address)
           Latest(contract, old) ==
             IF \E a \in new : made[CodeAt(a)].code.contract = contract THEN CHOOSE a \in new : TRUE ELSE old
           nonces == t.nonce
<1>1. /\ IsState(t)
      /\ t.code = [a \in DOMAIN s.code \union new |-> IF a \in new THEN made[CodeAt(a)].code ELSE s.code[a]]
      /\ t.factory = Latest("factory", s.factory)
  BY DEF Onwards, After, IsState
<1>2. s.code = [a \in DOMAIN s.code |-> s.code[a]]
  BY DEF Good
<1>3. ASSUME new = {} PROVE Untouched(s, t)
  <2> HIDE DEF new, t, made
  <2> QED BY <1>1, <1>2, <1>3 DEF Untouched
<1> DEFINE k == Called(does, s)
<1>4. k \in {0, 1} /\ (k = 1 <=> Callee(does, s) \in DOMAIN s.code)
  BY DEF Called
<1>5. CASE Creations(does, s, built) = {}
  <2>1. DOMAIN made = 1..k /\ (k = 1 => made[1] = CallTo(does, s))
    <3>1. \A c : Creations(does, s, built) = {} \/ Creations(does, s, built) = {c}
      BY <1>5
    <3>2. /\ DOMAIN made = 1..(k + 0)
          /\ k = 1 => made[1] = CallTo(does, s)
      BY <3>1, <1>5, RunShape DEF Ran
    <3> QED BY <3>2, <1>4
  <2>2. CallTo(does, s).is # "creation"
    BY DEF CallTo
  <2>3. new = {}
    <3> HIDE DEF made, k
    <3> QED BY <2>1, <2>2, <1>4
  <2>4. \A c : {c} # {}
    OBVIOUS
  <2> HIDE DEF new, t, made
  <2> QED BY <1>1, <1>3, <1>5, <2>3, <2>4 DEF t
<1>6. ASSUME NEW c, Creations(does, s, built) = {c}, IsCreation(c, s, built)
      PROVE  /\ Untouched(s, t) \/ Deployed(s, t, c)
             /\ At(c, s) \notin DOMAIN s.code => Deployed(s, t, c)
  <2> DEFINE x == Creating(c, s, NoInspector)
  <2>1. /\ DOMAIN made = 1..(k + 1) /\ made[k + 1] = x
        /\ k = 1 => made[1] = CallTo(does, s)
    <3>1. {} # {c}
      OBVIOUS
    <3>2. /\ DOMAIN CallsOf(does, s, NoInspector, built) =
               1..(Called(does, s) + IF Creations(does, s, built) = {} THEN 0 ELSE 1)
          /\ Called(does, s) = 1 => CallsOf(does, s, NoInspector, built)[1] = CallTo(does, s)
          /\ Creations(does, s, built) = {c} =>
              CallsOf(does, s, NoInspector, built)[Called(does, s) + 1] = Creating(c, s, NoInspector)
      BY <1>6, RunShape
    <3>3. made = CallsOf(does, s, NoInspector, built)
      BY DEF Ran
    <3>4. (IF Creations(does, s, built) = {} THEN 0 ELSE 1) = 1
      BY <1>6, <3>1
    <3>5. DOMAIN made = 1..(k + 1)
      BY <3>2, <3>3, <3>4
    <3>6. made[k + 1] = x
      BY <1>6, <3>2, <3>3
    <3> QED BY <3>2, <3>3, <3>5, <3>6
  <2>2. /\ x.at = At(c, s) /\ x.is = "creation" /\ (x.done <=> At(c, s) \notin DOMAIN s.code)
        /\ x.done => x.code = PlainCode(c, s)
    BY <1>6, PlainCreation
  <2>3. CallTo(does, s).is # "creation" /\ CallTo(does, s).at = Callee(does, s)
    BY DEF CallTo
  <2> HIDE DEF made, k, t, x
  <2>4. CASE ~x.done
    <3>1. new = {}
      BY <2>1, <2>2, <2>3, <2>4, <1>4
    <3> QED BY <1>3, <2>2, <2>4, <3>1
  <2>5. CASE x.done
    <3>1. new = {At(c, s)}
      BY <2>1, <2>2, <2>3, <2>5, <1>4
    <3>2. CodeAt(At(c, s)) = k + 1
      <4>1. \A n \in DOMAIN made : made[n].at = At(c, s) <=> n = k + 1
        BY <2>1, <2>2, <2>3, <2>5, <1>4
      <4>2. k + 1 \in DOMAIN made
        BY <2>1, <1>4
      <4> QED BY <4>1, <4>2
    <3>3. made[CodeAt(At(c, s))].code = PlainCode(c, s)
      BY <2>1, <2>2, <2>5, <3>2
    <3>4. PlainCode(c, s).contract = c[2].contract
      BY DEF PlainCode
    <3> HIDE DEF new, CodeAt
    <3>5. t.code = [a \in DOMAIN s.code \union {At(c, s)} |-> IF a = At(c, s) THEN PlainCode(c, s) ELSE s.code[a]]
      BY <1>1, <3>1, <3>3
    <3>6. t.factory = IF c[2].contract = "factory" THEN At(c, s) ELSE s.factory
      BY <1>1, <3>1, <3>3, <3>4
    <3> QED BY <2>2, <2>5, <3>5, <3>6 DEF Deployed
  <2> QED BY <2>4, <2>5
<1> HIDE DEF t
<1>7. \A c, d : {c} = {d} => c = d
  OBVIOUS
<1>8. CASE \E c : Creations(does, s, built) = {c} /\ IsCreation(c, s, built)
  <2>1. PICK c : Creations(does, s, built) = {c} /\ IsCreation(c, s, built)
    BY <1>8
  <2> QED BY <2>1, <1>1, <1>6, <1>7 DEF t
<1> QED BY <1>1, <1>5, <1>8, CreationsCases DEF t

LEMMA OnwardsGood ==
  ASSUME NEW does, NEW s, Good(s), NEW built
  PROVE  Good(Onwards(does, s, built)) /\ Extended(s, Onwards(does, s, built))
<1> DEFINE t == Onwards(does, s, built)
<1>1. /\ IsState(t)
      /\ Untouched(s, t) \/ \E c : IsCreation(c, s, built) /\ Deployed(s, t, c)
  BY OnwardsShape
<1> HIDE DEF t
<1>2. CASE Untouched(s, t)
  <2>1. t.code = s.code /\ t.factory = s.factory
    BY <1>2 DEF Untouched
  <2> QED BY <1>1, <2>1 DEF Good, Extended, IsState, t
<1>3. ASSUME NEW c, IsCreation(c, s, built), Deployed(s, t, c)
      PROVE  Good(t) /\ Extended(s, t)
  <2> DEFINE d == At(c, s)  p == PlainCode(c, s)
  <2>1. /\ d \notin DOMAIN s.code
        /\ t.code = [a \in DOMAIN s.code \union {d} |-> IF a = d THEN p ELSE s.code[a]]
        /\ t.factory = IF c[2].contract = "factory" THEN d ELSE s.factory
    BY <1>3 DEF Deployed
  <2>2. p = CodeRecord(p) /\ p.by = NoOne
    BY DEF PlainCode, CodeRecord
  <2>3. d # NoOne /\ (c[1] = Alice => d = <<Alice, s.nonce[Alice]>>)
    BY <1>3, AddressFacts
  <2>4. c[2].contract = "factory" => Len(d) = 2 /\ d[1] = Alice
    <3>1. ASSUME c[2].contract = "factory" PROVE d = <<Alice, s.nonce[Alice]>>
      BY <1>3, <2>3, <3>1 DEF IsCreation
    <3>2. Len(<<Alice, s.nonce[Alice]>>) = 2 /\ <<Alice, s.nonce[Alice]>>[1] = Alice
      OBVIOUS
    <3> HIDE DEF d
    <3> QED BY <3>1, <3>2
  <2> HIDE DEF d, p
  <2>5. DOMAIN t.code = DOMAIN s.code \union {d}
    BY <2>1
  <2>6. t.code[d] = p /\ \A a \in DOMAIN s.code : t.code[a] = s.code[a]
    BY <2>1
  <2>7. Extended(s, t)
    BY <2>5, <2>6 DEF Extended
  <2>8. \A a \in DOMAIN t.code : a # NoOne /\ t.code[a] = CodeRecord(t.code[a]) /\ t.code[a].by = NoOne
    BY <2>2, <2>3, <2>5, <2>6 DEF Good
  <2>9. t.code = [a \in DOMAIN t.code |-> t.code[a]]
    BY <2>1, <2>5
  <2>10. t.factory # NoOne => Len(t.factory) = 2 /\ t.factory[1] = Alice
    BY <2>1, <2>4 DEF Good
  <2> QED BY <1>1, <2>7, <2>8, <2>9, <2>10 DEF Good, IsState
<1> QED BY <1>1, <1>2, <1>3 DEF t

Only(c, does, s, built) == Creations(does, s, built) = {c} /\ IsCreation(c, s, built)

(* Code is new after a transaction where it has created some. *)
LEMMA NewCode ==
  ASSUME NEW does, NEW s, Good(s), NEW built, NEW a,
         a \in DOMAIN Onwards(does, s, built).code, a \notin DOMAIN s.code
  PROVE  \E c : /\ Only(c, does, s, built) /\ a = At(c, s)
                /\ Onwards(does, s, built).code[a] = PlainCode(c, s)
<1> DEFINE t == Onwards(does, s, built)
<1>1. \/ Untouched(s, t)
      \/ \E c : Creations(does, s, built) = {c} /\ IsCreation(c, s, built) /\ Deployed(s, t, c)
  BY OnwardsShape
<1> HIDE DEF t
<1>2. ~Untouched(s, t)
  BY DEF Untouched, t
<1>3. PICK c : Creations(does, s, built) = {c} /\ IsCreation(c, s, built) /\ Deployed(s, t, c)
  BY <1>1, <1>2
<1> DEFINE d == At(c, s)  p == PlainCode(c, s)
<1>4. t.code = [b \in DOMAIN s.code \union {d} |-> IF b = d THEN p ELSE s.code[b]]
  BY <1>3 DEF Deployed
<1> HIDE DEF d, p
<1>5. a \in DOMAIN t.code
  BY DEF t
<1>6. a = d /\ t.code[a] = p
  BY <1>4, <1>5
<1> QED BY <1>3, <1>6 DEF d, p, t, Only

-----------------------------------------------------------------------------
(* The invariant.  An address is created by one transaction, and what it holds
   does not change from then on. *)
Created(a, n) ==
  n \in 1..Len(chain) /\ a \in DOMAIN history[n + 1].code /\ a \notin DOMAIN history[n].code

WorldInv ==
  /\ chain \in Seq([does : Does, opens_block : BOOLEAN])
  /\ build \in Builds /\ listed \in BOOLEAN /\ quick \in BOOLEAN
  /\ history = [k \in 1..Len(chain) + 1 |-> history[k]]
  /\ \A k \in 1..Len(chain) + 1 : Good(history[k])
  /\ \A k \in 1..Len(chain) : history[k + 1] = Onwards(chain[k].does, history[k], build)
  /\ \A j, k \in 1..Len(chain) + 1 : j <= k => Extended(history[j], history[k])
  /\ \A a \in DOMAIN history[Len(chain) + 1].code : \E n \in 1..Len(chain) : Created(a, n)

LEMMA AppendShape ==
  ASSUME NEW h, NEW n \in Nat, h = [k \in 1..n |-> h[k]], NEW x
  PROVE  /\ Append(h, x) = [k \in 1..n + 1 |-> Append(h, x)[k]]
         /\ \A k \in 1..n : Append(h, x)[k] = h[k]
         /\ Append(h, x)[n + 1] = x
         /\ Len(h) = n
<1> DEFINE S == {h[k] : k \in 1..n} \union {x}
<1>1. \A k \in 1..n : h[k] \in S
  OBVIOUS
<1>2. x \in S
  OBVIOUS
<1> HIDE DEF S
<1>3. h \in Seq(S) /\ Len(h) = n
  BY <1>1
<1> DEFINE g == Append(h, x)
<1>4. g \in Seq(S) /\ Len(g) = n + 1 /\ (\A k \in 1..n : g[k] = h[k]) /\ g[n + 1] = x
  BY <1>2, <1>3, AppendProperties
<1> HIDE DEF g
<1>5. g = [k \in 1..n + 1 |-> g[k]]
  BY <1>4
<1> QED BY <1>3, <1>4, <1>5 DEF g

LEMMA ExtendedTransitive ==
  ASSUME NEW s, NEW t, NEW u, Extended(s, t), Extended(t, u)
  PROVE  Extended(s, u)
BY DEF Extended

LEMMA ExtendedReflexive ==
  ASSUME NEW s
  PROVE  Extended(s, s)
BY DEF Extended

LEMMA CreatedUnique ==
  ASSUME WorldInv, NEW a, NEW j, NEW k, Created(a, j), Created(a, k)
  PROVE  j = k
<1>1. Len(chain) \in Nat
  BY DEF WorldInv
<1>2. ASSUME NEW m, NEW n, Created(a, m), Created(a, n), m < n
      PROVE  FALSE
  <2>1. m \in 1..Len(chain) /\ n \in 1..Len(chain) /\ m + 1 <= n
    BY <1>1, <1>2 DEF Created
  <2>2. Extended(history[m + 1], history[n])
    BY <1>1, <2>1 DEF WorldInv
  <2> QED BY <1>2, <2>2 DEF Created, Extended
<1>3. j \in Nat /\ k \in Nat
  BY <1>1 DEF Created
<1>4. ~(j < k)
  BY <1>2
<1>5. ~(k < j)
  BY <1>2
<1> QED BY <1>3, <1>4, <1>5

(* A mined transaction extends the chain. *)
LEMMA MineKeepsWorld ==
  ASSUME WorldInv, NEW does \in Does, NEW opens_block \in BOOLEAN, Mine(does, opens_block)
  PROVE  WorldInv'
<1> DEFINE N == Len(chain)  x == [does |-> does, opens_block |-> opens_block]
           s == history[N + 1]  t == Onwards(does, s, build)
<1>1. N \in Nat /\ chain \in Seq([does : Does, opens_block : BOOLEAN])
  BY DEF WorldInv
<1>2. history = [k \in 1..N + 1 |-> history[k]]
  BY DEF WorldInv
<1>3. Append(history, t) = [k \in 1..N + 2 |-> Append(history, t)[k]]
      /\ (\A k \in 1..N + 1 : Append(history, t)[k] = history[k])
      /\ Append(history, t)[N + 2] = t /\ Len(history) = N + 1
  BY <1>1, <1>2, AppendShape
<1>4. Last(history) = s
  BY <1>3 DEF Last
<1>5. history' = Append(history, t)
  BY <1>4 DEF Mine, Onwards, Ran
<1>6. x \in [does : Does, opens_block : BOOLEAN] /\ x.does = does
  OBVIOUS
<1>7. chain' = Append(chain, x)
  BY DEF Mine
<1> HIDE DEF x
<1>8. /\ chain' \in Seq([does : Does, opens_block : BOOLEAN]) /\ Len(chain') = N + 1
      /\ \A k \in 1..N : chain'[k] = chain[k]
      /\ chain'[N + 1] = x
  BY <1>1, <1>6, <1>7, AppendProperties
<1>9. build' = build /\ listed' = listed /\ quick' = quick
  BY DEF Mine
<1>10. Good(s) /\ Good(t) /\ Extended(s, t)
  <2>1. Good(s)
    BY <1>1 DEF WorldInv
  <2> QED BY <2>1, OnwardsGood
<1> HIDE DEF N
<1>11. /\ history' = [k \in 1..N + 2 |-> history'[k]]
       /\ \A k \in 1..N + 1 : history'[k] = history[k]
       /\ history'[N + 2] = t
  BY <1>3, <1>5
<1>12. \A k \in 1..N + 2 : Good(history'[k])
  <2>1. \A k \in 1..N + 1 : Good(history[k])
    BY DEF WorldInv, N
  <2> QED BY <1>1, <1>10, <1>11, <2>1
<1>13. \A k \in 1..N + 1 : history'[k + 1] = Onwards(chain'[k].does, history'[k], build')
  <2> TAKE k \in 1..N + 1
  <2>1. CASE k = N + 1
    BY <1>1, <1>6, <1>8, <1>9, <1>11, <2>1
  <2>2. CASE k \in 1..N
    <3>1. history[k + 1] = Onwards(chain[k].does, history[k], build)
      BY <2>2 DEF WorldInv, N
    <3>2. k \in 1..N + 1 /\ k + 1 \in 1..N + 1
      BY <1>1, <2>2
    <3>3. history'[k + 1] = history[k + 1] /\ history'[k] = history[k] /\ chain'[k] = chain[k]
      BY <1>8, <1>11, <2>2, <3>2
    <3> HIDE DEF t, s
    <3> QED BY <1>9, <3>1, <3>3
  <2> QED BY <1>1, <2>1, <2>2
<1>14. \A j, k \in 1..N + 2 : j <= k => Extended(history'[j], history'[k])
  <2> TAKE j, k \in 1..N + 2
  <2> HAVE j <= k
  <2>1. \A m, n \in 1..N + 1 : m <= n => Extended(history[m], history[n])
    BY DEF WorldInv, N
  <2>2. CASE k \in 1..N + 1
    BY <1>1, <1>11, <2>1, <2>2
  <2>3. CASE k = N + 2 /\ j = N + 2
    BY <2>3, ExtendedReflexive
  <2>4. CASE k = N + 2 /\ j \in 1..N + 1
    <3>1. Extended(history[j], history[N + 1])
      BY <1>1, <2>1, <2>4
    <3>2. Extended(history[j], t)
      BY <1>10, <3>1, ExtendedTransitive DEF N
    <3> QED BY <1>11, <2>4, <3>2
  <2> QED BY <1>1, <2>2, <2>3, <2>4
<1>15. ASSUME NEW a \in DOMAIN history'[N + 2].code
       PROVE  \E n \in 1..N + 1 : Created(a, n)'
  <2>1. CASE a \in DOMAIN s.code
    <3>1. PICK n \in 1..N : Created(a, n)
      BY <2>1 DEF WorldInv, N
    <3>2. n \in 1..N + 1 /\ n + 1 \in 1..N + 1
      BY <1>1
    <3>3. Created(a, n)'
      BY <1>8, <1>11, <3>1, <3>2 DEF Created
    <3> QED BY <3>2, <3>3
  <2>2. CASE a \notin DOMAIN s.code
    <3>1. PICK n : n = N + 1
      OBVIOUS
    <3>2. n \in 1..N + 1 /\ history'[n] = s /\ n + 1 = N + 2
      BY <1>1, <1>11, <3>1 DEF N
    <3>3. Created(a, n)'
      BY <1>8, <1>15, <2>2, <3>1, <3>2 DEF Created
    <3> QED BY <3>2, <3>3
  <2> QED BY <2>1, <2>2
<1>16. Len(chain') + 1 = N + 2
  BY <1>1, <1>8
<1> HIDE DEF t, s
<1> QED BY <1>8, <1>9, <1>11, <1>12, <1>13, <1>14, <1>15, <1>16 DEF WorldInv

(* The block of n begins with m, and edb can replay it. *)
Starts(m, n) ==
  /\ m \in 1..n /\ (m = 1 \/ chain[m].opens_block)
  /\ \A k \in (m + 1)..n : ~chain[k].opens_block

Clear(n) == \E m \in 1..n : Starts(m, n) /\ \A k \in m..n : chain[k].does # "system"

(* Where prepare stands, and what it has decided of the contracts it has seen. *)
StageInv ==
  /\ stage \in {"mining", "forking", "replayed", "recompiled", "captured", "failed", "linking"}
  /\ stage \in {"forking", "replayed", "recompiled", "captured"} => chain # <<>>
  /\ replaying # <<>> => stage = "forking" \/ tweaking # NoOne
  /\ tweaking # NoOne =>
       stage = "recompiled" /\ tweaking \in artifacts /\ tweaking \notin untweaked /\ ~Created(tweaking, Len(chain))
  /\ stage \in {"mining", "forking"} => artifacts = {}
  /\ stage \in {"mining", "forking", "replayed"} => untweaked = {} /\ contracts_in_tx = {}
  /\ artifacts \subseteq DOMAIN history[Len(chain) + 1].code
  /\ untweaked \subseteq artifacts
  /\ \A a \in contracts_in_tx : a \in artifacts /\ Created(a, Len(chain))
  /\ stage = "recompiled" =>
       \A a \in artifacts \ (untweaked \union {tweaking}) : Created(a, Len(chain)) => a \in contracts_in_tx

(* A fork for n is as far as the chain was when what is left to replay ran. *)
ForkFor(n) ==
  ~quick /\ Clear(n) =>
    \E m \in 1..n : /\ fork = history[m] /\ replaying = [k \in 1..(n - m) |-> m + k - 1]
                    /\ \A k \in m..n : chain[k].does # "system"

ForkInv ==
  /\ stage = "forking" => ForkFor(Len(chain))
  /\ \A n \in 1..Len(chain) : tweaking # NoOne /\ Created(tweaking, n) => ForkFor(n)

(* The state in front of the transaction, its calls, and what was replaced. *)
Now == history[Len(chain)]
OnChainRun == Ran(chain[Len(chain)].does, Now, build)
Done == IF stage = "recompiled" THEN artifacts \ (untweaked \union {tweaking}) ELSE {}

(* The state of the fork is that one, but for the code that was replaced, and
   only what ran on the chain is. *)
CtxInv ==
  stage \in {"replayed", "recompiled"} /\ ~quick /\ Clear(Len(chain)) =>
    /\ ctx = [nonce |-> Now.nonce, code |-> ctx.code, cell |-> Now.cell, token |-> Now.token, factory |-> Now.factory]
    /\ ctx.code = [a \in DOMAIN Now.code |-> ctx.code[a]]
    /\ \A a \in DOMAIN Now.code : a \notin Done => ctx.code[a] = Now.code[a]
    /\ \A a \in DOMAIN Now.code, n \in 1..Len(chain) :
         a \in Done /\ Created(a, n) /\ Clear(n) => ctx.code[a] = [Now.code[a] EXCEPT !.by = a]
    /\ visited \union artifacts \subseteq Visited(OnChainRun)

(* What is shown of call n, and when it has to be. *)
Shown(n) ==
  /\ n \in DOMAIN calls
  /\ calls[n] = [OnChainRun[n] EXCEPT !.code.by = IF OnChainRun[n].at \in artifacts THEN OnChainRun[n].at ELSE @]

Claimed(n) ==
  /\ \A j \in 1..Len(chain) : Created(OnChainRun[n].at, j) => Clear(j)
  /\ OnChainRun[n].is = "creation" =>
       /\ OnChainRun[n].at \in artifacts => listed /\ build = "same"
       /\ \A m \in 1..(n - 1) : OnChainRun[m].at \notin artifacts

CaptureInv ==
  stage = "captured" /\ ~quick /\ Clear(Len(chain)) => \A n \in DOMAIN OnChainRun : Claimed(n) => Shown(n)

LEMMA ChainLength ==
  ASSUME WorldInv
  PROVE  Len(chain) \in Nat
BY DEF WorldInv

(* CreationTx and BlockOf choose what the invariant speaks of. *)
LEMMA CreationTxIs ==
  ASSUME WorldInv, NEW a, NEW j, Created(a, j)
  PROVE  CreationTx(a) = j
<1> DEFINE P(n) == a \in DOMAIN StateAt(n).code /\ a \notin DOMAIN StateAt(n - 1).code
<1>1. \A n \in 1..Len(chain) : P(n) <=> Created(a, n)
  <2> TAKE n \in 1..Len(chain)
  <2>1. n - 1 + 1 = n
    BY ChainLength
  <2>2. StateAt(n - 1) = history[n] /\ StateAt(n) = history[n + 1]
    BY <2>1 DEF StateAt
  <2> QED BY <2>2 DEF Created
<1>2. CreationTx(a) = CHOOSE n \in 1..Len(chain) : P(n)
  BY DEF CreationTx, Target
<1> HIDE DEF P
<1>3. j \in 1..Len(chain) /\ P(j)
  BY <1>1 DEF Created
<1>4. \A n \in 1..Len(chain) : P(n) => n = j
  BY <1>1, CreatedUnique
<1> QED BY <1>2, <1>3, <1>4

LEMMA WhereCreated ==
  ASSUME WorldInv, NEW a \in DOMAIN OnChain
  PROVE  CreationTx(a) \in 1..Len(chain) /\ Created(a, CreationTx(a))
<1>1. PICK j \in 1..Len(chain) : Created(a, j)
  BY DEF WorldInv, OnChain, StateAt, Target
<1> QED BY <1>1, CreationTxIs

LEMMA BlockOfIs ==
  ASSUME NEW n \in Nat, NEW m, Starts(m, n)
  PROVE  BlockOf(n) = m
<1> DEFINE S == {k \in 1..n : k = 1 \/ chain[k].opens_block}
<1>1. m \in S /\ S \subseteq Nat
  BY DEF Starts
<1>2. \A k \in S : m >= k
  <2> SUFFICES ASSUME NEW k \in S, ~(m >= k) PROVE FALSE
    OBVIOUS
  <2>1. k \in m + 1..n /\ k # 1
    BY <1>1
  <2> QED BY <2>1 DEF Starts
<1> HIDE DEF S
<1>3. \A k \in S : (\A l \in S : k >= l) => k = m
  BY <1>1, <1>2
<1>4. Max(S) = m
  BY <1>1, <1>2, <1>3 DEF Max
<1> QED BY <1>4 DEF BlockOf, S

LEMMA MinFacts ==
  ASSUME NEW T \in SUBSET Nat, T # {}
  PROVE  Min(T) \in T /\ \A y \in T : Min(T) <= y
<1> DEFINE R == {ss \in Nat \X Nat : ss[1] < ss[2]}
<1>1. IsWellFoundedOn(R, Nat)
  BY NatLessThanWellFounded DEF OpToRel
<1>2. PICK x \in T : \A y \in T : <<y, x>> \notin R
  <2> HIDE DEF R
  <2> QED
    BY <1>1, WFMin
<1>3. ASSUME NEW y \in T PROVE x <= y
  <2>1. x \in Nat /\ y \in Nat /\ <<y, x>> \notin R
    BY <1>2
  <2>2. ~(y < x)
    BY <2>1
  <2> QED
    BY <2>1, <2>2
<1> QED
  BY <1>3 DEF Min

LEMMA MaxFacts ==
  ASSUME NEW T \in SUBSET Nat, T # {}, NEW n \in Nat, \A y \in T : y <= n
  PROVE  Max(T) \in T /\ \A y \in T : y <= Max(T)
<1> DEFINE B == {b \in Nat : \A y \in T : y <= b}
           m == Min(B)
<1>1. B \in SUBSET Nat /\ B # {}
  OBVIOUS
<1>2. m \in B /\ \A b \in B : m <= b
  <2> HIDE DEF B
  <2> QED
    BY <1>1, MinFacts
<1>3. m \in Nat /\ \A y \in T : y <= m
  BY <1>2
<1>4. m \in T
  <2>1. SUFFICES ASSUME m \notin T PROVE FALSE
    OBVIOUS
  <2>2. PICK y \in T : TRUE
    OBVIOUS
  <2> HIDE DEF m
  <2>3. \A z \in T : z \in Nat /\ z < m
    BY <1>3, <2>1
  <2>4. m - 1 \in Nat /\ \A z \in T : z <= m - 1
    BY <1>3, <2>2, <2>3
  <2>5. m - 1 \in B
    BY <2>4
  <2> QED
    BY <1>2, <1>3, <2>5
<1> HIDE DEF m, B
<1>5. \A y \in T : m >= y
  BY <1>3
<1>6. \E x \in T : \A y \in T : x >= y
  BY <1>4, <1>5
<1>7. Max(T) \in T /\ \A y \in T : Max(T) >= y
  BY <1>6 DEF Max
<1> QED
  BY <1>7

LEMMA BlockStarts ==
  ASSUME WorldInv, NEW n \in 1..Len(chain)
  PROVE  Starts(BlockOf(n), n)
<1> DEFINE S == {k \in 1..n : k = 1 \/ chain[k].opens_block}  m == BlockOf(n)
<1>1. n \in Nat /\ 1 <= n
  BY ChainLength
<1>2. S \in SUBSET Nat /\ 1 \in S /\ \A y \in S : y <= n
  BY <1>1
<1>3. m = Max(S)
  BY DEF BlockOf
<1> HIDE DEF m
<1>4. m \in S /\ \A y \in S : y <= m
  <2> HIDE DEF S
  <2>1. S # {}
    BY <1>2
  <2> QED BY <1>1, <1>2, <1>3, <2>1, MaxFacts
<1>5. \A k \in (m + 1)..n : ~chain[k].opens_block
  <2> SUFFICES ASSUME NEW k \in (m + 1)..n, chain[k].opens_block PROVE FALSE
    OBVIOUS
  <2>1. k \in S /\ ~(k <= m)
    BY <1>1, <1>4
  <2> QED BY <1>4, <2>1
<1> QED BY <1>4, <1>5 DEF Starts, m

LEMMA ReplayableClear ==
  ASSUME WorldInv, NEW n \in 1..Len(chain), \A k \in BlockOf(n)..n : ~IsSystem(k)
  PROVE  Clear(n)
<1>1. Starts(BlockOf(n), n)
  BY BlockStarts
<1>2. BlockOf(n) \in 1..n
  BY <1>1 DEF Starts
<1> QED BY <1>1, <1>2 DEF Clear, IsSystem

(* fork_and_prepare starts in front of the block of the transaction. *)
LEMMA ForkStarts ==
  ASSUME WorldInv, NEW n \in 1..Len(chain), StartFork(n), UNCHANGED worldVars
  PROVE  ForkFor(n)'
<1>1. SUFFICES ASSUME ~quick, NEW m \in 1..n, Starts(m, n), \A k \in m..n : chain[k].does # "system"
               PROVE  /\ fork' = history[m] /\ replaying' = [k \in 1..(n - m) |-> m + k - 1]
  <2>1. chain' = chain /\ quick' = quick /\ history' = history
    BY DEF worldVars
  <2> QED BY <2>1 DEF ForkFor, Clear, Starts
<1>2. n \in Nat /\ m \in Nat /\ m - 1 + 1 = m
  BY ChainLength
<1>3. BlockOf(n) = m
  BY <1>1, <1>2, BlockOfIs
<1>4. StateAt(m - 1) = history[m]
  BY <1>2 DEF StateAt
<1> QED BY <1>1, <1>3, <1>4 DEF StartFork

(* and replays the transactions of the block one after the other. *)
LEMMA ForkReplays ==
  ASSUME WorldInv, NEW n \in 1..Len(chain), ForkFor(n), TransactCommit
  PROVE  ForkFor(n)'
<1>1. SUFFICES ASSUME ~quick, Clear(n)
               PROVE  \E m \in 1..n : /\ fork' = history[m] /\ replaying' = [k \in 1..(n - m) |-> m + k - 1]
                                      /\ \A k \in m..n : chain[k].does # "system"
  <2>1. chain' = chain /\ quick' = quick /\ history' = history
    BY DEF TransactCommit, worldVars
  <2> QED BY <2>1 DEF ForkFor, Clear, Starts
<1>2. PICK m \in 1..n : /\ fork = history[m] /\ replaying = [k \in 1..(n - m) |-> m + k - 1]
                        /\ \A k \in m..n : chain[k].does # "system"
  BY <1>1 DEF ForkFor
<1>3. n \in Nat /\ n <= Len(chain) /\ Len(chain) \in Nat /\ m \in Nat /\ 1 <= m /\ m <= n
  BY ChainLength
<1>4. replaying # <<>>
  BY DEF TransactCommit
<1>5. n - m >= 1
  <2>1. SUFFICES ASSUME n - m = 0 PROVE FALSE
    BY <1>3
  <2>2. replaying = <<>>
    BY <1>2, <2>1
  <2> QED BY <1>4, <2>2
<1>6. /\ Head(replaying) = m
      /\ Tail(replaying) = [k \in 1..(n - (m + 1)) |-> (m + 1) + k - 1]
  <2>1. replaying \in Seq(Nat) /\ Len(replaying) = n - m
    BY <1>2, <1>3, <1>5
  <2>2. Head(replaying) = m
    BY <1>2, <1>3, <1>5, <2>1
  <2> DEFINE tail == Tail(replaying)
  <2>3. tail \in Seq(Nat) /\ Len(tail) = n - m - 1 /\ \A k \in 1..(n - m - 1) : tail[k] = replaying[k + 1]
    BY <1>3, <1>4, <1>5, <2>1, HeadTailProperties
  <2> HIDE DEF tail
  <2>4. \A k \in 1..(n - m - 1) : tail[k] = (m + 1) + k - 1
    <3> TAKE k \in 1..(n - m - 1)
    <3>1. k \in Nat /\ k + 1 \in 1..(n - m)
      BY <1>3
    <3>2. replaying[k + 1] = m + (k + 1) - 1
      BY <1>2, <3>1
    <3>3. tail[k] = replaying[k + 1]
      BY <2>3
    <3> QED BY <1>3, <3>1, <3>2, <3>3
  <2>5. tail = [k \in 1..(n - (m + 1)) |-> (m + 1) + k - 1]
    BY <1>3, <2>3, <2>4
  <2> QED BY <2>2, <2>5 DEF tail
<1>7. ~IsSystem(m)
  <2>1. m \in m..n
    BY <1>3
  <2> QED BY <1>2, <2>1 DEF IsSystem
<1>8. fork' = Onwards(chain[m].does, history[m], build)
  BY <1>2, <1>6, <1>7 DEF TransactCommit, Onwards, Ran
<1>9. m \in 1..Len(chain) /\ m + 1 \in 1..n
  BY <1>3, <1>5
<1>10. fork' = history[m + 1]
  BY <1>8, <1>9 DEF WorldInv
<1>11. replaying' = [k \in 1..(n - (m + 1)) |-> (m + 1) + k - 1]
  BY <1>6 DEF TransactCommit
<1>12. \A k \in m + 1..n : chain[k].does # "system"
  BY <1>2, <1>3
<1> QED BY <1>9, <1>10, <1>11, <1>12

(* Once it has, the fork is the state in front of the transaction. *)
LEMMA ForkDone ==
  ASSUME WorldInv, NEW n \in 1..Len(chain), ForkFor(n), ~quick, Clear(n), replaying = <<>>
  PROVE  fork = history[n]
<1>1. PICK m \in 1..n : fork = history[m] /\ replaying = [k \in 1..(n - m) |-> m + k - 1]
  BY DEF ForkFor
<1>2. n \in Nat /\ m \in Nat /\ m <= n
  BY ChainLength
<1>3. SUFFICES ASSUME n - m >= 1 PROVE FALSE
  BY <1>1, <1>2
<1>4. 1 \in DOMAIN replaying
  BY <1>1, <1>2, <1>3
<1> QED BY <1>4
-----------------------------------------------------------------------------
(* The code that is put in the place of another, and the hooks of creations. *)
(* Where as many arguments are found as the constructor takes, they are its own. *)
LEMMA Arguments ==
  ASSUME NEW s, NEW built \in Builds, NEW c, IsCreation(c, s, built), NEW args \in {<<>>, c[2].args},
         NEW got, got = ExtractConstructorArgs(c[2].contract, args, c[2]), Len(got) >= Inputs(c[2].contract)
  PROVE  got = c[2].args
<1> DEFINE init == c[2]  x == init.args[1]
<1>1. init.build = built
  BY DEF IsCreation
<1>2. CASE Inputs(init.contract) = 0 /\ init.args = <<>>
  <2>1. args = <<>>
    BY <1>2
  <2>2. got = args
    BY <1>2 DEF ExtractConstructorArgs
  <2> QED BY <1>2, <2>1, <2>2
<1>3. CASE Inputs(init.contract) = 1 /\ init.args = <<x>>
  <2>1. CASE args = init.args
    <3>1. args # <<>>
      BY <1>3, <2>1
    <3>2. got = args
      BY <3>1 DEF ExtractConstructorArgs
    <3> QED BY <2>1, <3>2
  <2>2. CASE args = <<>>
    <3>1. got \in {<<>>, <<x>>}
      BY <1>1, <1>3, <2>2, ExtractedArgument
    <3>2. Len(<<>>) = 0
      OBVIOUS
    <3> QED BY <1>3, <3>1, <3>2
  <2> QED BY <2>1, <2>2
<1> QED BY <1>2, <1>3 DEF IsCreation

(* TweakInspector gives the code the chain has, instrumented. *)
LEMMA TweakedCode ==
  ASSUME NEW s, NEW built \in Builds, NEW c, IsCreation(c, s, built),
         NEW inspector, inspector.target = At(c, s), inspector.contract = c[2].contract,
         inspector.args \in {<<>>, c[2].args}, Creating(c, s, inspector).done
  PROVE  Creating(c, s, inspector).code = [PlainCode(c, s) EXCEPT !.by = At(c, s)]
<1> DEFINE a == At(c, s)  contract == c[2].contract  got == ExtractConstructorArgs(contract, inspector.args, c[2])
           made == Creating(c, s, inspector)  init == [contract |-> contract, build |-> "same", by |-> a, args |-> got]
<1>1. Intercepted(a, c[2], inspector) = init
  BY DEF Intercepted, FullInitCode
<1>2. made = [at |-> a, is |-> "creation", done |-> Len(init.args) >= Inputs(init.contract) /\ a \notin DOMAIN s.code,
              code |-> IF Len(init.args) >= Inputs(init.contract) /\ a \notin DOMAIN s.code
                         THEN [contract |-> init.contract, by |-> init.by, args |-> init.args, seen |-> s.cell] ELSE NoCode]
  BY <1>1 DEF Creating, CreationCall, At
<1> HIDE DEF made, got, a
<1>3. made.done
  BY DEF made
<1>4. Len(got) >= Inputs(contract) /\ made.code = [contract |-> contract, by |-> a, args |-> got, seen |-> s.cell]
  BY <1>2, <1>3
<1>5. got = c[2].args
  BY <1>4, Arguments DEF got
<1>6. made.code = [PlainCode(c, s) EXCEPT !.by = a]
  BY <1>4, <1>5 DEF PlainCode
<1> QED BY <1>6 DEF made, a

LEMMA HookedAs ==
  ASSUME NEW init, NEW hooks, NEW a, \A h \in hooks : h.by = a,
         \E h \in hooks : h.contract = init.contract /\ h.args = init.args,
         init.build = "same", init.by = NoOne
  PROVE  Hooked(init, hooks) = [init EXCEPT !.by = a]
<1> DEFINE matching == {h.by : h \in {g \in hooks : /\ g.contract = init.contract /\ g.args = init.args
                                                    /\ init.build = "same" /\ init.by = NoOne}}
<1>1. matching = {a}
  OBVIOUS
<1>2. Hooked(init, hooks) = IF matching = {} THEN init ELSE [init EXCEPT !.by = CHOOSE by \in matching : TRUE]
  BY DEF Hooked
<1> HIDE DEF matching
<1> QED BY <1>1, <1>2

LEMMA CallBy ==
  ASSUME NEW at, NEW is, NEW done, NEW code, NEW call, call = [at |-> at, is |-> is, done |-> done, code |-> code], NEW a
  PROVE  [call EXCEPT !.code.by = a] = [at |-> at, is |-> is, done |-> done, code |-> [code EXCEPT !.by = a]]
OBVIOUS

(* What the last run creates at an address that has hooks, or not. *)
LEMMA HookedCode ==
  ASSUME NEW s, Good(s), NEW built, NEW c, IsCreation(c, s, built), At(c, s) \notin DOMAIN s.code,
         built = "same", NEW hooks, \A h \in hooks : h.by = At(c, s),
         \E h \in hooks : h.contract = c[2].contract /\ h.args = c[2].args
  PROVE  Creating(c, s, WithCreationHooks(hooks)) =
           [Creating(c, s, NoInspector) EXCEPT !.code.by = At(c, s)]
<1> DEFINE a == At(c, s)  made == Creating(c, s, WithCreationHooks(hooks))  inspector == WithCreationHooks(hooks)
           init == [c[2] EXCEPT !.by = a]  plain == Creating(c, s, NoInspector)
<1>1. inspector.target = NoOne /\ inspector.hooks = hooks
  BY DEF WithCreationHooks, NoInspector
<1>2. a # NoOne
  BY AddressFacts
<1>3. c[2] = [contract |-> c[2].contract, by |-> NoOne, build |-> built, args |-> c[2].args]
  BY DEF IsCreation
<1>4. c[2].build = "same" /\ c[2].by = NoOne
  BY <1>3
<1>5. Hooked(c[2], hooks) = init
  BY <1>4, HookedAs
<1> HIDE DEF inspector
<1>6. Intercepted(a, c[2], inspector) = init
  BY <1>1, <1>2, <1>5 DEF Intercepted
<1>7. init.contract = c[2].contract /\ init.by = a /\ init.args = c[2].args
  BY <1>3
<1> HIDE DEF init
<1>8. made = [at |-> a, is |-> "creation", done |-> Len(init.args) >= Inputs(init.contract) /\ a \notin DOMAIN s.code,
              code |-> IF Len(init.args) >= Inputs(init.contract) /\ a \notin DOMAIN s.code
                         THEN [contract |-> init.contract, by |-> init.by, args |-> init.args, seen |-> s.cell] ELSE NoCode]
  BY <1>6 DEF Creating, CreationCall, At, inspector
<1>9. Len(init.args) >= Inputs(init.contract) /\ a \notin DOMAIN s.code
  BY <1>7, EnoughArguments
<1>10. made = [at |-> a, is |-> "creation", done |-> TRUE,
               code |-> [contract |-> c[2].contract, by |-> a, args |-> c[2].args, seen |-> s.cell]]
  BY <1>7, <1>8, <1>9
<1>11. plain.at = a /\ plain.is = "creation" /\ plain.done /\ plain.code = PlainCode(c, s)
       /\ plain = [at |-> plain.at, is |-> "creation", done |-> plain.done, code |-> plain.code]
  <2>1. plain.done <=> a \notin DOMAIN s.code
    BY PlainCreation
  <2> QED BY <2>1, PlainCreation
<1> HIDE DEF plain, made, a
<1>12. [plain EXCEPT !.code.by = a] =
         [at |-> a, is |-> "creation", done |-> plain.done, code |-> [PlainCode(c, s) EXCEPT !.by = a]]
  <2> DEFINE done == plain.done  code == PlainCode(c, s)
  <2>1. plain = [at |-> a, is |-> "creation", done |-> done, code |-> code]
    BY <1>11
  <2> HIDE DEF done, code
  <2>2. [plain EXCEPT !.code.by = a] = [at |-> a, is |-> "creation", done |-> done, code |-> [code EXCEPT !.by = a]]
    BY <2>1, CallBy
  <2> QED BY <2>2 DEF done, code
<1>13. plain.done = TRUE
  BY <1>8, <1>11
<1>14. [PlainCode(c, s) EXCEPT !.by = a] = [contract |-> c[2].contract, by |-> a, args |-> c[2].args, seen |-> s.cell]
  BY DEF PlainCode
<1>15. made = [plain EXCEPT !.code.by = a]
  BY <1>10, <1>12, <1>13, <1>14
<1> QED BY <1>15 DEF made, plain, a

LEMMA NoHooks ==
  ASSUME NEW s, Good(s), NEW built, NEW c, IsCreation(c, s, built)
  PROVE  Creating(c, s, WithCreationHooks({})) = Creating(c, s, NoInspector)
<1>1. ASSUME NEW t, NEW contract, NEW args, NEW hooks, NEW r,
             r = [target |-> t, contract |-> contract, args |-> args, hooks |-> hooks]
      PROVE  [r EXCEPT !.hooks = hooks] = r
  BY <1>1
<1>2. NoInspector = [target |-> NoOne, contract |-> "none", args |-> <<>>, hooks |-> {}]
  BY DEF NoInspector
<1>3. [NoInspector EXCEPT !.hooks = {}] = NoInspector
  BY <1>1, <1>2
<1>4. WithCreationHooks({}) = NoInspector
  BY <1>3 DEF WithCreationHooks
<1> QED BY <1>4

(* What the chain has at an address is what one transaction created there. *)
LEMMA CreatedCode ==
  ASSUME WorldInv, NEW a, NEW j, Created(a, j)
  PROVE  \E c : /\ Creations(chain[j].does, history[j], build) = {c} /\ IsCreation(c, history[j], build)
                /\ a = At(c, history[j]) /\ a \notin DOMAIN history[j].code /\ Good(history[j])
                /\ a \in DOMAIN OnChain /\ OnChain[a] = PlainCode(c, history[j])
<1> DEFINE s == history[j]  t == history[j + 1]
<1>1. Len(chain) \in Nat /\ j \in 1..Len(chain) /\ a \in DOMAIN t.code /\ a \notin DOMAIN s.code
  BY ChainLength DEF Created
<1>2. j \in 1..Len(chain) + 1 /\ j + 1 \in 1..Len(chain) + 1 /\ Len(chain) + 1 \in 1..Len(chain) + 1 /\ j + 1 <= Len(chain) + 1
  BY <1>1
<1>3. Good(s) /\ t = Onwards(chain[j].does, s, build)
  BY <1>1, <1>2 DEF WorldInv
<1>4. Extended(t, history[Len(chain) + 1])
  BY <1>2 DEF WorldInv
<1> HIDE DEF s, t
<1> DEFINE does == chain[j].does
<1> HIDE DEF does
<1>5. PICK c : Only(c, does, s, build) /\ a = At(c, s) /\ t.code[a] = PlainCode(c, s)
  <2>1. t = Onwards(does, s, build)
    BY <1>3 DEF does
  <2>2. a \in DOMAIN Onwards(does, s, build).code
    BY <1>1, <2>1
  <2>3. PICK c : Only(c, does, s, build) /\ a = At(c, s) /\ Onwards(does, s, build).code[a] = PlainCode(c, s)
    BY <1>1, <1>3, <2>2, NewCode
  <2> QED BY <2>1, <2>3
<1>6. a \in DOMAIN OnChain /\ OnChain[a] = t.code[a]
  BY <1>1, <1>4 DEF Extended, OnChain, StateAt, Target
<1> QED BY <1>1, <1>3, <1>5, <1>6 DEF s, does, Only

(* What is there before the transaction is there after it. *)
LEMMA CodeBefore ==
  ASSUME WorldInv, chain # <<>>
  PROVE  /\ Good(Now)
         /\ \A a \in DOMAIN Now.code : a \in DOMAIN OnChain /\ OnChain[a] = Now.code[a] /\ ~Created(a, Len(chain))
         /\ \A a \in DOMAIN OnChain : a \in DOMAIN Now.code \/ Created(a, Len(chain))
<1> DEFINE N == Len(chain)
<1>1. N \in Nat /\ N # 0
  <2>1. N \in Nat
    BY ChainLength
  <2>2. N = 0 => chain = <<>>
    BY DEF WorldInv
  <2> QED BY <2>1, <2>2
<1>2. N \in 1..N + 1 /\ N + 1 \in 1..N + 1 /\ N <= N + 1 /\ N \in 1..N
  BY <1>1
<1>3. Good(history[N]) /\ Extended(history[N], history[N + 1])
  BY <1>2 DEF WorldInv
<1> QED BY <1>2, <1>3 DEF Extended, OnChain, StateAt, Target, Now, Created

(* What InsertCode inserts *)
Inserts(a, j, inspector, run, n) ==
  /\ Created(a, j) /\ fork = history[j]
  /\ inspector.target = a /\ inspector.contract = OnChain[a].contract /\ inspector.args = ListedArgs(a)
  /\ run = CallsOf(chain[j].does, fork, inspector, build)
  /\ n \in DOMAIN run /\ run[n].at = a /\ run[n].done

LEMMA InsertedCode ==
  ASSUME WorldInv, NEW a, NEW j, NEW inspector, NEW run, NEW n, Inserts(a, j, inspector, run, n)
  PROVE  run[n].code = [OnChain[a] EXCEPT !.by = a]
<1> DEFINE s == history[j]  does == chain[j].does
<1>1. PICK c : /\ Creations(does, s, build) = {c} /\ IsCreation(c, s, build)
               /\ a = At(c, s) /\ a \notin DOMAIN s.code /\ Good(s)
               /\ a \in DOMAIN OnChain /\ OnChain[a] = PlainCode(c, s)
  BY CreatedCode DEF Inserts
<1> DEFINE k == Called(does, s)
<1>2. /\ DOMAIN run = 1..(k + IF Creations(does, s, build) = {} THEN 0 ELSE 1)
      /\ k = 1 => run[1] = CallTo(does, s)
      /\ Creations(does, s, build) = {c} => run[k + 1] = Creating(c, s, inspector)
  <2>1. Creations(does, s, build) = {c}
    BY <1>1
  <2>3. run = CallsOf(does, s, inspector, build)
    BY DEF Inserts
  <2> HIDE DEF s, does, k
  <2>2. /\ DOMAIN CallsOf(does, s, inspector, build) =
              1..(Called(does, s) + IF Creations(does, s, build) = {} THEN 0 ELSE 1)
        /\ Called(does, s) = 1 => CallsOf(does, s, inspector, build)[1] = CallTo(does, s)
        /\ Creations(does, s, build) = {c} =>
              CallsOf(does, s, inspector, build)[Called(does, s) + 1] = Creating(c, s, inspector)
    BY <2>1, RunShape
  <2> QED BY <2>2, <2>3 DEF k
<1>3. k \in {0, 1} /\ (k = 1 => Callee(does, s) \in DOMAIN s.code)
  BY DEF Called
<1>4. CallTo(does, s).at = Callee(does, s)
  BY DEF CallTo
<1>5. (IF Creations(does, s, build) = {} THEN 0 ELSE 1) = 1
  <2>1. {c} # {}
    OBVIOUS
  <2> QED BY <1>1, <2>1
<1>6. n \in DOMAIN run /\ run[n].at = a /\ run[n].done
  BY DEF Inserts
<1> HIDE DEF k
<1>7. n = k + 1 /\ run[n] = Creating(c, s, inspector)
  BY <1>1, <1>2, <1>3, <1>4, <1>5, <1>6
<1>8. build \in Builds
  BY DEF WorldInv
<1>9. inspector.args \in {<<>>, c[2].args} /\ inspector.contract = c[2].contract
  BY <1>1 DEF ListedArgs, PlainCode, Inserts
<1>10. run[n].code = [PlainCode(c, s) EXCEPT !.by = At(c, s)]
  <2>1. Creating(c, s, inspector).done
    BY <1>6, <1>7
  <2>2. inspector.target = At(c, s)
    BY <1>1 DEF Inserts
  <2> QED BY <1>1, <1>7, <1>8, <1>9, <2>1, <2>2, TweakedCode
<1>11. run[n].code = [OnChain[a] EXCEPT !.by = a]
  BY <1>1, <1>10
<1> QED BY <1>11

(* In a state of which only code was replaced, the same is created. *)
LEMMA CreationsLike ==
  ASSUME NEW does, NEW s, NEW t, NEW built, t.nonce = s.nonce, t.factory = s.factory, DOMAIN t.code = DOMAIN s.code,
         does \in {"produce", "produce_salted"} /\ s.factory \in DOMAIN s.code => t.code[s.factory] = s.code[s.factory]
  PROVE  Creations(does, t, built) = Creations(does, s, built)
<1>1. CASE does \in {"produce", "produce_salted"} /\ s.factory \in DOMAIN s.code
  <2>1. t.factory \in DOMAIN t.code /\ t.nonce[t.factory] = s.nonce[s.factory] /\ t.code[t.factory] = s.code[s.factory]
    BY <1>1
  <2> QED BY <1>1, <2>1 DEF Creations
<1>2. CASE does = "deploy_token"
  BY <1>2 DEF Creations
<1>3. CASE does = "deploy_factory"
  BY <1>3 DEF Creations
<1>4. CASE /\ does # "deploy_token" /\ does # "deploy_factory"
           /\ ~(does \in {"produce", "produce_salted"} /\ s.factory \in DOMAIN s.code)
  <2>1. ~(does \in {"produce", "produce_salted"} /\ t.factory \in DOMAIN t.code)
    BY <1>4
  <2> QED BY <1>4, <2>1 DEF Creations
<1> QED BY <1>1, <1>2, <1>3, <1>4

LEMMA CreationsAny ==
  ASSUME NEW does, NEW s, NEW built
  PROVE  \E c : Creations(does, s, built) = {} \/ Creations(does, s, built) = {c}
<1>1. CASE does \in {"produce", "produce_salted"} /\ s.factory \in DOMAIN s.code
  BY <1>1 DEF Creations
<1>2. CASE does = "deploy_token"
  BY <1>2 DEF Creations
<1>3. CASE does = "deploy_factory"
  BY <1>3 DEF Creations
<1>4. CASE /\ does # "deploy_token" /\ does # "deploy_factory"
           /\ ~(does \in {"produce", "produce_salted"} /\ s.factory \in DOMAIN s.code)
  BY <1>4 DEF Creations
<1> QED BY <1>1, <1>2, <1>3, <1>4

LEMMA SameBy ==
  ASSUME NEW at, NEW is, NEW done, NEW code, code = CodeRecord(code),
         NEW call, call = [at |-> at, is |-> is, done |-> done, code |-> code]
  PROVE  [call EXCEPT !.code.by = call.code.by] = call
<1>1. [code EXCEPT !.by = code.by] = code
  BY DEF CodeRecord
<1>2. call.code = code
  OBVIOUS
<1> QED BY <1>1, <1>2, CallBy

(* A call of the last run finds the code that was put there. *)
LEMMA CalledCode ==
  ASSUME NEW does, NEW s, Good(s), NEW t, t.token = s.token, t.factory = s.factory, DOMAIN t.code = DOMAIN s.code,
         NEW A, NEW b, b = Callee(does, s), b \in DOMAIN s.code,
         b \in A => t.code[b] = [s.code[b] EXCEPT !.by = b],
         b \notin A => t.code[b] = s.code[b]
  PROVE  CallTo(does, t) = [CallTo(does, s) EXCEPT !.code.by = IF CallTo(does, s).at \in A THEN CallTo(does, s).at ELSE @]
<1>1. Callee(does, t) = b
  BY DEF Callee
<1>2. CallTo(does, t) = [at |-> b, is |-> "call", done |-> TRUE, code |-> t.code[b]]
  BY <1>1 DEF CallTo
<1> DEFINE call == CallTo(does, s)  code == s.code[b]  yes == TRUE
<1>3. call = [at |-> b, is |-> "call", done |-> yes, code |-> code]
  BY DEF CallTo
<1>4. code = CodeRecord(code)
  BY DEF Good
<1> HIDE DEF call, code, yes
<1>5. CASE b \in A
  <2>1. [call EXCEPT !.code.by = b] = [at |-> b, is |-> "call", done |-> yes, code |-> [code EXCEPT !.by = b]]
    BY <1>3, CallBy
  <2>2. call.at = b
    BY <1>3
  <2>3. CallTo(does, t) = [call EXCEPT !.code.by = b]
    BY <1>2, <1>5, <2>1 DEF code, yes
  <2> QED BY <1>5, <2>2, <2>3 DEF call
<1>6. CASE b \notin A
  <2>1. [call EXCEPT !.code.by = call.code.by] = call
    BY <1>3, <1>4, SameBy
  <2>2. call.at = b
    BY <1>3
  <2>3. CallTo(does, t) = call
    BY <1>2, <1>3, <1>6 DEF code, yes
  <2> QED BY <1>6, <2>1, <2>2, <2>3 DEF call
<1> QED BY <1>5, <1>6

(* And what it creates is the code the transaction created. *)
LEMMA CreatingLike ==
  ASSUME NEW c, NEW s, NEW t, t.nonce = s.nonce, t.cell = s.cell, DOMAIN t.code = DOMAIN s.code, NEW inspector
  PROVE  Creating(c, t, inspector) = Creating(c, s, inspector)
BY DEF Creating

LEMMA PlainRecord ==
  ASSUME NEW s, Good(s), NEW built, NEW c, IsCreation(c, s, built)
  PROVE  [Creating(c, s, NoInspector) EXCEPT !.code.by = Creating(c, s, NoInspector).code.by] = Creating(c, s, NoInspector)
<1> DEFINE made == Creating(c, s, NoInspector)  at == made.at  done == made.done  code == made.code
<1>1. /\ done => code = PlainCode(c, s)
      /\ ~done => code = NoCode
      /\ made = [at |-> at, is |-> "creation", done |-> done, code |-> code]
  BY PlainCreation
<1>2. PlainCode(c, s) = CodeRecord(PlainCode(c, s)) /\ NoCode = CodeRecord(NoCode)
  BY DEF PlainCode, NoCode, CodeRecord
<1> HIDE DEF at, done, code, made
<1>3. code = CodeRecord(code)
  BY <1>1, <1>2
<1> QED BY <1>1, <1>3, SameBy DEF made

LEMMA HookFacts ==
  /\ \A h \in CreationHooks : h.by \in contracts_in_tx
  /\ \A a \in contracts_in_tx : \A k \in ContractsIn(OnChain[a].contract) :
       [contract |-> k, args |-> ListedArgs(a), by |-> a] \in CreationHooks
  /\ contracts_in_tx = {} => CreationHooks = {}
<1> DEFINE Of(a) == {[contract |-> k, args |-> ListedArgs(a), by |-> a] : k \in ContractsIn(OnChain[a].contract)}
<1>1. CreationHooks = UNION {Of(a) : a \in contracts_in_tx}
  BY DEF CreationHooks
<1>2. \A a : \A h \in Of(a) : h.by = a
  OBVIOUS
<1>3. \A a : \A k \in ContractsIn(OnChain[a].contract) : [contract |-> k, args |-> ListedArgs(a), by |-> a] \in Of(a)
  OBVIOUS
<1> HIDE DEF Of
<1> QED BY <1>1, <1>2, <1>3

(* RunShape, named. *)
AtMost(c, does, s, built) == Creations(does, s, built) = {} \/ Creations(does, s, built) = {c}

RunIs(c, does, s, inspector, built) ==
  /\ DOMAIN CallsOf(does, s, inspector, built) =
       1..(Called(does, s) + IF Creations(does, s, built) = {} THEN 0 ELSE 1)
  /\ Called(does, s) = 1 => CallsOf(does, s, inspector, built)[1] = CallTo(does, s)
  /\ Creations(does, s, built) = {c} =>
       CallsOf(does, s, inspector, built)[Called(does, s) + 1] = Creating(c, s, inspector)

LEMMA RunOf ==
  ASSUME NEW does, NEW s, NEW inspector, NEW built, NEW c, AtMost(c, does, s, built)
  PROVE  RunIs(c, does, s, inspector, built)
<1>1. CASE Creations(does, s, built) = {}
  BY <1>1, RunShape DEF RunIs
<1>2. CASE Creations(does, s, built) = {c}
  BY <1>2, RunShape DEF RunIs
<1> QED BY <1>1, <1>2 DEF AtMost

(* The last run shows what has to be shown. *)
LEMMA CapturedCall ==
  ASSUME WorldInv, StageInv, CtxInv, Capture, ~quick, Clear(Len(chain)),
         NEW n \in DOMAIN OnChainRun, Claimed(n)
  PROVE  /\ n \in DOMAIN calls'
         /\ calls'[n] = [OnChainRun[n] EXCEPT !.code.by =
                           IF OnChainRun[n].at \in artifacts THEN OnChainRun[n].at ELSE @]
<1> DEFINE N == Len(chain)  does == chain[N].does  s == Now  t == ctx  run == OnChainRun  k == Called(does, s)
           inspector == WithCreationHooks(CreationHooks)
<1>1. stage = "recompiled" /\ untweaked = {} /\ tweaking = NoOne /\ calls' = CallsOf(does, t, inspector, build)
  BY DEF Capture, Target
<1>2. chain # <<>> /\ artifacts \subseteq DOMAIN OnChain
  BY <1>1 DEF StageInv, OnChain, StateAt, Target
<1>3. /\ Good(s)
      /\ \A a \in DOMAIN s.code : a \in DOMAIN OnChain /\ OnChain[a] = s.code[a] /\ ~Created(a, N)
      /\ \A a \in DOMAIN OnChain : a \in DOMAIN s.code \/ Created(a, N)
  BY <1>2, CodeBefore
<1>4. \A a \in DOMAIN s.code : a \in Done <=> a \in artifacts
  <2>1. \A a \in DOMAIN s.code : a # NoOne
    BY <1>3 DEF Good
  <2>2. Done = artifacts \ {NoOne}
    BY <1>1 DEF Done
  <2> QED BY <2>1, <2>2
<1>5. /\ t = [nonce |-> s.nonce, code |-> t.code, cell |-> s.cell, token |-> s.token, factory |-> s.factory]
      /\ t.code = [a \in DOMAIN s.code |-> t.code[a]]
      /\ \A a \in DOMAIN s.code : a \notin Done => t.code[a] = s.code[a]
      /\ \A a \in DOMAIN s.code, j \in 1..N :
           a \in Done /\ Created(a, j) /\ Clear(j) => t.code[a] = [s.code[a] EXCEPT !.by = a]
      /\ artifacts \subseteq Visited(run)
  BY <1>1 DEF CtxInv
<1>6. t.nonce = s.nonce /\ t.cell = s.cell /\ t.token = s.token /\ t.factory = s.factory /\ DOMAIN t.code = DOMAIN s.code
  BY <1>5
<1>7. Callee(does, t) = Callee(does, s) /\ Called(does, t) = k
  BY <1>6 DEF Callee, Called
<1>8. k \in {0, 1} /\ (k = 1 <=> Callee(does, s) \in DOMAIN s.code)
  BY DEF Called
<1>9. CallTo(does, s).is # "creation" /\ CallTo(does, s).at = Callee(does, s)
  BY DEF CallTo
<1>10. PICK c : Creations(does, s, build) = {} \/ (Creations(does, s, build) = {c} /\ IsCreation(c, s, build))
  BY <1>3, CreationsCases
<1>11. PICK d : Creations(does, t, build) = {} \/ Creations(does, t, build) = {d}
  BY CreationsAny
<1> DEFINE size == IF Creations(does, s, build) = {} THEN 0 ELSE 1
           size2 == IF Creations(does, t, build) = {} THEN 0 ELSE 1
<1> HIDE DEF N, does, t, s, run, inspector, k
<1>12. /\ DOMAIN run = 1..(k + size)
       /\ k = 1 => run[1] = CallTo(does, s)
       /\ Creations(does, s, build) = {c} => run[k + 1] = Creating(c, s, NoInspector)
  <2>1. AtMost(c, does, s, build)
    BY <1>10 DEF AtMost
  <2>2. /\ DOMAIN CallsOf(does, s, NoInspector, build) =
              1..(Called(does, s) + IF Creations(does, s, build) = {} THEN 0 ELSE 1)
        /\ Called(does, s) = 1 => CallsOf(does, s, NoInspector, build)[1] = CallTo(does, s)
        /\ Creations(does, s, build) = {c} =>
              CallsOf(does, s, NoInspector, build)[Called(does, s) + 1] = Creating(c, s, NoInspector)
    BY <2>1, RunOf DEF RunIs
  <2>3. run = CallsOf(does, s, NoInspector, build)
    BY DEF run, OnChainRun, does, s, Now, N, Ran
  <2> QED BY <2>2, <2>3 DEF k
<1>13. /\ DOMAIN calls' = 1..(k + size2)
       /\ k = 1 => calls'[1] = CallTo(does, t)
       /\ Creations(does, t, build) = {d} => calls'[k + 1] = Creating(d, t, inspector)
  <2>1. /\ DOMAIN CallsOf(does, t, inspector, build) =
              1..(Called(does, t) + IF Creations(does, t, build) = {} THEN 0 ELSE 1)
        /\ Called(does, t) = 1 => CallsOf(does, t, inspector, build)[1] = CallTo(does, t)
        /\ Creations(does, t, build) = {d} =>
              CallsOf(does, t, inspector, build)[Called(does, t) + 1] = Creating(d, t, inspector)
    <3>1. AtMost(d, does, t, build)
      BY <1>11 DEF AtMost
    <3> QED BY <3>1, RunOf DEF RunIs
  <2> QED BY <2>1, <1>1, <1>7
<1>14. size \in {0, 1} /\ size2 \in {0, 1}
  OBVIOUS
<1>15. /\ \A j \in 1..N : Created(run[n].at, j) => Clear(j)
       /\ run[n].is = "creation" =>
            /\ run[n].at \in artifacts => listed /\ build = "same"
            /\ \A m \in 1..(n - 1) : run[m].at \notin artifacts
  BY DEF Claimed, run, N
<1>16. n \in DOMAIN run
  BY DEF run
<1> DEFINE Wanted == [run[n] EXCEPT !.code.by = IF run[n].at \in artifacts THEN run[n].at ELSE @]
<1>17. CASE k = 1 /\ n = 1
  <2> DEFINE b == Callee(does, s)
  <2>1. b \in DOMAIN s.code /\ run[n] = CallTo(does, s) /\ run[n].at = b
    BY <1>8, <1>9, <1>12, <1>17
  <2>2. b \in artifacts => t.code[b] = [s.code[b] EXCEPT !.by = b]
    <3>1. SUFFICES ASSUME b \in artifacts PROVE t.code[b] = [s.code[b] EXCEPT !.by = b]
      OBVIOUS
    <3>2. PICK j \in 1..N : Created(b, j)
      BY <1>3, <2>1 DEF WorldInv, OnChain, StateAt, Target, N
    <3> QED BY <1>4, <1>5, <1>15, <2>1, <3>1, <3>2
  <2>3. b \notin artifacts => t.code[b] = s.code[b]
    BY <1>4, <1>5, <2>1
  <2>4. CallTo(does, t) = [CallTo(does, s) EXCEPT !.code.by = IF CallTo(does, s).at \in artifacts THEN CallTo(does, s).at ELSE @]
    BY <1>3, <1>6, <2>1, <2>2, <2>3, CalledCode
  <2>5. 1 \in DOMAIN calls' /\ calls'[1] = CallTo(does, t)
    BY <1>13, <1>14, <1>17
  <2> QED BY <1>17, <2>1, <2>4, <2>5 DEF run
<1>18. CASE ~(k = 1 /\ n = 1)
  <2>1. n = k + 1 /\ size = 1
    BY <1>8, <1>12, <1>14, <1>16, <1>18
  <2>2. Creations(does, s, build) = {c} /\ IsCreation(c, s, build)
    BY <1>10, <2>1
  <2> DEFINE a == At(c, s)  made == Creating(c, s, NoInspector)
  <2>3. run[n] = made
    BY <1>12, <2>1, <2>2
  <2>4. made.at = a /\ made.is = "creation" /\ (made.done <=> a \notin DOMAIN s.code)
    BY <1>3, <2>2, PlainCreation
  <2>5. k = 1 => Callee(does, s) \notin artifacts /\ Callee(does, s) \in DOMAIN s.code
    <3>1. SUFFICES ASSUME k = 1 PROVE Callee(does, s) \notin artifacts
      BY <1>8
    <3>2. 1 \in 1..(n - 1)
      BY <2>1, <3>1
    <3>3. run[1].at = Callee(does, s)
      BY <1>9, <1>12, <3>1
    <3>4. run[n].is = "creation"
      BY <2>3, <2>4
    <3> QED BY <1>15, <3>2, <3>3, <3>4
  <2>6. Creations(does, t, build) = {c}
    <3>1. does \in {"produce", "produce_salted"} /\ s.factory \in DOMAIN s.code => t.code[s.factory] = s.code[s.factory]
      <4>1. SUFFICES ASSUME does \in {"produce", "produce_salted"}, s.factory \in DOMAIN s.code
                     PROVE  t.code[s.factory] = s.code[s.factory]
        OBVIOUS
      <4>2. Callee(does, s) = s.factory
        BY <4>1 DEF Callee
      <4>3. s.factory \notin artifacts
        BY <1>8, <2>5, <4>1, <4>2
      <4> QED BY <1>4, <1>5, <4>1, <4>3
    <3>2. Creations(does, t, build) = Creations(does, s, build)
      BY <1>6, <3>1, CreationsLike
    <3> QED BY <2>2, <3>2
  <2>7. \A x \in contracts_in_tx : x = a /\ a \in artifacts
    <3> TAKE x \in contracts_in_tx
    <3>1. x \in artifacts /\ Created(x, N)
      BY DEF StageInv, N
    <3>2. PICK e : Creations(does, s, build) = {e} /\ x = At(e, s)
      BY <3>1, CreatedCode DEF does, s, Now, N
    <3>3. e = c
      BY <2>2, <3>2
    <3> QED BY <3>1, <3>2, <3>3
  <2>8. size2 = 1 /\ d = c
    <3>1. {c} # {} /\ (\A e : {c} = {e} => e = c)
      OBVIOUS
    <3> QED BY <1>11, <2>6, <3>1
  <2>9. n \in DOMAIN calls' /\ calls'[n] = Creating(c, s, inspector)
    <3>1. Creating(c, t, inspector) = Creating(c, s, inspector)
      BY <1>6, CreatingLike
    <3>2. calls'[k + 1] = Creating(c, t, inspector)
      BY <1>13, <2>6, <2>8
    <3>3. k + 1 \in DOMAIN calls'
      BY <1>8, <1>13, <2>8
    <3> QED BY <2>1, <3>1, <3>2, <3>3
  <2> HIDE DEF a, made
  <2>10. CASE a \in artifacts
    <3>1. listed /\ build = "same"
      BY <1>15, <2>3, <2>4, <2>10
    <3>2. a \notin DOMAIN s.code
      <4>1. PICK m \in DOMAIN run : run[m].at = a /\ run[m].done
        BY <1>5, <2>10 DEF Visited
      <4>2. m = n
        <5>1. SUFFICES ASSUME k = 1, m = 1 PROVE FALSE
          BY <1>8, <1>12, <2>1, <4>1
        <5>2. run[m].at = Callee(does, s)
          BY <1>9, <1>12, <5>1
        <5> QED BY <2>5, <2>10, <4>1, <5>1, <5>2
      <4> QED BY <2>3, <2>4, <4>1, <4>2
    <3>3. Created(a, N)
      BY <1>2, <1>3, <2>10, <3>2
    <3>4. a \in contracts_in_tx
      <4>1. a # NoOne
        BY <1>3, <2>2, AddressFacts DEF a
      <4>2. \A x \in artifacts \ (untweaked \union {tweaking}) : Created(x, N) => x \in contracts_in_tx
        BY <1>1 DEF StageInv, N
      <4> QED BY <1>1, <2>10, <3>3, <4>1, <4>2
    <3>5. OnChain[a] = PlainCode(c, s)
      <4>1. PICK e : Creations(does, s, build) = {e} /\ OnChain[a] = PlainCode(e, s)
        BY <3>3, CreatedCode DEF does, s, Now, N
      <4>2. e = c
        BY <2>2, <4>1
      <4> QED BY <4>1, <4>2
    <3>6. OnChain[a].contract = c[2].contract /\ ListedArgs(a) = c[2].args
      BY <3>1, <3>5 DEF PlainCode, ListedArgs
    <3>7. c[2].contract \in ContractsIn(c[2].contract)
      BY <2>2 DEF IsCreation, ContractsIn
    <3>8. \A h \in CreationHooks : h.by = a
      BY <2>7, HookFacts
    <3>9. \E h \in CreationHooks : h.contract = c[2].contract /\ h.args = c[2].args
      <4>1. [contract |-> c[2].contract, args |-> c[2].args, by |-> a] \in CreationHooks
        BY <3>4, <3>6, <3>7, HookFacts
      <4> QED BY <4>1
    <3>10. Creating(c, s, inspector) = [made EXCEPT !.code.by = a]
      <4> DEFINE hooks == CreationHooks
      <4> HIDE DEF hooks
      <4>1. \A h \in hooks : h.by = At(c, s)
        BY <3>8 DEF hooks, a
      <4>2. \E h \in hooks : h.contract = c[2].contract /\ h.args = c[2].args
        BY <3>9 DEF hooks
      <4>3. At(c, s) \notin DOMAIN s.code
        BY <3>2 DEF a
      <4>4. Creating(c, s, WithCreationHooks(hooks)) = [Creating(c, s, NoInspector) EXCEPT !.code.by = At(c, s)]
        BY <1>3, <2>2, <3>1, <4>1, <4>2, <4>3, HookedCode
      <4> QED BY <4>4 DEF made, a, inspector, hooks
    <3> QED BY <2>3, <2>4, <2>9, <2>10, <3>10 DEF run
  <2>11. CASE a \notin artifacts
    <3>1. CreationHooks = {}
      <4>1. contracts_in_tx = {}
        BY <2>7, <2>11
      <4> QED BY <4>1, HookFacts
    <3>2. Creating(c, s, inspector) = made
      BY <1>3, <2>2, <3>1, NoHooks DEF inspector, made
    <3>3. [made EXCEPT !.code.by = made.code.by] = made
      BY <1>3, <2>2, PlainRecord DEF made
    <3> QED BY <2>3, <2>4, <2>9, <2>11, <3>2, <3>3 DEF run
  <2> QED BY <2>10, <2>11
<1> QED BY <1>17, <1>18
-----------------------------------------------------------------------------
(* Each step keeps the invariant. *)
PrepInv == WorldInv /\ StageInv /\ ForkInv /\ CtxInv /\ CaptureInv

LEMMA GoodEmpty == Good(Empty) /\ DOMAIN Empty.code = {}
BY DEF Good, Empty

LEMMA EmptyWorld ==
  ASSUME chain = <<>>, history = <<Empty>>, build \in Builds, listed \in BOOLEAN, quick \in BOOLEAN
  PROVE  WorldInv
<1>1. Len(chain) = 0 /\ chain \in Seq([does : Does, opens_block : BOOLEAN])
  OBVIOUS
<1>2. history = [k \in 1..1 |-> history[k]] /\ history[1] = Empty
  OBVIOUS
<1> QED BY <1>1, <1>2, GoodEmpty, ExtendedReflexive DEF WorldInv

LEMMA ForgottenWorld ==
  ASSUME chain' = <<>>, history' = <<Empty>>, build' \in Builds, listed' \in BOOLEAN, quick' \in BOOLEAN
  PROVE  WorldInv'
<1>1. Len(chain') = 0 /\ chain' \in Seq([does : Does, opens_block : BOOLEAN])
  OBVIOUS
<1>2. history' = [k \in 1..1 |-> history'[k]] /\ history'[1] = Empty
  OBVIOUS
<1> QED BY <1>1, <1>2, GoodEmpty, ExtendedReflexive DEF WorldInv

LEMMA SameWorld ==
  ASSUME UNCHANGED worldVars
  PROVE  /\ WorldInv => WorldInv'
         /\ \A a, n : Created(a, n)' <=> Created(a, n)
         /\ \A n : Clear(n)' <=> Clear(n)
         /\ Now' = Now /\ OnChainRun' = OnChainRun /\ Len(chain') = Len(chain)
         /\ history' = history /\ chain' = chain /\ quick' = quick /\ listed' = listed /\ build' = build
<1>1. chain' = chain /\ history' = history /\ build' = build /\ listed' = listed /\ quick' = quick
  BY DEF worldVars
<1>2. WorldInv => WorldInv'
  BY <1>1 DEF WorldInv, Created
<1>3. \A a, n : Created(a, n)' <=> Created(a, n)
  BY <1>1 DEF Created
<1>4. \A n : Clear(n)' <=> Clear(n)
  BY <1>1 DEF Clear, Starts
<1>5. Now' = Now /\ OnChainRun' = OnChainRun
  BY <1>1 DEF Now, OnChainRun
<1> QED BY <1>1, <1>2, <1>3, <1>4, <1>5

LEMMA SameFork ==
  ASSUME UNCHANGED worldVars, UNCHANGED forkVars, NEW n
  PROVE  ForkFor(n)' <=> ForkFor(n)
<1>1. chain' = chain /\ history' = history /\ quick' = quick /\ fork' = fork /\ replaying' = replaying
  BY DEF worldVars, forkVars
<1>2. Clear(n)' <=> Clear(n)
  BY SameWorld
<1> QED BY <1>1, <1>2 DEF ForkFor

LEMMA MineKeeps ==
  ASSUME PrepInv, NEW does \in Does, NEW opens_block \in BOOLEAN, Mine(does, opens_block)
  PROVE  PrepInv'
<1>1. WorldInv'
  BY MineKeepsWorld DEF PrepInv
<1>2. stage = "mining" /\ UNCHANGED prepareVars
  BY DEF Mine
<1>3. /\ stage' = "mining" /\ replaying' = replaying /\ tweaking' = tweaking /\ artifacts' = artifacts
      /\ untweaked' = untweaked /\ contracts_in_tx' = contracts_in_tx
  BY <1>2 DEF prepareVars, forkVars, tweakVars
<1>4. replaying = <<>> /\ tweaking = NoOne /\ artifacts = {} /\ untweaked = {} /\ contracts_in_tx = {}
  BY <1>2 DEF PrepInv, StageInv
<1>5. StageInv'
  BY <1>3, <1>4 DEF StageInv
<1>6. ForkInv'
  BY <1>3, <1>4 DEF ForkInv
<1>7. CtxInv' /\ CaptureInv'
  BY <1>3 DEF CtxInv, CaptureInv
<1> QED BY <1>1, <1>5, <1>6, <1>7 DEF PrepInv

LEMMA ForkAndPrepareKeeps ==
  ASSUME PrepInv, ForkAndPrepare
  PROVE  PrepInv'
<1>1. /\ stage = "mining" /\ chain # <<>> /\ stage' = "forking" /\ UNCHANGED worldVars /\ StartFork(Len(chain))
      /\ tweaking' = tweaking /\ artifacts' = artifacts /\ untweaked' = untweaked /\ contracts_in_tx' = contracts_in_tx
  BY DEF ForkAndPrepare, tweakVars, Target
<1>2. WorldInv'
  BY <1>1, SameWorld DEF PrepInv
<1>3. tweaking = NoOne /\ artifacts = {} /\ untweaked = {} /\ contracts_in_tx = {}
  BY <1>1 DEF PrepInv, StageInv
<1>4. chain' = chain
  BY <1>1, SameWorld
<1>5. StageInv'
  BY <1>1, <1>3, <1>4 DEF StageInv
<1>6. ForkInv'
  <2>1. PICK n : n = Len(chain)
    OBVIOUS
  <2>2. n \in 1..Len(chain)
    BY <1>1, <2>1 DEF PrepInv, WorldInv
  <2>3. ForkFor(n)'
    BY <1>1, <2>1, <2>2, ForkStarts DEF PrepInv
  <2>4. ForkFor(Len(chain))'
    BY <1>4, <2>1, <2>3 DEF ForkFor, Clear, Starts
  <2> QED BY <1>1, <1>3, <2>4 DEF ForkInv
<1>7. CtxInv' /\ CaptureInv'
  BY <1>1 DEF CtxInv, CaptureInv
<1> QED BY <1>2, <1>5, <1>6, <1>7 DEF PrepInv

LEMMA TransactCommitKeeps ==
  ASSUME PrepInv, TransactCommit
  PROVE  PrepInv'
<1>1. UNCHANGED <<worldVars, stage, ctx, trace, visited, tweakVars, calls>> /\ replaying # <<>>
  BY DEF TransactCommit
<1>2. /\ UNCHANGED worldVars /\ stage' = stage /\ ctx' = ctx /\ visited' = visited /\ calls' = calls
      /\ tweaking' = tweaking /\ artifacts' = artifacts /\ untweaked' = untweaked /\ contracts_in_tx' = contracts_in_tx
  BY <1>1 DEF tweakVars
<1>3. /\ WorldInv' /\ (\A a, n : Created(a, n)' <=> Created(a, n)) /\ (\A n : Clear(n)' <=> Clear(n))
      /\ Now' = Now /\ OnChainRun' = OnChainRun /\ chain' = chain /\ history' = history /\ quick' = quick
      /\ listed' = listed /\ build' = build
  BY <1>2, SameWorld DEF PrepInv
<1>4. stage = "forking" \/ tweaking # NoOne
  BY <1>1 DEF PrepInv, StageInv
<1>5. Created(tweaking, Len(chain))' <=> Created(tweaking, Len(chain))
  BY <1>2, <1>3 DEF Created
<1>6. StageInv'
  <2>1. \A a : Created(a, Len(chain))' <=> Created(a, Len(chain))
    BY <1>3 DEF Created
  <2> QED BY <1>2, <1>3, <1>4, <1>5, <2>1 DEF PrepInv, StageInv
<1>7. ForkInv'
  <2>1. ASSUME NEW n \in 1..Len(chain), ForkFor(n) PROVE ForkFor(n)'
    BY <2>1, ForkReplays DEF PrepInv
  <2>2. stage' = "forking" => ForkFor(Len(chain))'
    <3>1. SUFFICES ASSUME stage = "forking" PROVE ForkFor(Len(chain))'
      BY <1>2
    <3>2. PICK n : n = Len(chain)
      OBVIOUS
    <3>3. chain # <<>> /\ ForkFor(n)
      BY <3>1, <3>2 DEF PrepInv, StageInv, ForkInv
    <3>4. n \in 1..Len(chain)
      BY <3>2, <3>3 DEF PrepInv, WorldInv
    <3>5. ForkFor(n)'
      BY <2>1, <3>3, <3>4
    <3> QED BY <1>3, <3>2, <3>5 DEF ForkFor, Clear, Starts
  <2>3. ASSUME NEW n \in 1..Len(chain), tweaking' # NoOne, Created(tweaking, n)' PROVE ForkFor(n)'
    <3>1. tweaking # NoOne /\ Created(tweaking, n)
      BY <1>2, <1>3, <2>3 DEF Created
    <3>2. ForkFor(n)
      BY <3>1 DEF PrepInv, ForkInv
    <3> QED BY <2>1, <3>2
  <2> QED BY <1>3, <2>2, <2>3 DEF ForkInv
<1>8. CtxInv'
  <2>1. Done' = Done
    BY <1>2 DEF Done
  <2>2. Clear(Len(chain))' <=> Clear(Len(chain))
    BY <1>3 DEF Clear, Starts
  <2> QED BY <1>2, <1>3, <2>1, <2>2 DEF PrepInv, CtxInv
<1>9. CaptureInv'
  BY <1>2, <1>4 DEF PrepInv, StageInv, CaptureInv
<1> QED BY <1>3, <1>6, <1>7, <1>8, <1>9 DEF PrepInv

(* What a step that leaves the chain alone keeps *)
LEMMA SameAtEnd ==
  ASSUME UNCHANGED worldVars, WorldInv
  PROVE  /\ WorldInv'
         /\ \A a : Created(a, Len(chain))' <=> Created(a, Len(chain))
         /\ \A a, n : Created(a, n)' <=> Created(a, n)
         /\ Clear(Len(chain))' <=> Clear(Len(chain))
         /\ \A n : Clear(n)' <=> Clear(n)
         /\ Now' = Now /\ OnChainRun' = OnChainRun
         /\ history' = history /\ chain' = chain /\ quick' = quick /\ listed' = listed /\ build' = build
         /\ OnChain' = OnChain
<1>1. /\ \A a, n : Created(a, n)' <=> Created(a, n)
      /\ \A n : Clear(n)' <=> Clear(n)
      /\ history' = history /\ chain' = chain /\ quick' = quick /\ listed' = listed /\ build' = build
      /\ Now' = Now /\ OnChainRun' = OnChainRun /\ WorldInv'
  BY SameWorld
<1>2. \A a : Created(a, Len(chain))' <=> Created(a, Len(chain))
  BY <1>1 DEF Created
<1>3. Clear(Len(chain))' <=> Clear(Len(chain))
  BY <1>1 DEF Clear, Starts
<1>4. OnChain' = OnChain
  BY <1>1 DEF OnChain, StateAt, Target
<1> QED BY <1>1, <1>2, <1>3, <1>4

LEMMA LastOfChain ==
  ASSUME WorldInv, chain # <<>>
  PROVE  Len(chain) \in 1..Len(chain)
BY DEF WorldInv

LEMMA ReplayKeeps ==
  ASSUME PrepInv, Replay
  PROVE  PrepInv'
<1>1. /\ UNCHANGED worldVars /\ stage = "forking" /\ replaying = <<>> /\ ctx' = fork /\ stage' = "replayed"
      /\ visited' = Visited(CallsOf(chain[Len(chain)].does, fork, NoInspector, build)) /\ replaying' = replaying
      /\ tweaking' = tweaking /\ artifacts' = artifacts /\ untweaked' = untweaked /\ contracts_in_tx' = contracts_in_tx
  BY DEF Replay, tweakVars, Target
<1>2. /\ WorldInv' /\ (Clear(Len(chain))' <=> Clear(Len(chain))) /\ Now' = Now /\ OnChainRun' = OnChainRun
      /\ chain' = chain /\ history' = history /\ quick' = quick
  BY <1>1, SameAtEnd DEF PrepInv
<1>3. tweaking = NoOne /\ artifacts = {} /\ untweaked = {} /\ contracts_in_tx = {} /\ chain # <<>>
  BY <1>1 DEF PrepInv, StageInv
<1>4. StageInv'
  BY <1>1, <1>2, <1>3 DEF StageInv
<1>5. ForkInv'
  BY <1>1, <1>3 DEF ForkInv
<1>6. CtxInv'
  <2>1. SUFFICES ASSUME ~quick, Clear(Len(chain))
                 PROVE  /\ ctx' = [nonce |-> Now.nonce, code |-> ctx'.code, cell |-> Now.cell, token |-> Now.token, factory |-> Now.factory]
                        /\ ctx'.code = [a \in DOMAIN Now.code |-> ctx'.code[a]]
                        /\ \A a \in DOMAIN Now.code : ctx'.code[a] = Now.code[a]
                        /\ visited' \subseteq Visited(OnChainRun)
    <3>1. Done' = {}
      BY <1>1 DEF Done
    <3> QED BY <1>1, <1>2, <1>3, <2>1, <3>1 DEF CtxInv
  <2>2. PICK n : n = Len(chain)
    OBVIOUS
  <2>3. n \in 1..Len(chain) /\ ForkFor(n) /\ Clear(n)
    <3>1. ForkFor(n)
      BY <1>1, <2>2 DEF PrepInv, ForkInv
    <3> QED BY <1>3, <2>1, <2>2, <3>1, LastOfChain DEF PrepInv
  <2>4. fork = history[n]
    BY <1>1, <2>1, <2>3, ForkDone DEF PrepInv
  <2>5. ctx' = Now
    BY <1>1, <2>2, <2>4 DEF Now
  <2>6. visited' = Visited(OnChainRun)
    BY <1>1, <2>2, <2>4 DEF OnChainRun, Ran, Now
  <2>7. Good(Now)
    BY <1>3, CodeBefore DEF PrepInv
  <2> QED BY <2>5, <2>6, <2>7 DEF Good
<1>7. CaptureInv'
  BY <1>1 DEF CaptureInv
<1> QED BY <1>2, <1>4, <1>5, <1>6, <1>7 DEF PrepInv

LEMMA DownloadKeeps ==
  ASSUME PrepInv, NEW address \in visited, Download(address)
  PROVE  PrepInv'
<1>1. /\ UNCHANGED worldVars /\ stage = "replayed" /\ stage' = stage /\ UNCHANGED forkVars /\ ctx' = ctx
      /\ visited' = visited \ {address}
      /\ (artifacts' = artifacts \/ (address \in DOMAIN OnChain /\ artifacts' = artifacts \union {address}))
      /\ untweaked' = untweaked /\ tweaking' = tweaking /\ contracts_in_tx' = contracts_in_tx
  <2>1. /\ stage = "replayed" /\ visited' = visited \ {address}
    BY DEF Download
  <2>3. \/ artifacts' = artifacts
        \/ address \in DOMAIN OnChain /\ artifacts' = artifacts \union {address}
    BY Zenon DEF Download
  <2>2. UNCHANGED <<worldVars, stage, forkVars, ctx, trace, untweaked, tweaking, contracts_in_tx, calls>>
    BY DEF Download
  <2>4. /\ UNCHANGED worldVars /\ stage' = stage /\ UNCHANGED forkVars /\ ctx' = ctx
        /\ untweaked' = untweaked /\ tweaking' = tweaking /\ contracts_in_tx' = contracts_in_tx
    BY <2>2
  <2> QED BY <2>1, <2>3, <2>4, Zenon
<1>2. replaying' = replaying /\ fork' = fork
  BY <1>1 DEF forkVars
<1>3. /\ WorldInv' /\ (Clear(Len(chain))' <=> Clear(Len(chain))) /\ Now' = Now /\ OnChainRun' = OnChainRun
      /\ chain' = chain /\ history' = history /\ quick' = quick
  BY <1>1, SameAtEnd DEF PrepInv
<1>4. tweaking = NoOne /\ untweaked = {} /\ contracts_in_tx = {} /\ replaying = <<>> /\ chain # <<>>
      /\ artifacts \subseteq DOMAIN history[Len(chain) + 1].code
  BY <1>1 DEF PrepInv, StageInv
<1>5. DOMAIN OnChain = DOMAIN history[Len(chain) + 1].code
  BY DEF OnChain, StateAt, Target
<1>6. StageInv'
  BY <1>1, <1>2, <1>3, <1>4, <1>5 DEF StageInv
<1>7. ForkInv'
  BY <1>1, <1>4 DEF ForkInv
<1>8. CtxInv'
  <2>1. Done' = {} /\ Done = {}
    BY <1>1 DEF Done
  <2>2. visited' \union artifacts' \subseteq visited \union artifacts
    BY <1>1
  <2> QED BY <1>1, <1>3, <2>1, <2>2 DEF PrepInv, CtxInv
<1>9. CaptureInv'
  BY <1>1 DEF CaptureInv
<1> QED BY <1>3, <1>6, <1>7, <1>8, <1>9 DEF PrepInv

LEMMA RecompileKeeps ==
  ASSUME PrepInv, Recompile
  PROVE  PrepInv'
<1>1. /\ UNCHANGED worldVars /\ stage = "replayed" /\ stage' = "recompiled" /\ UNCHANGED forkVars /\ ctx' = ctx
      /\ visited' = visited /\ artifacts' = artifacts /\ untweaked' = artifacts
      /\ tweaking' = tweaking /\ contracts_in_tx' = contracts_in_tx
  BY DEF Recompile
<1>2. replaying' = replaying /\ fork' = fork
  BY <1>1 DEF forkVars
<1>3. /\ WorldInv' /\ (Clear(Len(chain))' <=> Clear(Len(chain))) /\ Now' = Now /\ OnChainRun' = OnChainRun
      /\ chain' = chain /\ history' = history /\ quick' = quick
  BY <1>1, SameAtEnd DEF PrepInv
<1>4. tweaking = NoOne /\ untweaked = {} /\ contracts_in_tx = {} /\ replaying = <<>> /\ chain # <<>>
      /\ artifacts \subseteq DOMAIN history[Len(chain) + 1].code
  BY <1>1 DEF PrepInv, StageInv
<1>5. StageInv'
  BY <1>1, <1>2, <1>3, <1>4 DEF StageInv
<1>6. ForkInv'
  BY <1>1, <1>4 DEF ForkInv
<1>7. CtxInv'
  <2>1. Done' = {} /\ Done = {}
    BY <1>1 DEF Done
  <2> QED BY <1>1, <1>3, <2>1 DEF PrepInv, CtxInv
<1>8. CaptureInv'
  BY <1>1 DEF CaptureInv
<1> QED BY <1>3, <1>5, <1>6, <1>7, <1>8 DEF PrepInv

LEMMA LeaveToHooksKeeps ==
  ASSUME PrepInv, NEW address \in untweaked, LeaveToHooks(address)
  PROVE  PrepInv'
<1>1. /\ UNCHANGED worldVars /\ stage = "recompiled" /\ stage' = stage /\ UNCHANGED forkVars /\ ctx' = ctx
      /\ visited' = visited /\ artifacts' = artifacts /\ untweaked' = untweaked \ {address}
      /\ tweaking = NoOne /\ tweaking' = tweaking /\ contracts_in_tx' = contracts_in_tx \union {address}
      /\ CreationTx(address) = Len(chain)
  BY DEF LeaveToHooks, Target
<1>2. replaying' = replaying /\ fork' = fork
  BY <1>1 DEF forkVars
<1>3. /\ WorldInv' /\ (Clear(Len(chain))' <=> Clear(Len(chain))) /\ Now' = Now /\ OnChainRun' = OnChainRun
      /\ chain' = chain /\ history' = history /\ quick' = quick
      /\ (\A a : Created(a, Len(chain))' <=> Created(a, Len(chain)))
      /\ (\A a, n : Created(a, n)' <=> Created(a, n)) /\ (\A n : Clear(n)' <=> Clear(n))
  BY <1>1, SameAtEnd DEF PrepInv
<1>4. replaying = <<>> /\ chain # <<>> /\ artifacts \subseteq DOMAIN OnChain
      /\ untweaked \subseteq artifacts
  BY <1>1 DEF PrepInv, StageInv, OnChain, StateAt, Target
<1>5. Created(address, Len(chain))
  BY <1>1, <1>4, WhereCreated DEF PrepInv
<1>6. StageInv'
  <2>1. \A a \in contracts_in_tx' : a \in artifacts /\ Created(a, Len(chain))
    BY <1>1, <1>4, <1>5 DEF PrepInv, StageInv
  <2>2. \A a \in artifacts \ (untweaked' \union {tweaking}) : Created(a, Len(chain)) => a \in contracts_in_tx'
    BY <1>1 DEF PrepInv, StageInv
  <2> QED BY <1>1, <1>2, <1>3, <1>4, <2>1, <2>2 DEF PrepInv, StageInv
<1>7. ForkInv'
  BY <1>1 DEF ForkInv
<1>8. CtxInv'
  <2>1. address \notin DOMAIN Now.code
    BY <1>5 DEF Created, Now
  <2>2. \A a \in DOMAIN Now.code : a \in Done' <=> a \in Done
    BY <1>1, <2>1 DEF Done
  <2> QED BY <1>1, <1>3, <2>2 DEF PrepInv, CtxInv
<1>9. CaptureInv'
  BY <1>1 DEF CaptureInv
<1> QED BY <1>3, <1>6, <1>7, <1>8, <1>9 DEF PrepInv

LEMMA TweakKeeps ==
  ASSUME PrepInv, NEW address \in untweaked, Tweak(address)
  PROVE  PrepInv'
<1>1. /\ UNCHANGED worldVars /\ stage = "recompiled" /\ stage' = stage /\ ctx' = ctx
      /\ visited' = visited /\ artifacts' = artifacts /\ untweaked' = untweaked \ {address}
      /\ tweaking = NoOne /\ tweaking' = address /\ contracts_in_tx' = contracts_in_tx
      /\ CreationTx(address) # Len(chain) /\ StartFork(CreationTx(address))
  BY DEF Tweak, Target
<1>2. /\ WorldInv' /\ (Clear(Len(chain))' <=> Clear(Len(chain))) /\ Now' = Now /\ OnChainRun' = OnChainRun
      /\ chain' = chain /\ history' = history /\ quick' = quick
      /\ (\A a : Created(a, Len(chain))' <=> Created(a, Len(chain)))
      /\ (\A a, n : Created(a, n)' <=> Created(a, n)) /\ (\A n : Clear(n)' <=> Clear(n))
  BY <1>1, SameAtEnd DEF PrepInv
<1>3. chain # <<>> /\ artifacts \subseteq DOMAIN OnChain /\ untweaked \subseteq artifacts
  BY <1>1 DEF PrepInv, StageInv, OnChain, StateAt, Target
<1>4. PICK j \in 1..Len(chain) : Created(address, j) /\ CreationTx(address) = j
  BY <1>1, <1>3, WhereCreated DEF PrepInv
<1>5. \A n : Created(address, n) => n = j
  BY <1>4, CreatedUnique DEF PrepInv
<1>6. address # NoOne
  <2>1. Len(chain) + 1 \in 1..Len(chain) + 1
    BY ChainLength DEF PrepInv
  <2>2. Good(history[Len(chain) + 1])
    BY <2>1 DEF PrepInv, WorldInv
  <2> QED BY <1>3, <2>2 DEF Good, OnChain, StateAt, Target
<1>7. NoOne \notin artifacts
  <2>1. Len(chain) + 1 \in 1..Len(chain) + 1
    BY ChainLength DEF PrepInv
  <2>2. Good(history[Len(chain) + 1])
    BY <2>1 DEF PrepInv, WorldInv
  <2> QED BY <1>3, <2>2 DEF Good, OnChain, StateAt, Target
<1>8. ~Created(address, Len(chain))
  BY <1>1, <1>4, <1>5
<1>9. StageInv'
  <2>1. \A a \in artifacts \ (untweaked' \union {tweaking'}) : Created(a, Len(chain)) => a \in contracts_in_tx
    BY <1>1, <1>7 DEF PrepInv, StageInv
  <2>2. ~Created(tweaking', Len(chain))
    BY <1>1, <1>8
  <2>3. ~Created(tweaking, Len(chain))'
    BY <1>1, <1>2, <1>8 DEF Created
  <2> QED BY <1>1, <1>2, <1>3, <1>6, <2>1, <2>3 DEF PrepInv, StageInv
<1>10. ForkInv'
  <2>1. ForkFor(j)'
    BY <1>1, <1>4, ForkStarts DEF PrepInv
  <2>2. ASSUME NEW n \in 1..Len(chain), Created(tweaking, n)' PROVE n = j
    <3>1. Created(address, n)
      BY <1>1, <1>2, <2>2 DEF Created
    <3> QED BY <1>5, <3>1
  <2> QED BY <1>1, <1>2, <2>1, <2>2 DEF ForkInv
<1>11. CtxInv'
  <2>1. \A a \in DOMAIN Now.code : a # NoOne
    BY <1>3, CodeBefore DEF PrepInv, Good
  <2>2. \A a \in DOMAIN Now.code : a \in Done' <=> a \in Done
    BY <1>1, <2>1 DEF Done
  <2> QED BY <1>1, <1>2, <2>2 DEF PrepInv, CtxInv
<1>12. CaptureInv'
  BY <1>1 DEF CaptureInv
<1> QED BY <1>2, <1>9, <1>10, <1>11, <1>12 DEF PrepInv

LEMMA InsertCodeKeeps ==
  ASSUME PrepInv, InsertCode
  PROVE  PrepInv'
<1> DEFINE inspector == [NoInspector EXCEPT !.target = tweaking, !.contract = OnChain[tweaking].contract,
                                            !.args = ListedArgs(tweaking)]
           run == CallsOf(chain[CreationTx(tweaking)].does, fork, inspector, build)
<1>1. /\ UNCHANGED worldVars /\ tweaking # NoOne /\ replaying = <<>> /\ stage' = stage
      /\ tweaking' = NoOne /\ replaying' = replaying /\ visited' = visited /\ artifacts' = artifacts
      /\ untweaked' = untweaked /\ contracts_in_tx' = contracts_in_tx
  BY DEF InsertCode
<1>2. PICK n \in DOMAIN run :
        /\ run[n].at = tweaking /\ run[n].done
        /\ ctx' = [ctx EXCEPT !.code = [a \in DOMAIN @ \union {tweaking} |-> IF a = tweaking THEN run[n].code ELSE @[a]]]
  <2>1. \E r \in {run} : \E n \in DOMAIN r :
          /\ r[n].at = tweaking /\ r[n].done
          /\ ctx' = [ctx EXCEPT !.code = [a \in DOMAIN @ \union {tweaking} |-> IF a = tweaking THEN r[n].code ELSE @[a]]]
    BY DEF InsertCode
  <2> HIDE DEF run
  <2> QED BY <2>1
<1>3. inspector.target = tweaking /\ inspector.contract = OnChain[tweaking].contract /\ inspector.args = ListedArgs(tweaking)
  BY DEF NoInspector
<1> HIDE DEF inspector
<1>4. /\ WorldInv' /\ (Clear(Len(chain))' <=> Clear(Len(chain))) /\ Now' = Now /\ OnChainRun' = OnChainRun
      /\ chain' = chain /\ history' = history /\ quick' = quick
      /\ (\A a : Created(a, Len(chain))' <=> Created(a, Len(chain)))
      /\ (\A a, m_ : Created(a, m_)' <=> Created(a, m_)) /\ (\A m_ : Clear(m_)' <=> Clear(m_))
  BY <1>1, SameAtEnd DEF PrepInv
<1>5. /\ stage = "recompiled" /\ tweaking \in artifacts /\ ~Created(tweaking, Len(chain)) /\ chain # <<>>
      /\ artifacts \subseteq DOMAIN OnChain
  BY <1>1 DEF PrepInv, StageInv, OnChain, StateAt, Target
<1>6. PICK j \in 1..Len(chain) : Created(tweaking, j) /\ CreationTx(tweaking) = j
  BY <1>5, WhereCreated DEF PrepInv
<1>7. StageInv'
  <2>1. \A a \in artifacts \ (untweaked \union {NoOne}) : Created(a, Len(chain)) => a \in contracts_in_tx
    BY <1>5 DEF PrepInv, StageInv
  <2> QED BY <1>1, <1>4, <1>5, <2>1 DEF PrepInv, StageInv
<1>8. ForkInv'
  BY <1>1, <1>5 DEF ForkInv
<1>9. CtxInv'
  <2> DEFINE b == tweaking  code == run[n].code
  <2>1. SUFFICES ASSUME ~quick, Clear(Len(chain))
        PROVE  /\ ctx' = [nonce |-> Now.nonce, code |-> ctx'.code, cell |-> Now.cell, token |-> Now.token, factory |-> Now.factory]
               /\ ctx'.code = [a \in DOMAIN Now.code |-> ctx'.code[a]]
               /\ \A a \in DOMAIN Now.code : a \notin Done' => ctx'.code[a] = Now.code[a]
               /\ \A a \in DOMAIN Now.code, k \in 1..Len(chain) :
                    a \in Done' /\ Created(a, k) /\ Clear(k) => ctx'.code[a] = [Now.code[a] EXCEPT !.by = a]
               /\ visited' \union artifacts' \subseteq Visited(OnChainRun)
    BY <1>4 DEF CtxInv
  <2>2. /\ ctx = [nonce |-> Now.nonce, code |-> ctx.code, cell |-> Now.cell, token |-> Now.token, factory |-> Now.factory]
        /\ ctx.code = [a \in DOMAIN Now.code |-> ctx.code[a]]
        /\ \A a \in DOMAIN Now.code : a \notin Done => ctx.code[a] = Now.code[a]
        /\ \A a \in DOMAIN Now.code, k \in 1..Len(chain) :
             a \in Done /\ Created(a, k) /\ Clear(k) => ctx.code[a] = [Now.code[a] EXCEPT !.by = a]
        /\ visited \union artifacts \subseteq Visited(OnChainRun)
    BY <1>5, <2>1 DEF PrepInv, CtxInv
  <2>3. /\ \A a \in DOMAIN Now.code : OnChain[a] = Now.code[a] /\ a # NoOne
        /\ b \in DOMAIN Now.code
    BY <1>5, CodeBefore DEF PrepInv, Good
  <2>4. Clear(j) => code = [Now.code[b] EXCEPT !.by = b]
    <3>1. SUFFICES ASSUME Clear(j) PROVE code = [OnChain[b] EXCEPT !.by = b]
      BY <2>3
    <3>2. ForkFor(j)
      BY <1>1, <1>6 DEF PrepInv, ForkInv
    <3>3. fork = history[j]
      BY <1>1, <2>1, <3>1, <3>2, ForkDone DEF PrepInv
    <3>4. run = CallsOf(chain[j].does, fork, inspector, build)
      BY <1>6
    <3>5. WorldInv /\ Created(b, j)
      BY <1>6 DEF PrepInv
    <3>6. inspector.target = b /\ inspector.contract = OnChain[b].contract /\ inspector.args = ListedArgs(b)
      BY <1>3
    <3>7. n \in DOMAIN run /\ run[n].at = b /\ run[n].done
      BY <1>2
    <3>8. Inserts(b, j, inspector, run, n)
      BY <3>3, <3>4, <3>5, <3>6, <3>7 DEF Inserts
    <3> HIDE DEF b, run
    <3>9. run[n].code = [OnChain[b] EXCEPT !.by = b]
      BY <3>5, <3>8, InsertedCode
    <3> QED BY <3>9 DEF code
  <2>5. \A a \in DOMAIN Now.code : a \in Done' <=> a \in Done \/ a = b
    <3>1. b \notin untweaked
      BY <1>1 DEF PrepInv, StageInv
    <3> QED BY <1>1, <1>5, <2>3, <3>1 DEF Done
  <2> HIDE DEF run, b, code
  <2>6. ctx' = [ctx EXCEPT !.code = [a \in DOMAIN @ \union {b} |-> IF a = b THEN code ELSE @[a]]]
    BY <1>2 DEF b, code
  <2>7. DOMAIN ctx.code = DOMAIN Now.code
    BY <2>2
  <2>8. ctx'.code = [a \in DOMAIN Now.code |-> IF a = b THEN code ELSE ctx.code[a]]
    <3>1. DOMAIN ctx.code \union {b} = DOMAIN Now.code
      BY <2>3, <2>7
    <3>2. ctx'.code = [a \in DOMAIN ctx.code \union {b} |-> IF a = b THEN code ELSE ctx.code[a]]
      BY <2>2, <2>6
    <3> QED BY <3>1, <3>2
  <2>9. ctx' = [nonce |-> Now.nonce, code |-> ctx'.code, cell |-> Now.cell, token |-> Now.token, factory |-> Now.factory]
    BY <2>2, <2>6
  <2>10. \A a \in DOMAIN Now.code : a \notin Done' => ctx'.code[a] = Now.code[a]
    BY <2>2, <2>5, <2>8
  <2>11. \A a \in DOMAIN Now.code, k \in 1..Len(chain) :
           a \in Done' /\ Created(a, k) /\ Clear(k) => ctx'.code[a] = [Now.code[a] EXCEPT !.by = a]
    <3> SUFFICES ASSUME NEW a \in DOMAIN Now.code, NEW k \in 1..Len(chain), a \in Done', Created(a, k), Clear(k)
                 PROVE  ctx'.code[a] = [Now.code[a] EXCEPT !.by = a]
      OBVIOUS
    <3>1. CASE a = b
      <4>1. k = j
        BY <1>6, <3>1, CreatedUnique DEF PrepInv, b
      <4> QED BY <2>4, <2>8, <3>1, <4>1
    <3>2. CASE a # b
      BY <2>2, <2>5, <2>8, <3>2
    <3> QED BY <3>1, <3>2
  <2> QED BY <1>1, <2>2, <2>8, <2>9, <2>10, <2>11
<1>10. CaptureInv'
  BY <1>1, <1>5 DEF CaptureInv
<1> QED BY <1>4, <1>7, <1>8, <1>9, <1>10 DEF PrepInv

LEMMA CaptureKeeps ==
  ASSUME PrepInv, Capture
  PROVE  PrepInv'
<1>1. /\ UNCHANGED worldVars /\ stage = "recompiled" /\ untweaked = {} /\ tweaking = NoOne /\ stage' = "captured"
      /\ fork' = fork /\ replaying' = replaying /\ artifacts' = artifacts /\ untweaked' = untweaked
      /\ tweaking' = tweaking /\ contracts_in_tx' = contracts_in_tx
  BY DEF Capture, forkVars, tweakVars
<1>2. /\ WorldInv' /\ (Clear(Len(chain))' <=> Clear(Len(chain))) /\ Now' = Now /\ OnChainRun' = OnChainRun
      /\ chain' = chain /\ history' = history /\ quick' = quick /\ listed' = listed /\ build' = build
      /\ (\A a : Created(a, Len(chain))' <=> Created(a, Len(chain)))
      /\ (\A a, n : Created(a, n)' <=> Created(a, n)) /\ (\A n : Clear(n)' <=> Clear(n))
  BY <1>1, SameAtEnd DEF PrepInv
<1>3. StageInv'
  BY <1>1, <1>2 DEF PrepInv, StageInv
<1>4. ForkInv' /\ CtxInv'
  BY <1>1 DEF ForkInv, CtxInv
<1>5. CaptureInv'
  <2>1. SUFFICES ASSUME ~quick, Clear(Len(chain)), NEW n \in DOMAIN OnChainRun, Claimed(n)'
                 PROVE  Shown(n)'
    BY <1>2 DEF CaptureInv
  <2>2. Claimed(n)
    BY <1>1, <1>2, <2>1 DEF Claimed, Created
  <2>3. /\ n \in DOMAIN calls'
        /\ calls'[n] = [OnChainRun[n] EXCEPT !.code.by =
                           IF OnChainRun[n].at \in artifacts THEN OnChainRun[n].at ELSE @]
    BY <2>1, <2>2, CapturedCall DEF PrepInv
  <2> QED BY <1>1, <1>2, <2>3 DEF Shown
<1> QED BY <1>2, <1>3, <1>4, <1>5 DEF PrepInv

LEMMA FailKeeps ==
  ASSUME PrepInv, Fail
  PROVE  PrepInv'
<1>1. /\ UNCHANGED worldVars /\ stage' = "failed" /\ replaying' = <<>> /\ tweaking' = NoOne /\ artifacts' = {}
      /\ untweaked' = {} /\ contracts_in_tx' = {}
  BY DEF Fail
<1>2. WorldInv'
  BY <1>1, SameAtEnd DEF PrepInv
<1>3. StageInv' /\ ForkInv' /\ CtxInv' /\ CaptureInv'
  BY <1>1 DEF StageInv, ForkInv, CtxInv, CaptureInv
<1> QED BY <1>2, <1>3 DEF PrepInv

LEMMA AnalyzeStepsKeeps ==
  ASSUME AnalyzeSteps
  PROVE  PrepInv'
<1>1. /\ stage' = "linking" /\ chain' = <<>> /\ history' = <<Empty>> /\ build' = "same" /\ listed' = TRUE /\ quick' = FALSE
      /\ replaying' = <<>> /\ tweaking' = NoOne /\ artifacts' = {} /\ untweaked' = {} /\ contracts_in_tx' = {}
  BY DEF AnalyzeSteps
<1>2. WorldInv'
  BY <1>1, ForgottenWorld DEF Builds
<1>3. StageInv' /\ ForkInv' /\ CtxInv' /\ CaptureInv'
  BY <1>1 DEF StageInv, ForkInv, CtxInv, CaptureInv
<1> QED BY <1>2, <1>3 DEF PrepInv

LEMMA StutterKeeps ==
  ASSUME PrepInv, UNCHANGED <<worldVars, prepareVars>>
  PROVE  PrepInv'
<1>1. /\ UNCHANGED worldVars /\ stage' = stage /\ ctx' = ctx /\ fork' = fork /\ replaying' = replaying
      /\ visited' = visited /\ artifacts' = artifacts /\ untweaked' = untweaked
      /\ tweaking' = tweaking /\ contracts_in_tx' = contracts_in_tx /\ calls' = calls
  BY DEF prepareVars, forkVars, tweakVars
<1>2. /\ WorldInv' /\ (Clear(Len(chain))' <=> Clear(Len(chain))) /\ Now' = Now /\ OnChainRun' = OnChainRun
      /\ chain' = chain /\ history' = history /\ quick' = quick /\ listed' = listed /\ build' = build
      /\ (\A a : Created(a, Len(chain))' <=> Created(a, Len(chain)))
      /\ (\A a, n : Created(a, n)' <=> Created(a, n)) /\ (\A n : Clear(n)' <=> Clear(n))
  BY <1>1, SameAtEnd DEF PrepInv
<1>3. Created(tweaking, Len(chain))' <=> Created(tweaking, Len(chain))
  BY <1>1, <1>2 DEF Created
<1>4. StageInv'
  BY <1>1, <1>2, <1>3 DEF PrepInv, StageInv
<1>5. ForkFor(Len(chain))' <=> ForkFor(Len(chain))
  BY <1>1, <1>2 DEF ForkFor, Clear, Starts
<1>6. \A n : ForkFor(n)' <=> ForkFor(n)
  BY <1>1, SameFork DEF forkVars
<1>7. \A n : Created(tweaking, n)' <=> Created(tweaking, n)
  BY <1>1, <1>2 DEF Created
<1>8. ForkInv'
  BY <1>1, <1>2, <1>5, <1>6, <1>7 DEF PrepInv, ForkInv
<1>9. CtxInv'
  <2>1. Done' = Done
    BY <1>1 DEF Done
  <2> QED BY <1>1, <1>2, <2>1 DEF PrepInv, CtxInv
<1>10. \A n : (Claimed(n)' <=> Claimed(n)) /\ (Shown(n)' <=> Shown(n))
  BY <1>1, <1>2 DEF Claimed, Shown, Created
<1>11. CaptureInv'
  BY <1>1, <1>2, <1>10 DEF PrepInv, CaptureInv
<1> QED BY <1>2, <1>4, <1>8, <1>9, <1>11 DEF PrepInv

LEMMA InitPrepInv ==
  ASSUME PreparationInit
  PROVE  PrepInv
<1>1. WorldInv
  BY EmptyWorld DEF PreparationInit
<1>2. StageInv /\ ForkInv /\ CtxInv /\ CaptureInv
  BY DEF PreparationInit, StageInv, ForkInv, CtxInv, CaptureInv
<1> QED BY <1>1, <1>2 DEF PrepInv

LEMMA PrepInvRuns ==
  ASSUME PrepInv
  PROVE  RunsInstrumentedCode
<1>1. SUFFICES ASSUME stage = "captured", ~quick, NEW n \in DOMAIN Mined, Replaceable(n), Replayable(n)
               PROVE  /\ n \in DOMAIN calls
                      /\ calls[n] = [Mined[n] EXCEPT !.code.by = IF Mined[n].at \in artifacts THEN Mined[n].at ELSE @]
  BY DEF RunsInstrumentedCode
<1> DEFINE N == Len(chain)
<1>2. N \in Nat /\ N \in 1..N
  <2>1. chain # <<>>
    BY <1>1 DEF PrepInv, StageInv
  <2> QED BY <2>1, LastOfChain, ChainLength DEF PrepInv
<1>3. Mined = OnChainRun
  <2>1. N - 1 + 1 = N
    BY <1>2
  <2>2. StateAt(N - 1) = Now
    BY <2>1 DEF StateAt, Now
  <2> QED BY <2>2 DEF Mined, OnChainRun, Ran, Target
<1>4. Clear(N)
  <2>1. \A k \in BlockOf(N)..N : ~IsSystem(k)
    BY <1>1 DEF Replayable, Target
  <2> QED BY <1>2, <2>1, ReplayableClear DEF PrepInv
<1>5. \A j \in 1..N : Created(Mined[n].at, j) => Clear(j)
  <2> TAKE j \in 1..N
  <2> HAVE Created(Mined[n].at, j)
  <2>1. CreationTx(Mined[n].at) = j
    BY CreationTxIs DEF PrepInv
  <2>2. \A k \in BlockOf(j)..j : ~IsSystem(k)
    BY <1>1, <2>1 DEF Replayable
  <2> QED BY <2>2, ReplayableClear DEF PrepInv
<1>6. Claimed(n)
  BY <1>1, <1>3, <1>5 DEF Claimed, Replaceable
<1>7. Shown(n)
  BY <1>1, <1>3, <1>4, <1>6 DEF PrepInv, CaptureInv
<1> QED BY <1>3, <1>7 DEF Shown

LEMMA SpecPrepInv == PrepareSpec => []PrepInv
<1>1. PrepareInit => PrepInv
  BY InitPrepInv DEF PrepareInit
<1>2. PrepInv /\ [PrepareNext]_allVars => PrepInv'
  <2> SUFFICES ASSUME PrepInv, [PrepareNext]_allVars PROVE PrepInv'
    OBVIOUS
  <2>1. ASSUME PreparationNext PROVE PrepInv'
    <3>1. CASE \E does \in Does, opens_block \in BOOLEAN : Mine(does, opens_block)
      BY <3>1, MineKeeps
    <3>2. CASE \E address \in visited : Download(address)
      BY <3>2, DownloadKeeps
    <3>3. CASE \E address \in untweaked : LeaveToHooks(address) \/ Tweak(address)
      BY <3>3, LeaveToHooksKeeps, TweakKeeps
    <3> QED BY <2>1, <3>1, <3>2, <3>3, ForkAndPrepareKeeps, TransactCommitKeeps, ReplayKeeps, RecompileKeeps, InsertCodeKeeps, CaptureKeeps, FailKeeps
            DEF PreparationNext
  <2>2. CASE UNCHANGED <<worldVars, prepareVars>>
    BY <2>2, StutterKeeps
  <2>3. CASE UNCHANGED allVars
    BY <2>2, <2>3 DEF allVars
  <2> QED BY <2>1, <2>2, <2>3, AnalyzeStepsKeeps DEF PrepareNext
<1> QED BY <1>1, <1>2, PTL DEF PrepareSpec

(* The state that is debugged is the one the chain had in front of the
   transaction, if it can be replayed: only the code of contracts whose source is
   known was replaced, by the same code instrumented for its address
   (forking.rs:101, tweak.rs:133-198). *)
THEOREM PreparedState == PrepareSpec => []CtxInv
<1>1. PrepInv => CtxInv
  BY DEF PrepInv
<1> QED BY <1>1, SpecPrepInv, PTL

(* The run that is shown calls what the transaction called on the chain and runs
   the code it ran there, instrumented where its source is known, for chains of
   any length and any number of steps of the analysis that follows (core.rs:184-329,
   tweak.rs:165-198, hook_snapshot_inspector.rs:547-597). *)
THEOREM PreparedRunsInstrumentedCode == PrepareSpec => []RunsInstrumentedCode
<1>1. PrepInv => RunsInstrumentedCode
  BY PrepInvRuns
<1> QED BY <1>1, SpecPrepInv, PTL
=============================================================================
