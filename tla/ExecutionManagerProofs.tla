------------------------ MODULE ExecutionManagerProofs ------------------------
(***************************************************************************)
(* Proofs about DebugRpc, ManagerCore and ExecutionManager, for any        *)
(* recordings, sessions and breakpoints: what the caches say is what the   *)
(* server would answer, the user waits where the question was asked, and   *)
(* no command runs past a breakpoint.                                      *)
(***************************************************************************)
EXTENDS ExecutionManager, FiniteSetTheorems, WellFoundedInduction, SequenceTheorems, TLAPS

Listed == {breakpoints[i].bp : i \in DOMAIN breakpoints}

(* What may be asked of the server. *)
Legal(request) ==
  /\ request[1] \in {"info", "code_at", "code", "next", "prev", "hits", "diff"}
  /\ request[1] \notin {"code", "hits"} => request[2] \in Snapshot

(* A fact as the server would state it. *)
IsTrue(f) ==
  /\ f[1] = "info" =>
       f[2] \in Snapshot /\ f[3] = <<snapshots[f[2]].next_id, snapshots[f[2]].prev_id>>
  /\ f[1] = "next" => f[2] \in Snapshot /\ f[3] = GetNextCall(snapshots, f[2])
  /\ f[1] = "prev" => f[2] \in Snapshot /\ f[3] = GetPrevCall(snapshots, f[2])
  /\ f[1] = "hits" => f[3] = GetBreakpointHits(snapshots, f[2])

FactsTrue == \A f \in local \union core : IsTrue(f)
RequestsLegal == \A request \in pending \union core_pending \union batch : Legal(request)

(* A breakpoint is waited for until its hits are in the manager's cache. *)
HitsKnown ==
  \A b \in breakpoint_set \union Listed :
     Cached(local, "hits", b) \/ status = WaitBreakpointHits(b)

IInv == ExecutionTypeOK /\ FactsTrue /\ RequestsLegal /\ HitsKnown /\ WaitsWhereItAsked
-----------------------------------------------------------------------------
(* Least and greatest of a set of numbers. *)

LEMMA MinFacts ==
  ASSUME NEW T \in SUBSET Nat, T # {}
  PROVE  Min(T) \in T /\ \A y \in T : Min(T) <= y
<1> DEFINE R == {ss \in Nat \X Nat : ss[1] < ss[2]}
<1>1. IsWellFoundedOn(R, Nat)
  BY NatLessThanWellFounded DEF OpToRel
<1>2. PICK x \in T : \A y \in T : <<y, x>> \notin R
  <2> HIDE DEF R
  <2> QED
    BY <1>1, WFMin
<1>3. ASSUME NEW y \in T PROVE x <= y
  <2>1. x \in Nat /\ y \in Nat /\ <<y, x>> \notin R
    BY <1>2
  <2>2. ~(y < x)
    BY <2>1
  <2> QED
    BY <2>1, <2>2
<1> QED
  BY <1>3 DEF Min

LEMMA MaxFacts ==
  ASSUME NEW T \in SUBSET Nat, T # {}, NEW n \in Nat, \A y \in T : y <= n
  PROVE  Max(T) \in T /\ \A y \in T : y <= Max(T)
<1> DEFINE B == {b \in Nat : \A y \in T : y <= b}
           m == Min(B)
<1>1. B \in SUBSET Nat /\ B # {}
  OBVIOUS
<1>2. m \in B /\ \A b \in B : m <= b
  <2> HIDE DEF B
  <2> QED
    BY <1>1, MinFacts
<1>3. m \in Nat /\ \A y \in T : y <= m
  BY <1>2
<1>4. m \in T
  <2>1. SUFFICES ASSUME m \notin T PROVE FALSE
    OBVIOUS
  <2>2. PICK y \in T : TRUE
    OBVIOUS
  <2> HIDE DEF m
  <2>3. \A z \in T : z \in Nat /\ z < m
    BY <1>3, <2>1
  <2>4. m - 1 \in Nat /\ \A z \in T : z <= m - 1
    BY <1>3, <2>2, <2>3
  <2>5. m - 1 \in B
    BY <2>4
  <2> QED
    BY <1>2, <1>3, <2>5
<1> HIDE DEF m, B
<1>5. \A y \in T : m >= y
  BY <1>3
<1>6. \E x \in T : \A y \in T : x >= y
  BY <1>4, <1>5
<1>7. Max(T) \in T /\ \A y \in T : Max(T) >= y
  BY <1>6 DEF Max
<1> QED
  BY <1>7
-----------------------------------------------------------------------------
(* The recording, and the answers of the server. *)

Final == Cardinality(DOMAIN snapshots) - 1

LEMMA RecordingFacts ==
  ASSUME ExecutionTypeOK
  PROVE  /\ Snapshot = 0..Final /\ Final \in Nat
         /\ LastId(snapshots) = Final
         /\ \A i \in Snapshot : /\ snapshots[i].next_id \in Snapshot
                                /\ snapshots[i].prev_id \in Snapshot
<1>1. /\ Snapshot # {} /\ Snapshot = 0..Final
      /\ \A i \in Snapshot : /\ snapshots[i].next_id \in Snapshot
                             /\ snapshots[i].prev_id \in Snapshot
  BY RecordingsAssumption DEF ExecutionTypeOK, Snapshot, Ids, Final
<1>2. Cardinality(DOMAIN snapshots) \in Nat
  BY RecordingsAssumption, FS_CardinalityType DEF ExecutionTypeOK
<1>3. Final \in Nat
  BY <1>1, <1>2 DEF Final
<1>4. LastId(snapshots) = Final
  <2>1. \A id : id \in Snapshot /\ id + 1 \notin Snapshot <=> id = Final
    BY <1>1, <1>3
  <2> QED
    BY <2>1 DEF LastId, Snapshot
<1> QED
  BY <1>1, <1>3, <1>4

LEMMA SanitizedFacts ==
  ASSUME ExecutionTypeOK, NEW id \in Nat
  PROVE  Sanitized(id) \in Snapshot
<1>1. Final \in Nat /\ LastId(snapshots) = Final /\ Snapshot = 0..Final
  BY RecordingFacts
<1>2. {id, Final} \in SUBSET Nat /\ {id, Final} # {}
  BY <1>1
<1>3. Min({id, Final}) \in {id, Final} /\ Min({id, Final}) <= Final
  BY <1>2, MinFacts
<1> QED
  BY <1>1, <1>3 DEF Sanitized

CallsAfter(id) == {i \in Snapshot : i > id /\ SnapshotIsCall(snapshots[i])}
CallsBefore(id) == {i \in Snapshot : i < id /\ SnapshotIsCall(snapshots[i])}

(* get_next_call answers with a snapshot from id on, and the same for all
   that are passed on the way. *)
LEMMA NextCallLemma ==
  ASSUME ExecutionTypeOK, NEW id \in Snapshot
  PROVE  LET n == GetNextCall(snapshots, id) IN
         /\ n \in Snapshot /\ id <= n
         /\ \A i \in (id + 1)..(n - 1) : i \in Snapshot /\ GetNextCall(snapshots, i) = n
<1> DEFINE n == GetNextCall(snapshots, id)
<1>1. Final \in Nat /\ LastId(snapshots) = Final /\ Snapshot = 0..Final
  BY RecordingFacts
<1>2. \A i : GetNextCall(snapshots, i) =
               IF CallsAfter(i) = {} THEN Final ELSE Min(CallsAfter(i))
  BY <1>1 DEF GetNextCall, CallsAfter, Snapshot
<1>3. \A i \in Snapshot : CallsAfter(i) # {} =>
         /\ Min(CallsAfter(i)) \in CallsAfter(i)
         /\ \A y \in CallsAfter(i) : Min(CallsAfter(i)) <= y
  <2> SUFFICES ASSUME NEW i \in Snapshot, CallsAfter(i) # {}
               PROVE  /\ Min(CallsAfter(i)) \in CallsAfter(i)
                      /\ \A y \in CallsAfter(i) : Min(CallsAfter(i)) <= y
    OBVIOUS
  <2>1. CallsAfter(i) \in SUBSET Nat
    BY <1>1 DEF CallsAfter
  <2> QED
    BY <2>1, MinFacts
<1>4. n \in Snapshot /\ id <= n
  <2>1. CASE CallsAfter(id) = {}
    BY <1>1, <1>2, <2>1
  <2>2. CASE CallsAfter(id) # {}
    <3>1. n \in CallsAfter(id)
      BY <1>2, <1>3, <2>2
    <3> QED
      BY <1>1, <3>1 DEF CallsAfter
  <2> QED
    BY <2>1, <2>2
<1>5. ASSUME NEW i \in (id + 1)..(n - 1)
      PROVE  i \in Snapshot /\ GetNextCall(snapshots, i) = n
  <2>1. i \in Snapshot /\ id < i /\ i < n
    BY <1>1, <1>4
  <2>2. CallsAfter(i) \subseteq CallsAfter(id)
    BY <1>1, <2>1 DEF CallsAfter
  <2>3. CASE CallsAfter(id) = {}
    BY <1>2, <2>1, <2>2, <2>3
  <2>4. CASE CallsAfter(id) # {}
    <3>1. n \in CallsAfter(id) /\ n = Min(CallsAfter(id))
      BY <1>2, <1>3, <2>4
    <3>2. n \in CallsAfter(i)
      BY <1>1, <2>1, <3>1 DEF CallsAfter
    <3>3. Min(CallsAfter(i)) \in CallsAfter(i) /\ Min(CallsAfter(i)) <= n
      BY <1>3, <2>1, <3>2
    <3>4. n <= Min(CallsAfter(i))
      BY <1>3, <2>2, <2>4, <3>1, <3>3
    <3>5. Min(CallsAfter(i)) \in Nat /\ n \in Nat
      BY <1>1, <3>1, <3>3 DEF CallsAfter
    <3>6. Min(CallsAfter(i)) = n
      BY <3>3, <3>4, <3>5
    <3> QED
      BY <1>2, <2>1, <3>2, <3>6
  <2> QED
    BY <2>3, <2>4
<1> QED
  BY <1>4, <1>5

LEMMA PrevCallLemma ==
  ASSUME ExecutionTypeOK, NEW id \in Snapshot
  PROVE  LET n == GetPrevCall(snapshots, id) IN
         /\ n \in Snapshot /\ n <= id
         /\ \A i \in (n + 1)..(id - 1) : i \in Snapshot /\ GetPrevCall(snapshots, i) = n
<1> DEFINE n == GetPrevCall(snapshots, id)
<1>1. Final \in Nat /\ Snapshot = 0..Final
  BY RecordingFacts
<1>2. \A i : GetPrevCall(snapshots, i) =
               IF CallsBefore(i) = {} THEN 0 ELSE Max(CallsBefore(i))
  BY DEF GetPrevCall, CallsBefore, Snapshot
<1>3. \A i \in Snapshot : CallsBefore(i) # {} =>
         /\ Max(CallsBefore(i)) \in CallsBefore(i)
         /\ \A y \in CallsBefore(i) : y <= Max(CallsBefore(i))
  <2> SUFFICES ASSUME NEW i \in Snapshot, CallsBefore(i) # {}
               PROVE  /\ Max(CallsBefore(i)) \in CallsBefore(i)
                      /\ \A y \in CallsBefore(i) : y <= Max(CallsBefore(i))
    OBVIOUS
  <2>1. CallsBefore(i) \in SUBSET Nat /\ i \in Nat /\ \A y \in CallsBefore(i) : y <= i
    BY <1>1 DEF CallsBefore
  <2> QED
    BY <2>1, MaxFacts
<1>4. n \in Snapshot /\ n <= id
  <2>1. CASE CallsBefore(id) = {}
    BY <1>1, <1>2, <2>1
  <2>2. CASE CallsBefore(id) # {}
    <3>1. n \in CallsBefore(id)
      BY <1>2, <1>3, <2>2
    <3> QED
      BY <1>1, <3>1 DEF CallsBefore
  <2> QED
    BY <2>1, <2>2
<1>5. ASSUME NEW i \in (n + 1)..(id - 1)
      PROVE  i \in Snapshot /\ GetPrevCall(snapshots, i) = n
  <2>1. i \in Snapshot /\ n < i /\ i < id
    BY <1>1, <1>4
  <2>2. CallsBefore(i) \subseteq CallsBefore(id)
    BY <1>1, <2>1 DEF CallsBefore
  <2>3. CASE CallsBefore(id) = {}
    BY <1>2, <2>1, <2>2, <2>3
  <2>4. CASE CallsBefore(id) # {}
    <3>1. n \in CallsBefore(id) /\ n = Max(CallsBefore(id))
      BY <1>2, <1>3, <2>4
    <3>2. n \in CallsBefore(i)
      BY <1>1, <2>1, <3>1 DEF CallsBefore
    <3>3. Max(CallsBefore(i)) \in CallsBefore(i) /\ n <= Max(CallsBefore(i))
      BY <1>3, <2>1, <3>2
    <3>4. Max(CallsBefore(i)) <= n
      BY <1>3, <2>2, <2>4, <3>1, <3>3
    <3>5. Max(CallsBefore(i)) \in Nat /\ n \in Nat
      BY <1>1, <3>1, <3>3 DEF CallsBefore
    <3>6. Max(CallsBefore(i)) = n
      BY <3>3, <3>4, <3>5
    <3> QED
      BY <1>2, <2>1, <3>2, <3>6
  <2> QED
    BY <2>3, <2>4
<1> QED
  BY <1>4, <1>5

(* The server's answers are true. *)
LEMMA FactsOfLegal ==
  ASSUME ExecutionTypeOK, NEW request, Legal(request), NEW f \in FactsOf(request)
  PROVE  IsTrue(f)
<1> DEFINE key == request[2]
<1>1. CASE request[1] \in {"info", "code_at"}
  BY <1>1 DEF Legal, FactsOf, InfoFact, CodeFact, IsTrue
<1>2. CASE request[1] \in {"code", "hits", "diff"}
  BY <1>2 DEF FactsOf, CodeFact, IsTrue
<1>3. CASE request[1] = "next"
  <2>1. key \in Snapshot /\ f \in NextCallFacts(key)
    BY <1>3 DEF Legal, FactsOf
  <2>2. PICK i \in {key} \union (key + 1)..(GetNextCall(snapshots, key) - 1) :
           f = <<"next", i, GetNextCall(snapshots, key)>>
    BY <2>1 DEF NextCallFacts
  <2>3. i \in Snapshot /\ GetNextCall(snapshots, i) = GetNextCall(snapshots, key)
    BY <2>1, <2>2, NextCallLemma
  <2> QED
    BY <2>2, <2>3 DEF IsTrue
<1>4. CASE request[1] = "prev"
  <2>1. key \in Snapshot /\ f \in PrevCallFacts(key)
    BY <1>4 DEF Legal, FactsOf
  <2>2. PICK i \in {key} \union (GetPrevCall(snapshots, key) + 1)..(key - 1) :
           f = <<"prev", i, GetPrevCall(snapshots, key)>>
    BY <2>1 DEF PrevCallFacts
  <2>3. i \in Snapshot /\ GetPrevCall(snapshots, i) = GetPrevCall(snapshots, key)
    BY <2>1, <2>2, PrevCallLemma
  <2> QED
    BY <2>2, <2>3 DEF IsTrue
<1> QED
  BY <1>1, <1>2, <1>3, <1>4 DEF Legal
-----------------------------------------------------------------------------
(* The manager's caches and its requests. *)

LEMMA PulledFacts ==
  ASSUME FactsTrue
  PROVE  /\ local \subseteq Pulled /\ Pulled \subseteq local \union core
         /\ \A f \in Pulled : IsTrue(f)
         /\ \A kind, key : Cached(local, kind, key) => Known(kind, key)
<1>1. local \subseteq Pulled /\ Pulled \subseteq local \union core
  BY DEF Pulled, Updated
<1> QED
  BY <1>1 DEF FactsTrue, Known, Cached

LEMMA ValueFacts ==
  ASSUME FactsTrue, NEW kind, NEW key, Known(kind, key)
  PROVE  /\ kind = "info" => /\ key \in Snapshot
                             /\ Value(kind, key) =
                                  <<snapshots[key].next_id, snapshots[key].prev_id>>
         /\ kind = "next" => key \in Snapshot /\ Value(kind, key) = GetNextCall(snapshots, key)
         /\ kind = "prev" => key \in Snapshot /\ Value(kind, key) = GetPrevCall(snapshots, key)
         /\ kind = "hits" => Value(kind, key) = GetBreakpointHits(snapshots, key)
<1>1. \E f \in Pulled : f[1] = kind /\ f[2] = key
  BY DEF Known, Cached
<1>2. PICK f \in Pulled : f[1] = kind /\ f[2] = key /\ Value(kind, key) = f[3]
  BY <1>1 DEF Value, Cell
<1>3. IsTrue(f)
  BY <1>2, PulledFacts
<1> QED
  BY <1>2, <1>3 DEF IsTrue

LEMMA LegalRequests ==
  /\ \A id \in Snapshot : \A request \in MissingOf(id) : Legal(request)
  /\ \A request \in UnknownHits : Legal(request)
  /\ \A b : \A request \in Missing("hits", b) : Legal(request)
  /\ \A a : \A request \in Missing("code", a) : Legal(request)
<1>1. \A kind, key : Missing(kind, key) \subseteq {<<kind, key>>}
  BY DEF Missing
<1>2. \A id \in Snapshot : \A request \in MissingOf(id) : Legal(request)
  BY DEF MissingOf, Legal
<1>3. \A b : \A request \in Missing("hits", b) : Legal(request)
  BY <1>1 DEF Legal
<1>4. \A a : \A request \in Missing("code", a) : Legal(request)
  BY <1>1 DEF Legal
<1>5. \A request \in UnknownHits : Legal(request)
  BY <1>3 DEF UnknownHits
<1> QED
  BY <1>2, <1>3, <1>4, <1>5

(* Whatever an operation asks for, it keeps what the caches say and forgets
   no fact. *)
LEMMA OperationFacts ==
  ASSUME IInv, NEW R, \A request \in R : Legal(request),
         local' = Pulled, UNCHANGED <<core, batch, fixed>>, NewFetchingRequests(R)
  PROVE  /\ FactsTrue' /\ RequestsLegal' /\ snapshots' = snapshots
         /\ \A kind, key : Known(kind, key) => Cached(local', kind, key)
         /\ \A kind, key : Cached(local, kind, key) => Cached(local', kind, key)
<1>1. snapshots' = snapshots
  BY DEF fixed
<1>2. FactsTrue'
  <2>1. \A f \in local' \union core' : f \in local \union core
    BY PulledFacts DEF IInv
  <2> QED
    BY <1>1, <2>1 DEF IInv, FactsTrue, IsTrue, Snapshot
<1>3. RequestsLegal'
  <2>1. pending' \union core_pending' \union batch'
          \subseteq pending \union core_pending \union batch \union R
    BY DEF NewFetchingRequests
  <2>2. \A request \in pending' \union core_pending' \union batch' : Legal(request)
    BY <2>1 DEF IInv, RequestsLegal
  <2> QED
    BY <1>1, <2>2 DEF RequestsLegal, Legal, Snapshot
<1>4. \A kind, key : Known(kind, key) => Cached(local', kind, key)
  BY DEF Known
<1> QED
  BY <1>1, <1>2, <1>3, <1>4, PulledFacts DEF IInv

(* The kinds of waiting exclude each other. *)
LEMMA StatusFacts ==
  ASSUME ExecutionTypeOK
  PROVE  /\ status.waits \in {"none", "next", "prev", "hits"}
         /\ ~Waiting <=> status = Normal
         /\ Waiting <=> status.waits # "none"
         /\ status.waits = "hits" => /\ status.bp \in AllBreakpoints
                                     /\ status = WaitBreakpointHits(status.bp)
         /\ status.waits \in {"next", "prev"} => status.for \in Snapshot
         /\ status.waits # "hits" => \A b : status # WaitBreakpointHits(b)
  BY DEF ExecutionTypeOK, Waiting, Normal, WaitNextCall, WaitPrevCall, WaitBreakpointHits

LEMMA EnabledFacts ==
  ASSUME ExecutionTypeOK
  PROVE  Enabled \subseteq Listed /\ Listed \subseteq AllBreakpoints
<1>1. \A i \in DOMAIN breakpoints : breakpoints[i] \in [bp : AllBreakpoints, enabled : BOOLEAN]
  BY ElementOfSeq, LenProperties DEF ExecutionTypeOK
<1> QED
  BY <1>1 DEF Enabled, Listed

(* find_breakpoint_hit_in_range stays in the recording and, unless an answer
   about hits is awaited, before the first hit of an enabled breakpoint. *)
LEMMA FindFacts ==
  ASSUME IInv, NEW id \in Snapshot
  PROVE  LET to == FindBreakpointHitInRange(current, id) IN
         /\ to \in Snapshot
         /\ status.waits # "hits" =>
              \A b \in Enabled : \A h \in GetBreakpointHits(snapshots, b) :
                 ~(current < h /\ h < to)
<1> DEFINE hits == UNION {Value("hits", b) : b \in {b \in Enabled : Known("hits", b)}}
           ahead == {h \in hits : current < h /\ h <= id}
           behind == {h \in hits : id <= h /\ h < current}
           to == FindBreakpointHitInRange(current, id)
<1>1. ExecutionTypeOK /\ FactsTrue /\ HitsKnown
  BY DEF IInv
<1>2. Snapshot \in SUBSET Nat /\ current \in Snapshot
  BY <1>1, RecordingFacts DEF ExecutionTypeOK
<1>3. \A b : Known("hits", b) => Value("hits", b) = GetBreakpointHits(snapshots, b)
  BY <1>1, ValueFacts
<1>4. hits \subseteq Snapshot
  BY <1>3 DEF GetBreakpointHits, Snapshot
<1>5. to = CASE current < id /\ ahead # {} -> Min(ahead)
             [] id < current /\ behind # {} -> Max(behind)
             [] OTHER -> id
  BY DEF FindBreakpointHitInRange
<1>6. ASSUME status.waits # "hits", NEW b \in Enabled, NEW h \in GetBreakpointHits(snapshots, b)
      PROVE  h \in hits
  <2>1. Known("hits", b)
    BY <1>1, <1>6, StatusFacts, EnabledFacts, PulledFacts DEF HitsKnown
  <2> QED
    BY <1>3, <2>1
<1> HIDE DEF hits, to
<1>a. ahead \in SUBSET Nat /\ behind \in SUBSET Nat /\ current \in Nat /\ id \in Nat
  BY <1>2, <1>4
<1>7. CASE current < id /\ ahead # {}
  <2>1. to = Min(ahead)
    BY <1>5, <1>7, <1>a
  <2>2. to \in ahead /\ \A y \in ahead : to <= y
    <3> HIDE DEF ahead
    <3> QED
      BY <1>7, <1>a, <2>1, MinFacts
  <2>3. to \in Snapshot /\ to <= id
    BY <1>4, <2>2
  <2>4. ASSUME status.waits # "hits", NEW b \in Enabled,
               NEW h \in GetBreakpointHits(snapshots, b), current < h, h < to
        PROVE  FALSE
    <3>1. h \in hits /\ h \in Nat /\ to \in Nat
      BY <1>2, <1>4, <1>6, <2>3, <2>4
    <3>2. h \in ahead
      BY <1>a, <2>3, <2>4, <3>1
    <3> QED
      BY <2>2, <2>4, <3>1, <3>2
  <2> QED
    BY <2>3, <2>4 DEF to
<1>8. CASE id < current /\ behind # {}
  <2>1. to = Max(behind)
    BY <1>5, <1>8, <1>a
  <2>2. to \in behind
    <3>1. \A y \in behind : y <= current
      BY <1>a
    <3> HIDE DEF behind
    <3> QED
      BY <1>8, <1>a, <2>1, <3>1, MaxFacts
  <2>3. to \in Snapshot /\ to < current
    BY <1>4, <2>2
  <2>4. \A h \in Snapshot : ~(current < h /\ h < to)
    BY <1>2, <2>3
  <2> QED
    BY <2>3, <2>4 DEF to, GetBreakpointHits, Snapshot
<1>9. CASE ~(current < id /\ ahead # {}) /\ ~(id < current /\ behind # {})
  <2>1. to = id
    BY <1>5, <1>9
  <2>2. ASSUME status.waits # "hits", NEW b \in Enabled,
               NEW h \in GetBreakpointHits(snapshots, b), current < h, h < to
        PROVE  FALSE
    <3>1. h \in hits /\ h \in Nat
      BY <1>2, <1>4, <1>6, <2>2
    <3>2. h \in ahead
      BY <1>a, <2>1, <2>2, <3>1
    <3> QED
      BY <1>9, <1>a, <2>1, <2>2, <3>1, <3>2
  <2> QED
    BY <2>1, <2>2 DEF to
<1> QED
  BY <1>7, <1>8, <1>9
-----------------------------------------------------------------------------
(* The operations. *)

(* Where goto_snapshot ends, nothing is waited for any more. *)
LEMMA GotoKeeps ==
  ASSUME IInv, status.waits # "hits", status' = Normal,
         NEW id \in Snapshot, NEW stop \in BOOLEAN,
         NEW asked, \A request \in asked : Legal(request),
         GotoSnapshotAsking(id, stop, asked)
  PROVE  IInv'
<1> DEFINE to == IF stop THEN FindBreakpointHitInRange(current, id) ELSE id
           unknown == IF stop /\ id # current THEN UnknownHits ELSE {}
           R == unknown \union MissingOf(to) \union asked
<1>1. /\ current' = to /\ displayed' = to /\ local' = Pulled
      /\ NewFetchingRequests(R)
      /\ UNCHANGED <<core, batch, fixed, breakpoints, breakpoint_set>>
  BY DEF GotoSnapshotAsking
<1>2. to \in Snapshot
  BY FindFacts
<1> HIDE DEF to
<1>3. \A request \in R : Legal(request)
  BY <1>2, LegalRequests
<1> HIDE DEF R
<1>4. /\ FactsTrue' /\ RequestsLegal' /\ snapshots' = snapshots
      /\ \A kind, key : Cached(local, kind, key) => Cached(local', kind, key)
  BY <1>1, <1>3, OperationFacts
<1>5. ExecutionTypeOK'
  BY <1>1, <1>2, <1>4 DEF IInv, ExecutionTypeOK, Snapshot
<1>6. HitsKnown'
  <2>1. \A b \in breakpoint_set \union Listed : Cached(local, "hits", b)
    BY StatusFacts DEF IInv, HitsKnown
  <2>2. \A b \in breakpoint_set' \union Listed' : Cached(local', "hits", b)
    BY <1>1, <1>4, <2>1 DEF Listed
  <2> QED
    BY <2>2 DEF HitsKnown, Cached
<1>7. WaitsWhereItAsked'
  BY DEF WaitsWhereItAsked, Normal
<1> QED
  BY <1>4, <1>5, <1>6, <1>7 DEF IInv

(* An operation that stays where it is. *)
LEMMA RequestKeeps ==
  ASSUME IInv, NEW R, \A request \in R : Legal(request), OnlyRequest(R),
         \/ status' = status
         \/ status' = WaitNextCall(current) /\ ~Waiting
         \/ status' = WaitPrevCall(current) /\ ~Waiting
         \/ status.waits = "hits" /\ Known("hits", status.bp) /\ status' = Normal
  PROVE  IInv'
<1>1. /\ local' = Pulled /\ NewFetchingRequests(R)
      /\ UNCHANGED <<core, batch, fixed, current, displayed, breakpoints, breakpoint_set>>
  BY DEF OnlyRequest, OnlyRequestMore
<1>2. /\ FactsTrue' /\ RequestsLegal' /\ snapshots' = snapshots
      /\ \A kind, key : Known(kind, key) => Cached(local', kind, key)
      /\ \A kind, key : Cached(local, kind, key) => Cached(local', kind, key)
  BY <1>1, OperationFacts
<1>3. ExecutionTypeOK'
  <2>1. ExecutionTypeOK
    BY DEF IInv
  <2>2. status' \in {Normal} \union {WaitNextCall(i) : i \in Snapshot}
                  \union {WaitPrevCall(i) : i \in Snapshot}
                  \union {WaitBreakpointHits(b) : b \in AllBreakpoints}
    BY <2>1 DEF ExecutionTypeOK
  <2> QED
    BY <1>1, <1>2, <2>1, <2>2 DEF ExecutionTypeOK, Snapshot
<1>4. WaitsWhereItAsked'
  BY <1>1 DEF IInv, WaitsWhereItAsked, Normal, WaitNextCall, WaitPrevCall
<1>5. HitsKnown'
  <2>1. \A b \in breakpoint_set \union Listed :
           Cached(local', "hits", b) \/ status' = WaitBreakpointHits(b)
    <3> SUFFICES ASSUME NEW b \in breakpoint_set \union Listed, ~Cached(local, "hits", b)
                 PROVE  Cached(local', "hits", b) \/ status' = WaitBreakpointHits(b)
      BY <1>2
    <3>1. status = WaitBreakpointHits(b)
      BY DEF IInv, HitsKnown
    <3>2. status.waits = "hits" /\ status.bp = b /\ Waiting
      BY <3>1 DEF WaitBreakpointHits, Waiting, Normal
    <3> QED
      BY <1>2, <3>1, <3>2
  <2>2. Listed' = Listed
    BY <1>1 DEF Listed
  <2> QED
    BY <1>1, <2>1, <2>2 DEF HitsKnown, Cached
<1> QED
  BY <1>2, <1>3, <1>4, <1>5 DEF IInv

(* add_breakpoint and update_breakpoint_condition, which then wait for hits. *)
LEMMA AwaitKeeps ==
  ASSUME IInv, ~Waiting, NEW b \in AllBreakpoints, AwaitHits(b),
         breakpoints' \in Seq([bp : AllBreakpoints, enabled : BOOLEAN]),
         breakpoint_set' \subseteq breakpoint_set \union {b},
         Listed' \subseteq Listed \union {b},
         b \in Listed' \/ b \in breakpoint_set
  PROVE  IInv'
<1> DEFINE R == Missing("hits", b)
<1>1. /\ local' = Pulled /\ NewFetchingRequests(R)
      /\ UNCHANGED <<core, batch, fixed, current, displayed>>
      /\ status' = IF Known("hits", b) THEN Normal ELSE WaitBreakpointHits(b)
  BY DEF AwaitHits, OnlyRequestMore
<1>2. \A request \in R : Legal(request)
  BY LegalRequests
<1> HIDE DEF R
<1>3. /\ FactsTrue' /\ RequestsLegal' /\ snapshots' = snapshots
      /\ \A kind, key : Known(kind, key) => Cached(local', kind, key)
      /\ \A kind, key : Cached(local, kind, key) => Cached(local', kind, key)
  BY <1>1, <1>2, OperationFacts
<1>4. \A c \in breakpoint_set \union Listed : Cached(local, "hits", c)
  BY StatusFacts DEF IInv, HitsKnown, WaitBreakpointHits, Normal
<1>5. HitsKnown'
  <2>1. \A c \in breakpoint_set' \union Listed' :
           Cached(local', "hits", c) \/ status' = WaitBreakpointHits(c)
    BY <1>1, <1>3, <1>4
  <2> QED
    BY <2>1 DEF HitsKnown, Cached
<1>6. WaitsWhereItAsked'
  <2>1. CASE Known("hits", b)
    BY <1>1, <2>1 DEF WaitsWhereItAsked, Normal
  <2>2. CASE ~Known("hits", b)
    <3>1. b \in Listed'
      BY <1>4, <2>2, PulledFacts DEF IInv
    <3>2. status'.waits = "hits" /\ status'.bp = b
      BY <1>1, <2>2 DEF WaitBreakpointHits
    <3> QED
      BY <3>1, <3>2 DEF WaitsWhereItAsked, Listed
  <2> QED
    BY <2>1, <2>2
<1>7. ExecutionTypeOK'
  <2>1. breakpoint_set' \subseteq AllBreakpoints
    BY DEF IInv, ExecutionTypeOK
  <2> QED
    BY <1>1, <1>3, <2>1 DEF IInv, ExecutionTypeOK, Snapshot
<1> QED
  BY <1>3, <1>5, <1>6, <1>7 DEF IInv

(* The other operations on breakpoints take some away, or turn them on or off. *)
LEMMA ListKeeps ==
  ASSUME IInv, ~Waiting,
         UNCHANGED <<managerVars, fixed, status, current, displayed>>,
         breakpoints' \in Seq([bp : AllBreakpoints, enabled : BOOLEAN]),
         breakpoint_set' \subseteq breakpoint_set, Listed' \subseteq Listed
  PROVE  IInv'
<1>1. /\ UNCHANGED <<local, core, pending, core_pending, batch, snapshots>>
      /\ UNCHANGED <<status, current, displayed>>
  BY DEF managerVars, fixed
<1>2. FactsTrue' /\ RequestsLegal'
  BY <1>1 DEF IInv, FactsTrue, IsTrue, RequestsLegal, Legal, Snapshot
<1>3. HitsKnown'
  BY <1>1 DEF IInv, HitsKnown, Cached
<1>4. WaitsWhereItAsked'
  BY <1>1, StatusFacts DEF IInv, WaitsWhereItAsked, Normal
<1>5. ExecutionTypeOK'
  BY <1>1 DEF IInv, ExecutionTypeOK, Snapshot
<1> QED
  BY <1>2, <1>3, <1>4, <1>5 DEF IInv

(* The background task. *)
LEMMA BackgroundKeeps ==
  ASSUME IInv, Idle, Tick \/ Take \/ \E ok \in SUBSET batch : Finish(FetchData(core, ok))
  PROVE  IInv'
<1>1. /\ snapshots' = snapshots
      /\ UNCHANGED <<status, current, displayed, breakpoints, breakpoint_set>>
  BY DEF Idle, fixed
<1>2. FactsTrue' /\ local \subseteq local'
  <2>1. CASE Tick \/ Take
    <3>1. local' \union core' \subseteq local \union core /\ local \subseteq local'
      BY <2>1, PulledFacts DEF IInv, Tick, Take
    <3> QED
      BY <1>1, <3>1 DEF IInv, FactsTrue, IsTrue, Snapshot
  <2>2. ASSUME NEW ok \in SUBSET batch, Finish(FetchData(core, ok))
        PROVE  FactsTrue' /\ local \subseteq local'
    <3>1. local' = local /\ core' = FetchData(core, ok)
      BY <2>2 DEF Finish
    <3>2. \A f \in core' : f \in core \/ \E request \in ok : f \in FactsOf(request)
      BY <3>1 DEF FetchData
    <3>3. \A f \in local' \union core' : IsTrue(f)
      BY <3>1, <3>2, FactsOfLegal DEF IInv, FactsTrue, RequestsLegal
    <3> QED
      BY <1>1, <3>1, <3>3 DEF FactsTrue, IsTrue, Snapshot
  <2> QED
    BY <2>1, <2>2
<1>3. RequestsLegal'
  <2>1. pending' \union core_pending' \union batch' \subseteq pending \union core_pending \union batch
    BY DEF Tick, Take, Finish
  <2> QED
    BY <1>1, <2>1 DEF IInv, RequestsLegal, Legal, Snapshot
<1>4. HitsKnown'
  <2>1. Listed' = Listed
    BY <1>1 DEF Listed
  <2> QED
    BY <1>1, <1>2, <2>1 DEF IInv, HitsKnown, Cached
<1>5. WaitsWhereItAsked'
  BY <1>1 DEF IInv, WaitsWhereItAsked
<1>6. ExecutionTypeOK'
  BY <1>1 DEF IInv, ExecutionTypeOK, Snapshot
<1> QED
  BY <1>2, <1>3, <1>4, <1>5, <1>6 DEF IInv
-----------------------------------------------------------------------------
(* The commands in terms of these operations. *)

(* What only asks: nothing moves, and status may begin or cease to wait. *)
Asks ==
  \E R :
    /\ \A request \in R : Legal(request)
    /\ OnlyRequest(R)
    /\ \/ status' = status
       \/ status' = WaitNextCall(current) /\ ~Waiting
       \/ status' = WaitPrevCall(current) /\ ~Waiting
       \/ status.waits = "hits" /\ Known("hits", status.bp) /\ status' = Normal

LEMMA AsksKeeps ==
  ASSUME IInv, Asks
  PROVE  IInv'
<1>1. PICK R :
         /\ \A request \in R : Legal(request)
         /\ OnlyRequest(R)
         /\ \/ status' = status
            \/ status' = WaitNextCall(current) /\ ~Waiting
            \/ status' = WaitPrevCall(current) /\ ~Waiting
            \/ status.waits = "hits" /\ Known("hits", status.bp) /\ status' = Normal
  BY DEF Asks
<1> QED
  BY <1>1, RequestKeeps

(* check_pending_request goes on to the next call, back to the previous one,
   or only asks. *)
LEMMA PendingFacts ==
  ASSUME IInv, CheckPendingRequest
  PROVE  \/ \E id \in Snapshot : status.waits = "next" /\ status' = Normal /\ GotoSnapshot(id, TRUE)
         \/ \E id \in Snapshot : /\ id <= current
                                 /\ status.waits = "prev" /\ status' = Normal
                                 /\ GotoSnapshot(id, FALSE)
         \/ Asks
<1>1. FactsTrue /\ ExecutionTypeOK /\ WaitsWhereItAsked
  BY DEF IInv
<1>2. CASE /\ status.waits \in {"next", "prev"} /\ Known(status.waits, status.for)
           /\ status' = Normal
           /\ GotoSnapshotAsking(Value(status.waits, status.for), status.waits = "next", {})
  <2>1. CASE status.waits = "next"
    <3>1. (status.waits = "next") = TRUE
      BY <2>1
    <3>2. GotoSnapshot(Value("next", status.for), TRUE)
      BY <1>2, <2>1, <3>1 DEF GotoSnapshot
    <3>3. Value("next", status.for) \in Snapshot
      <4>1. status.for \in Snapshot /\ Value("next", status.for) = GetNextCall(snapshots, status.for)
        BY <1>1, <1>2, <2>1, ValueFacts
      <4> QED
        BY <1>1, <4>1, NextCallLemma
    <3> QED
      BY <1>2, <2>1, <3>2, <3>3
  <2>2. CASE status.waits = "prev"
    <3>1. (status.waits = "next") = FALSE
      BY <2>2
    <3>2. GotoSnapshot(Value("prev", status.for), FALSE)
      BY <1>2, <2>2, <3>1 DEF GotoSnapshot
    <3>3. Value("prev", status.for) \in Snapshot /\ Value("prev", status.for) <= current
      <4>1. status.for \in Snapshot /\ Value("prev", status.for) = GetPrevCall(snapshots, status.for)
        BY <1>1, <1>2, <2>2, ValueFacts
      <4>2. status.for = current
        BY <1>1, <2>2 DEF WaitsWhereItAsked
      <4> QED
        BY <1>1, <4>1, <4>2, PrevCallLemma
    <3> QED
      BY <1>2, <2>2, <3>2, <3>3
  <2> QED
    BY <1>2, <2>1, <2>2
<1>3. CASE /\ status.waits \in {"next", "prev"}
           /\ OnlyRequest({<<status.waits, status.for>>} \union {})
           /\ UNCHANGED status
  <2>1. status.for \in Snapshot
    BY <1>1, <1>3, StatusFacts
  <2>2. \A request \in {<<status.waits, status.for>>} \union {} : Legal(request)
    BY <1>3, <2>1 DEF Legal
  <2> QED
    BY <1>3, <2>2 DEF Asks
<1>4. CASE /\ status.waits = "hits"
           /\ OnlyRequest(Missing("hits", status.bp) \union {})
           /\ status' = IF Known("hits", status.bp) THEN Normal ELSE status
  <2>1. \A request \in Missing("hits", status.bp) \union {} : Legal(request)
    BY LegalRequests
  <2> QED
    BY <1>4, <2>1 DEF Asks
<1> QED
  BY <1>2, <1>3, <1>4 DEF CheckPendingRequest, CheckPendingRequestAsking

LEMMA RedrawAsks ==
  ASSUME IInv, Redraw
  PROVE  Asks
<1> DEFINE R == UnknownHits \union MissingOf(current) \union MissingOf(displayed)
<1>1. OnlyRequest(R) /\ status' = status
  BY DEF Redraw
<1>2. \A request \in R : Legal(request)
  BY LegalRequests DEF IInv, ExecutionTypeOK
<1> QED
  BY <1>1, <1>2 DEF Asks

(* A command that moves is a goto; one that lacks its facts only asks. *)
LEMMA MoveFacts ==
  ASSUME IInv, Moves
  PROVE  \/ \E id \in Snapshot, stop \in BOOLEAN : Goto(id, stop)
         \/ \E id \in Snapshot : Display(id)
         \/ Asks
<1>1. FactsTrue /\ ExecutionTypeOK /\ current \in Snapshot /\ Snapshot = 0..Final /\ Final \in Nat
  BY RecordingFacts DEF IInv, ExecutionTypeOK
<1>2. \A kind \in {"info", "next", "prev"} : \A request \in {<<kind, current>>} : Legal(request)
  BY <1>1 DEF Legal
<1>3. ASSUME NEW count \in {1, 2}, Step(count)
      PROVE  \E id \in Snapshot, stop \in BOOLEAN : Goto(id, stop)
  <2>1. Sanitized(current + count) \in Snapshot
    BY <1>1, SanitizedFacts
  <2> QED
    BY <1>3, <2>1 DEF Step
<1>4. ASSUME NEW count \in {1, 2}, ReverseStep(count)
      PROVE  \E id \in Snapshot, stop \in BOOLEAN : Goto(id, stop)
  <2>1. (IF count > current THEN 0 ELSE current - count) \in Snapshot
    BY <1>1
  <2> QED
    BY <1>4, <2>1 DEF ReverseStep
<1>5. ASSUME NEW link \in {1, 2}, NEW stop \in BOOLEAN, Over(link, stop)
      PROVE  Asks \/ \E id \in Snapshot : Goto(id, stop)
  <2>1. CASE Known("info", current)
    <3>1. Value("info", current) = <<snapshots[current].next_id, snapshots[current].prev_id>>
      BY <1>1, <2>1, ValueFacts
    <3>2. Value("info", current)[link] \in Nat
      BY <1>1, <3>1, RecordingFacts
    <3>3. Sanitized(Value("info", current)[link]) \in Snapshot
      BY <1>1, <3>2, SanitizedFacts
    <3> QED
      BY <1>5, <2>1, <3>3 DEF Over, Goto
  <2>2. CASE ~Known("info", current)
    BY <1>2, <1>5, <2>2 DEF Over, Asks
  <2> QED
    BY <2>1, <2>2
<1>6. ASSUME NextCallHere
      PROVE  Asks \/ \E id \in Snapshot : Goto(id, TRUE)
  <2>1. CASE Known("next", current)
    <3>1. Value("next", current) \in Snapshot
      BY <1>1, <2>1, ValueFacts, NextCallLemma
    <3> QED
      BY <1>6, <2>1, <3>1 DEF NextCallHere, Goto
  <2>2. CASE ~Known("next", current)
    BY <1>2, <1>6, <2>2 DEF NextCallHere, Asks
  <2> QED
    BY <2>1, <2>2
<1>7. ASSUME PrevCallHere
      PROVE  Asks \/ \E id \in Snapshot : Goto(id, FALSE)
  <2>1. CASE Known("prev", current)
    <3>1. Value("prev", current) \in Snapshot
      BY <1>1, <2>1, ValueFacts, PrevCallLemma
    <3> QED
      BY <1>7, <2>1, <3>1 DEF PrevCallHere, Goto
  <2>2. CASE ~Known("prev", current)
    BY <1>2, <1>7, <2>2 DEF PrevCallHere, Asks
  <2> QED
    BY <2>1, <2>2
<1>8. ASSUME Next PROVE Asks \/ \E id \in Snapshot : Goto(id, TRUE)
  BY <1>5, <1>8 DEF Next
<1>9. ASSUME Prev PROVE Asks \/ \E id \in Snapshot : Goto(id, FALSE)
  BY <1>5, <1>9 DEF Prev
<1> QED
  BY <1>3, <1>4, <1>6, <1>7, <1>8, <1>9 DEF Moves

LEMMA DisplayKeeps ==
  ASSUME IInv, NEW id \in Snapshot, Display(id)
  PROVE  IInv'
<1> DEFINE R == MissingOf(id)
<1>1. /\ displayed' = id /\ local' = Pulled /\ NewFetchingRequests(R)
      /\ UNCHANGED <<core, batch, fixed, status, current, breakpoints, breakpoint_set>>
  BY DEF Display
<1>2. \A request \in R : Legal(request)
  BY LegalRequests
<1> HIDE DEF R
<1>3. /\ FactsTrue' /\ RequestsLegal' /\ snapshots' = snapshots
      /\ \A kind, key : Cached(local, kind, key) => Cached(local', kind, key)
  BY <1>1, <1>2, OperationFacts
<1>4. ExecutionTypeOK'
  BY <1>1, <1>3 DEF IInv, ExecutionTypeOK, Snapshot
<1>5. HitsKnown'
  <2>1. Listed' = Listed
    BY <1>1 DEF Listed
  <2>2. \A b \in breakpoint_set' \union Listed' :
           Cached(local', "hits", b) \/ status' = WaitBreakpointHits(b)
    BY <1>1, <1>3, <2>1 DEF IInv, HitsKnown
  <2> QED
    BY <2>2 DEF HitsKnown, Cached
<1>6. WaitsWhereItAsked'
  BY <1>1 DEF IInv, WaitsWhereItAsked
<1> QED
  BY <1>3, <1>4, <1>5, <1>6 DEF IInv

LEMMA MovesKeep ==
  ASSUME IInv, Moves
  PROVE  IInv'
<1>1. ASSUME NEW id \in Snapshot, NEW stop \in BOOLEAN, Goto(id, stop)
      PROVE  IInv'
  <2>1. ~Waiting /\ status' = status /\ GotoSnapshotAsking(id, stop, {})
    BY <1>1 DEF Goto, GotoSnapshot
  <2>2. status.waits # "hits" /\ status' = Normal
    BY <2>1, StatusFacts DEF IInv
  <2> QED
    BY <2>1, <2>2, GotoKeeps
<1> QED
  BY <1>1, MoveFacts, DisplayKeeps, AsksKeeps

LEMMA PendingKeeps ==
  ASSUME IInv, CheckPendingRequest
  PROVE  IInv'
<1>1. ASSUME NEW id \in Snapshot, NEW stop \in BOOLEAN, status.waits \in {"next", "prev"},
             status' = Normal, GotoSnapshot(id, stop)
      PROVE  IInv'
  <2>1. status.waits # "hits" /\ GotoSnapshotAsking(id, stop, {})
    BY <1>1 DEF GotoSnapshot
  <2> QED
    BY <1>1, <2>1, GotoKeeps
<1> QED
  BY <1>1, PendingFacts, AsksKeeps

LEMMA BreakpointsKeep ==
  ASSUME IInv, BreakpointCommands
  PROVE  IInv'
<1> DEFINE Entry == [bp : AllBreakpoints, enabled : BOOLEAN]
<1>a. /\ ExecutionTypeOK /\ breakpoints \in Seq(Entry)
      /\ Len(breakpoints) \in Nat /\ DOMAIN breakpoints = 1..Len(breakpoints)
      /\ \A i \in DOMAIN breakpoints : breakpoints[i] \in Entry
  BY ElementOfSeq, LenProperties DEF IInv, ExecutionTypeOK
<1>1. ASSUME NEW loc \in Locations, AddBreakpoint([loc |-> loc, condition |-> NoCondition])
      PROVE  IInv'
  <2> DEFINE b == [loc |-> loc, condition |-> NoCondition]
             e == [bp |-> b, enabled |-> TRUE]
  <2>1. b \in AllBreakpoints /\ e \in Entry
    BY DEF AllBreakpoints
  <2>2. CASE Valid(b)
    <3>1. /\ ~Waiting /\ AwaitHits(b)
          /\ breakpoint_set' = breakpoint_set \union {b}
          /\ breakpoints' = IF b \in breakpoint_set THEN breakpoints ELSE Append(breakpoints, e)
      BY <1>1, <2>2 DEF AddBreakpoint
    <3>2. CASE b \in breakpoint_set
      <4>1. breakpoints' = breakpoints /\ breakpoint_set' = breakpoint_set
        BY <3>1, <3>2
      <4>2. Listed' = Listed
        BY <4>1 DEF Listed
      <4> HIDE DEF b
      <4> QED
        BY <1>a, <2>1, <3>1, <3>2, <4>1, <4>2, AwaitKeeps
    <3>3. CASE b \notin breakpoint_set
      <4>1. breakpoints' = Append(breakpoints, e)
        BY <3>1, <3>3
      <4> HIDE DEF Entry, e
      <4>2. /\ breakpoints' \in Seq(Entry)
            /\ DOMAIN breakpoints' = 1..(Len(breakpoints) + 1)
            /\ \A i \in 1..Len(breakpoints) : breakpoints'[i] = breakpoints[i]
            /\ breakpoints'[Len(breakpoints) + 1] = e
        BY <1>a, <2>1, <4>1, AppendProperties, LenProperties
      <4>3. Listed' \subseteq Listed \union {b} /\ b \in Listed'
        BY <1>a, <4>2 DEF Listed, e
      <4>4. breakpoint_set' \subseteq breakpoint_set \union {b}
        BY <3>1
      <4>5. breakpoints' \in Seq([bp : AllBreakpoints, enabled : BOOLEAN])
        BY <4>2 DEF Entry
      <4> HIDE DEF b
      <4> QED
        BY <2>1, <3>1, <4>3, <4>4, <4>5, AwaitKeeps
    <3> QED
      BY <3>2, <3>3
  <2>3. CASE ~Valid(b)
    <3> DEFINE R == IF b.loc = NoLocation THEN {} ELSE Missing("code", b.loc[2])
    <3>1. OnlyRequestMore(R) /\ UNCHANGED <<status, breakpoints, breakpoint_set>>
      BY <1>1, <2>3 DEF AddBreakpoint
    <3>2. \A request \in R : Legal(request)
      BY LegalRequests
    <3> HIDE DEF R
    <3>3. Asks
      BY <3>1, <3>2 DEF Asks, OnlyRequest
    <3> QED
      BY <3>3, AsksKeeps
  <2> QED
    BY <2>2, <2>3
<1>2. ASSUME NEW i \in DOMAIN breakpoints, NEW c \in Conditions, UpdateBreakpointCondition(i, c)
      PROVE  IInv'
  <2> DEFINE b == [breakpoints[i].bp EXCEPT !.condition = c]
             e == [breakpoints[i] EXCEPT !.bp = b]
  <2>1. /\ ~Waiting /\ AwaitHits(b) /\ breakpoint_set' = breakpoint_set
        /\ breakpoints' = [breakpoints EXCEPT ![i].bp.condition = c]
    BY <1>2 DEF UpdateBreakpointCondition
  <2>2. b \in AllBreakpoints /\ e \in Entry /\ e.bp = b
    BY <1>a DEF AllBreakpoints
  <2>3. breakpoints' = [breakpoints EXCEPT ![i] = e]
    BY <2>1
  <2> HIDE DEF Entry, e
  <2>4. /\ breakpoints' \in Seq(Entry)
        /\ DOMAIN breakpoints' = 1..Len(breakpoints)
        /\ \A j \in 1..Len(breakpoints) : breakpoints'[j] = IF j = i THEN e ELSE breakpoints[j]
    BY <1>a, <2>2, <2>3, ExceptSeq, LenProperties
  <2> HIDE DEF b
  <2>5. Listed' \subseteq Listed \union {b} /\ b \in Listed'
    BY <1>a, <2>2, <2>4 DEF Listed
  <2>6. breakpoints' \in Seq([bp : AllBreakpoints, enabled : BOOLEAN])
    BY <2>4 DEF Entry
  <2> QED
    BY <2>1, <2>2, <2>5, <2>6, AwaitKeeps
<1>3. ASSUME NEW enabled \in BOOLEAN, EnableAllBreakpoints(enabled)
      PROVE  IInv'
  <2>1. /\ ~Waiting
        /\ UNCHANGED <<managerVars, fixed, status, current, displayed>>
        /\ breakpoint_set' = breakpoint_set
        /\ breakpoints' = [i \in DOMAIN breakpoints |-> [breakpoints[i] EXCEPT !.enabled = enabled]]
    BY <1>3 DEF EnableAllBreakpoints
  <2>2. \A i \in DOMAIN breakpoints :
           /\ [breakpoints[i] EXCEPT !.enabled = enabled] \in Entry
           /\ [breakpoints[i] EXCEPT !.enabled = enabled].bp = breakpoints[i].bp
    BY <1>a
  <2>3. breakpoints' \in [1..Len(breakpoints) -> Entry]
    BY <1>a, <2>1, <2>2
  <2>4. breakpoints' \in Seq(Entry)
    BY <1>a, <2>3, IsASeq
  <2>5. Listed' \subseteq Listed
    BY <2>1, <2>2 DEF Listed
  <2> QED
    BY <2>1, <2>4, <2>5, ListKeeps
<1>4. ASSUME NEW enabled \in BOOLEAN, NEW i \in DOMAIN breakpoints, EnableBreakpoint(i, enabled)
      PROVE  IInv'
  <2> DEFINE e == [breakpoints[i] EXCEPT !.enabled = enabled]
  <2>1. /\ ~Waiting
        /\ UNCHANGED <<managerVars, fixed, status, current, displayed>>
        /\ breakpoint_set' = breakpoint_set
        /\ breakpoints' = [breakpoints EXCEPT ![i] = e]
    BY <1>4 DEF EnableBreakpoint
  <2>2. e \in Entry /\ e.bp = breakpoints[i].bp
    BY <1>a
  <2> HIDE DEF Entry, e
  <2>3. /\ breakpoints' \in Seq(Entry)
        /\ DOMAIN breakpoints' = 1..Len(breakpoints)
        /\ \A j \in 1..Len(breakpoints) : breakpoints'[j] = IF j = i THEN e ELSE breakpoints[j]
    BY <1>a, <2>1, <2>2, ExceptSeq, LenProperties
  <2>4. Listed' \subseteq Listed
    BY <1>a, <2>2, <2>3 DEF Listed
  <2>5. breakpoints' \in Seq([bp : AllBreakpoints, enabled : BOOLEAN])
    BY <2>3 DEF Entry
  <2> QED
    BY <2>1, <2>4, <2>5, ListKeeps
<1>5. ASSUME NEW i \in DOMAIN breakpoints, RemoveBreakpoint(i)
      PROVE  IInv'
  <2> DEFINE s1 == SubSeq(breakpoints, 1, i - 1)
             s2 == SubSeq(breakpoints, i + 1, Len(breakpoints))
  <2>1. /\ ~Waiting
        /\ UNCHANGED <<managerVars, fixed, status, current, displayed>>
        /\ breakpoint_set' \subseteq breakpoint_set
        /\ breakpoints' = s1 \o s2
    BY <1>5 DEF RemoveBreakpoint, RemoveAt
  <2> HIDE DEF Entry
  <2>2. /\ s1 \in Seq(Entry) /\ Len(s1) = i - 1
        /\ \A j \in 1..(i - 1) : s1[j] = breakpoints[j]
    BY <1>a, SubSeqProperties
  <2>3. /\ s2 \in Seq(Entry) /\ Len(s2) = Len(breakpoints) - i
        /\ \A j \in 1..(Len(breakpoints) - i) : s2[j] = breakpoints[i + j]
    BY <1>a, SubSeqProperties
  <2> HIDE DEF s1, s2
  <2>a. i \in 1..Len(breakpoints) /\ Len(s1) + Len(s2) = Len(breakpoints) - 1
    BY <1>a, <2>2, <2>3
  <2>4. /\ breakpoints' \in Seq(Entry)
        /\ Len(breakpoints') = Len(s1) + Len(s2)
        /\ \A j \in 1..(Len(s1) + Len(s2)) :
             breakpoints'[j] = IF j <= Len(s1) THEN s1[j] ELSE s2[j - Len(s1)]
    BY <2>1, <2>2, <2>3, ConcatProperties
  <2>5. DOMAIN breakpoints' = 1..(Len(breakpoints) - 1)
    BY <2>a, <2>4, LenProperties
  <2>6. ASSUME NEW j \in DOMAIN breakpoints'
        PROVE  \E k \in DOMAIN breakpoints : breakpoints'[j] = breakpoints[k]
    <3>1. j \in 1..(Len(breakpoints) - 1)
      BY <2>5
    <3>2. breakpoints'[j] = IF j <= i - 1 THEN s1[j] ELSE s2[j - (i - 1)]
      BY <2>a, <2>2, <2>4, <3>1
    <3>3. CASE j <= i - 1
      <4>1. j \in 1..(i - 1) /\ j \in DOMAIN breakpoints
        BY <1>a, <2>a, <3>1, <3>3
      <4> QED
        BY <2>2, <3>2, <3>3, <4>1
    <3>4. CASE ~(j <= i - 1)
      <4>1. /\ j - (i - 1) \in 1..(Len(breakpoints) - i)
            /\ i + (j - (i - 1)) = j + 1 /\ j + 1 \in DOMAIN breakpoints
        BY <1>a, <2>a, <3>1, <3>4
      <4>2. breakpoints'[j] = breakpoints[j + 1]
        BY <2>3, <3>2, <3>4, <4>1
      <4> QED
        BY <4>1, <4>2
    <3> QED
      BY <3>3, <3>4
  <2>7. Listed' \subseteq Listed
    BY <2>6 DEF Listed
  <2>8. breakpoints' \in Seq([bp : AllBreakpoints, enabled : BOOLEAN])
    BY <2>4 DEF Entry
  <2> QED
    BY <2>1, <2>7, <2>8, ListKeeps
<1>6. ASSUME ClearBreakpoints
      PROVE  IInv'
  <2>1. /\ ~Waiting
        /\ UNCHANGED <<managerVars, fixed, status, current, displayed>>
        /\ breakpoint_set' = {} /\ breakpoints' = <<>>
    BY <1>6 DEF ClearBreakpoints
  <2>2. Listed' \subseteq Listed
    BY <2>1 DEF Listed
  <2> QED
    BY <2>1, <2>2, EmptySeq, ListKeeps
<1> QED
  BY <1>1, <1>2, <1>3, <1>4, <1>5, <1>6 DEF BreakpointCommands
-----------------------------------------------------------------------------
LEMMA InvInit == Init => IInv
<1> SUFFICES ASSUME Init PROVE IInv
  OBVIOUS
<1>1. /\ session \in Sessions /\ snapshots \in Recordings
      /\ status = Normal /\ current = 0 /\ displayed = 0
      /\ breakpoints = <<>> /\ breakpoint_set = {}
  BY DEF Init
<1>2. /\ local = UNION {FactsOf(request) : request \in session.known} /\ core = local
      /\ batch = {} /\ pending = {} /\ core_pending = MissingOf(0)
  BY DEF Init, ManagerInit
<1>3. 0 \in Snapshot
  <2>1. /\ DOMAIN snapshots # {} /\ DOMAIN snapshots = 0..(Cardinality(DOMAIN snapshots) - 1)
        /\ IsFiniteSet(DOMAIN snapshots)
    BY <1>1, RecordingsAssumption
  <2>2. Cardinality(DOMAIN snapshots) \in Nat
    BY <2>1, FS_CardinalityType
  <2> QED
    BY <2>1, <2>2 DEF Snapshot, Ids
<1>4. ExecutionTypeOK
  BY <1>1, <1>3, EmptySeq DEF ExecutionTypeOK
<1>5. FactsTrue
  <2>1. \A request \in session.known : Legal(request)
    BY <1>1, SessionsAssumption DEF Legal, Snapshot, Ids
  <2> QED
    BY <1>2, <1>4, <2>1, FactsOfLegal DEF FactsTrue
<1>6. RequestsLegal
  BY <1>2, <1>3, LegalRequests DEF RequestsLegal
<1>7. HitsKnown
  <2>1. Listed = {}
    BY <1>1 DEF Listed
  <2> QED
    BY <1>1, <2>1 DEF HitsKnown
<1>8. WaitsWhereItAsked
  BY <1>1 DEF WaitsWhereItAsked, Normal
<1> QED
  BY <1>4, <1>5, <1>6, <1>7, <1>8 DEF IInv

LEMMA InvStep == IInv /\ [ExecNext]_executionVars => IInv'
<1> SUFFICES ASSUME IInv, [ExecNext]_executionVars PROVE IInv'
  OBVIOUS
<1>1. CASE CheckPendingRequest
  BY <1>1, PendingKeeps
<1>2. CASE Redraw
  BY <1>2, RedrawAsks, AsksKeeps
<1>3. CASE Ticks \/ Background
  BY <1>3, BackgroundKeeps DEF Ticks, Background
<1>4. CASE Moves
  BY <1>4, MovesKeep
<1>5. CASE BreakpointCommands
  BY <1>5, BreakpointsKeep
<1>6. CASE UNCHANGED executionVars
  <2>1. UNCHANGED <<local, core, pending, core_pending, batch, snapshots, status, current,
                    displayed, breakpoints, breakpoint_set>>
    BY <1>6 DEF executionVars, managerVars, fixed
  <2> QED
    BY <2>1 DEF IInv, ExecutionTypeOK, Snapshot, FactsTrue, IsTrue, RequestsLegal, Legal,
                HitsKnown, Listed, Cached, WaitsWhereItAsked
<1> QED
  BY <1>1, <1>2, <1>3, <1>4, <1>5, <1>6 DEF ExecNext

(* The inductive invariant holds of the manager and its background task in
   every interleaving. *)
THEOREM Invariance == Spec => []IInv
BY InvInit, InvStep, PTL DEF Spec

(* The position stays in the recording, whatever the server answers and when. *)
THEOREM TypeCorrect == Spec => []ExecutionTypeOK
<1>1. IInv => ExecutionTypeOK
  BY DEF IInv
<1> QED
  BY <1>1, Invariance, PTL

(* What the caches say of calls is what the server would answer. *)
THEOREM CallsAreTrue == Spec => []CachedCallsAreTrue
<1>1. IInv => CachedCallsAreTrue
  BY DEF IInv, FactsTrue, IsTrue, CachedCallsAreTrue
<1> QED
  BY <1>1, Invariance, PTL

(* While an answer is awaited the user stays where the question was asked. *)
THEOREM AnswersFindTheirUser == Spec => []WaitsWhereItAsked
<1>1. IInv => WaitsWhereItAsked
  BY DEF IInv
<1> QED
  BY <1>1, Invariance, PTL

(* Only a goto that is told not to stop passes a hit of an enabled breakpoint. *)
THEOREM NoHitIsPassed == Spec => StopsAtBreakpoints
<1> DEFINE Passes == \E b \in Enabled : \E h \in GetBreakpointHits(snapshots, b) :
                        current < h /\ h < current'
           Free == \E id \in Snapshot : Goto(id, FALSE)
<1>1. IInv /\ [ExecNext]_executionVars => [Passes => Free]_executionVars
  <2> SUFFICES ASSUME IInv, ExecNext, Passes PROVE Free
    OBVIOUS
  <2>1. /\ ExecutionTypeOK /\ current \in Snapshot /\ Snapshot \in SUBSET Nat
        /\ \A b : GetBreakpointHits(snapshots, b) \subseteq Snapshot
    BY RecordingFacts DEF IInv, ExecutionTypeOK, GetBreakpointHits, Snapshot
  <2>2. ~(current' \in Snapshot /\ current' <= current)
    <3>0. PICK b \in Enabled : \E h \in GetBreakpointHits(snapshots, b) :
             current < h /\ h < current'
      OBVIOUS
    <3>1. PICK h \in GetBreakpointHits(snapshots, b) : current < h /\ h < current'
      BY <3>0
    <3>2. h \in Nat /\ current \in Nat /\ Snapshot \subseteq Nat
      BY <2>1
    <3>3. ASSUME current' \in Snapshot PROVE ~(current' <= current)
      <4>1. current' \in Nat
        BY <3>2, <3>3
      <4> QED
        BY <3>1, <3>2, <4>1
    <3> QED
      BY <3>3
  <2>3. current' # current
    BY <2>1, <2>2
  <2>4. ASSUME NEW id \in Snapshot, status.waits # "hits", GotoSnapshot(id, TRUE)
        PROVE  FALSE
    <3>1. current' = FindBreakpointHitInRange(current, id)
      BY <2>4 DEF GotoSnapshot, GotoSnapshotAsking
    <3> QED
      BY <2>4, <3>1, FindFacts
  <2>5. ASSUME NEW id \in Snapshot, GotoSnapshot(id, FALSE)
        PROVE  current' = id
    BY <2>5 DEF GotoSnapshot, GotoSnapshotAsking
  <2>6. ~Asks
    BY <2>3 DEF Asks, OnlyRequest, OnlyRequestMore
  <2>7. ~CheckPendingRequest
    <3>1. ~\E id \in Snapshot : status.waits = "next" /\ GotoSnapshot(id, TRUE)
      BY <2>4
    <3>2. ~\E id \in Snapshot : id <= current /\ GotoSnapshot(id, FALSE)
      BY <2>2, <2>5
    <3> QED
      BY <2>6, <3>1, <3>2, PendingFacts
  <2>8. ~Redraw
    BY <2>6, RedrawAsks
  <2>9. ~(Ticks \/ Background)
    BY <2>3 DEF Ticks, Background, Idle
  <2>10. ~BreakpointCommands
    BY <2>3 DEF BreakpointCommands, AddBreakpoint, UpdateBreakpointCondition, AwaitHits,
                OnlyRequestMore, EnableBreakpoint, EnableAllBreakpoints, RemoveBreakpoint,
                ClearBreakpoints
  <2>11. ASSUME Moves PROVE Free
    <3>1. ~\E id \in Snapshot : Display(id)
      BY <2>3 DEF Display
    <3>2. PICK id \in Snapshot, stop \in BOOLEAN : Goto(id, stop)
      BY <2>6, <2>11, <3>1, MoveFacts
    <3>3. status.waits # "hits" /\ GotoSnapshot(id, stop)
      BY <2>1, <3>2, StatusFacts DEF Goto
    <3>4. stop = FALSE
      BY <2>4, <3>3
    <3> QED
      BY <3>2, <3>4
  <2> QED
    BY <2>7, <2>8, <2>9, <2>10, <2>11 DEF ExecNext
<1>2. Spec => [][Passes => Free]_executionVars
  BY <1>1, Invariance, PTL DEF Spec
<1> QED
  BY <1>2 DEF StopsAtBreakpoints
=============================================================================
