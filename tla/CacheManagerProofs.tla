------------------------- MODULE CacheManagerProofs -------------------------
(***************************************************************************)
(* Proofs about CacheManager for any processes, keys, limits and old       *)
(* files: the limits hold, a saved cache is missing only while it is       *)
(* replaced, and what was deleted stays deleted.                           *)
(***************************************************************************)
EXTENDS CacheManager, FiniteSetTheorems, TLAPS

Limit(m) == LargerOf(max_items[m], 1)

(* What some process, or the old flat files, may hold. *)
Allowed(size) == \E n \in Limits \union {Cardinality(Flat)} : size <= LargerOf(n, 1)

MemoryHeld ==
  \A m \in Manager : IsFiniteSet(Entries(memory[m])) /\ Size(memory[m]) <= Limit(m)

DiskHeld == IsFiniteSet(Entries(content)) /\ (Legacy = {} => Allowed(Size(content)))

(* Without a legacy file also what a task has loaded, or is about to write, is
   within somebody's limit. *)
StagedHeld ==
  \A t \in Task :
     IsFiniteSet(Entries(staged[t])) /\ (Legacy = {} => Allowed(Size(staged[t])))

(* The most that a task can find on disk. *)
Found == LargerOf(Size(content), LargerOf(Cardinality(Flat), 1))

(* As long as no two tasks have overlapped, a task writes no more than it found,
   or than the limit of its own process. *)
OwnLimit ==
  Legacy = {} /\ mishap # "overlap" =>
    \A t \in Task :
       /\ step[t] = "loaded" => Size(staged[t]) <= Found
       /\ step[t] \in {"staged", "removing", "removed"} =>
            Size(staged[t]) <= Found \/ Size(staged[t]) <= max_items[t[1]]

(* As long as no two tasks have overlapped, one at most is under way; and one
   whose rename failed is a mishap until the next rename. *)
OneAtATime ==
  mishap # "overlap" =>
     /\ \A t, u \in Task : step[t] # "idle" /\ step[u] # "idle" => t = u
     /\ mishap = "none" => \A t \in Task : step[t] \notin {"failed", "clearing"}

Writing == {"loaded", "staged", "removing", "removed"}

(* As long as no two tasks have overlapped, a deleted key is in no process and
   in nothing that is about to be written; on disk it is at most until the
   deletion is answered. *)
DeletedIsGone ==
  mishap # "overlap" => \A k \in deleted \ (Legacy \union Flat) :
     /\ \A m \in Manager : memory[m][k] = None
     /\ \A t \in Task : step[t] \in Writing => staged[t][k] = None
     /\ (\A t \in Task : ~Unanswered(t)) /\ dir = "whole" => content[k] = None

IInv ==
  /\ TypeOK
  /\ MemoryHeld /\ DiskHeld /\ StagedHeld
  /\ OwnLimit
  /\ OneAtATime
  /\ MissingOnlyInReplacement
  /\ DeletedIsGone
USE LimitsAssumption, TaskAssumption, LegacyAssumption, TimeAssumption
-----------------------------------------------------------------------------
(* The operators. *)

LEMMA LimitType ==
  ASSUME NEW n \in Nat
  PROVE  LargerOf(n, 1) \in Nat /\ LargerOf(n, 1) >= 1 /\ LargerOf(n, 1) >= n
  BY DEF LargerOf

LEMMA FlatType == Cardinality(Flat) \in Nat
  BY FS_CardinalityType

(* What is allowed may shrink, and one's own limit is allowed. *)
LEMMA AllowedFacts ==
  /\ \A a, b \in Nat : a <= b /\ Allowed(b) => Allowed(a)
  /\ \A n \in Limits \union {Cardinality(Flat)}, a \in Nat : a <= n \/ a <= 1 => Allowed(a)
<1>1. \A n \in Limits \union {Cardinality(Flat)} : n \in Nat
  BY FlatType
<1>2. \A a, b \in Nat : a <= b /\ Allowed(b) => Allowed(a)
  BY <1>1, LimitType DEF Allowed
<1>3. \A n \in Limits \union {Cardinality(Flat)}, a \in Nat : a <= n \/ a <= 1 => Allowed(a)
  BY <1>1, LimitType DEF Allowed
<1> QED
  BY <1>2, <1>3

LEMMA FoundFacts ==
  ASSUME IsFiniteSet(Entries(content))
  PROVE  /\ Size(content) \in Nat /\ Found \in Nat
         /\ Found >= Size(content) /\ Found >= Cardinality(Flat) /\ Found >= 1
  BY FlatType, FS_CardinalityType DEF Found, LargerOf, Size

(* A merge holds what either holds, and nothing else. *)
LEMMA MergeFacts ==
  ASSUME NEW a \in Contents, NEW b \in Contents
  PROVE  /\ MergeCaches(a, b) \in Contents
         /\ Entries(MergeCaches(a, b)) = Entries(a) \union Entries(b)
  BY DEF Contents, Stamp, MergeCaches, Entries

(* An eviction only removes, and reaches the size it is given. *)
LEMMA EvictFacts ==
  ASSUME NEW c \in Contents, IsFiniteSet(Entries(c)), NEW size \in Nat,
         NEW d \in EvictToSize(c, size)
  PROVE  /\ d \in Contents
         /\ \A k \in Key : d[k] \in {c[k], None}
         /\ IsFiniteSet(Entries(d)) /\ Size(d) \in Nat
         /\ Size(d) <= size /\ Size(d) <= Size(c)
<1>1. Size(c) \in Nat
  BY FS_CardinalityType DEF Size
<1>2. CASE Size(c) <= size
  BY <1>1, <1>2 DEF EvictToSize
<1>3. CASE ~(Size(c) <= size)
  <2>1. PICK kept \in SUBSET Entries(c) :
           /\ Cardinality(kept) = size
           /\ d = [k \in Key |-> IF k \in kept THEN c[k] ELSE None]
    BY <1>3 DEF EvictToSize
  <2>2. Entries(d) = kept
    BY <2>1 DEF Entries
  <2>3. d \in Contents /\ \A k \in Key : d[k] \in {c[k], None}
    BY <2>1 DEF Contents
  <2>4. IsFiniteSet(kept)
    BY FS_Subset
  <2> QED
    BY <1>1, <1>3, <2>1, <2>2, <2>3, <2>4 DEF Size
<1> QED
  BY <1>2, <1>3

(* evict_oldest makes room for one, if there is anything to evict. *)
LEMMA EvictOldestFacts ==
  ASSUME NEW c \in Contents, IsFiniteSet(Entries(c)), NEW d \in EvictOldest(c)
  PROVE  /\ d \in Contents
         /\ \A k \in Key : d[k] \in {c[k], None}
         /\ IsFiniteSet(Entries(d)) /\ Size(d) \in Nat
         /\ Size(d) + 1 <= LargerOf(Size(c), 1)
<1>1. Size(c) \in Nat
  BY FS_CardinalityType DEF Size
<1> DEFINE tenth == Size(c) \div 10
           removed == IF tenth > 1 THEN tenth ELSE 1
           target == IF Size(c) > removed THEN Size(c) - removed ELSE 0
<1>2. tenth \in Nat /\ removed \in Nat /\ removed >= 1
  BY <1>1
<1>3. target \in Nat /\ target + 1 <= LargerOf(Size(c), 1)
  BY <1>1, <1>2 DEF LargerOf
<1>4. d \in EvictToSize(c, target)
  BY DEF EvictOldest
<1> HIDE DEF target
<1>5. /\ d \in Contents
      /\ \A k \in Key : d[k] \in {c[k], None}
      /\ IsFiniteSet(Entries(d)) /\ Size(d) \in Nat /\ Size(d) <= target
  BY <1>3, <1>4, EvictFacts
<1> QED
  BY <1>1, <1>3, <1>5 DEF LargerOf

(* Setting a key adds one entry at most. *)
LEMMA SetFacts ==
  ASSUME NEW c \in Contents, IsFiniteSet(Entries(c)), NEW k \in Key, NEW s \in Stamp
  PROVE  /\ [c EXCEPT ![k] = s] \in Contents
         /\ IsFiniteSet(Entries([c EXCEPT ![k] = s]))
         /\ Size([c EXCEPT ![k] = s]) \in Nat
         /\ Size([c EXCEPT ![k] = s]) <= Size(c) + 1
         /\ c[k] # None => Size([c EXCEPT ![k] = s]) = Size(c)
<1> DEFINE d == [c EXCEPT ![k] = s]
<1>1. d \in Contents
  BY DEF Contents
<1>2. Entries(d) = Entries(c) \union {k}
  BY DEF Contents, Entries, Stamp
<1>3. /\ IsFiniteSet(Entries(c) \union {k})
      /\ Cardinality(Entries(c) \union {k}) =
           IF k \in Entries(c) THEN Cardinality(Entries(c)) ELSE Cardinality(Entries(c)) + 1
  BY FS_AddElement
<1>4. c[k] # None => k \in Entries(c)
  BY DEF Entries
<1>5. Cardinality(Entries(c)) \in Nat
  BY FS_CardinalityType
<1> HIDE DEF d
<1>6. /\ IsFiniteSet(Entries(d)) /\ Size(d) \in Nat /\ Size(d) <= Size(c) + 1
      /\ c[k] # None => Size(d) = Size(c)
  BY <1>2, <1>3, <1>4, <1>5 DEF Size
<1> QED
  BY <1>1, <1>6 DEF d

(* What the disk gives is what its files held, or the old flat ones do, and the
   legacy file. *)
LEMMA LoadFacts ==
  ASSUME content \in Contents, DiskHeld, dir \in {"absent", "partial", "whole"}
  PROVE  /\ LoadExistingCache \in Contents
         /\ IsFiniteSet(Entries(LoadExistingCache)) /\ Size(LoadExistingCache) \in Nat
         /\ Legacy = {} => Size(LoadExistingCache) <= Found
         /\ Legacy = {} => Allowed(Size(LoadExistingCache))
         /\ \A k \in Key \ (Legacy \union Flat) :
               (dir = "whole" => content[k] = None) => LoadExistingCache[k] = None
<1> DEFINE onDisk == LoadFromSplitFiles
<1>1. /\ Old(Legacy) \in Contents /\ Entries(Old(Legacy)) = Legacy
      /\ Old(Flat) \in Contents /\ Entries(Old(Flat)) = Flat
  BY DEF Old, Contents, Stamp, Entries
<1>2. Nothing \in Contents /\ Entries(Nothing) = {}
  BY DEF Nothing, Contents, Entries
<1>3. /\ dir = "whole" => onDisk = content
      /\ dir = "partial" => onDisk = Nothing
      /\ dir = "absent" => onDisk = Old(Flat)
  BY DEF LoadFromSplitFiles
<1> HIDE DEF onDisk
<1>4. onDisk \in Contents
  BY <1>1, <1>2, <1>3
<1>5. IsFiniteSet(Entries(onDisk))
  BY <1>1, <1>2, <1>3, FS_EmptySet DEF DiskHeld
<1>6. /\ Size(onDisk) \in Nat
      /\ Size(onDisk) = Size(content) \/ Size(onDisk) = 0 \/ Size(onDisk) = Cardinality(Flat)
  BY <1>1, <1>2, <1>3, <1>5, FS_EmptySet, FS_CardinalityType DEF Size
<1>7. Size(onDisk) <= Found
  BY <1>6, FoundFacts DEF DiskHeld
<1>8. Legacy = {} => Allowed(Size(onDisk))
  BY <1>6, AllowedFacts, FlatType DEF DiskHeld
<1> DEFINE loaded == MergeCaches(Old(Legacy), onDisk)
<1>9. loaded \in Contents /\ Entries(loaded) = Legacy \union Entries(onDisk)
  BY <1>1, <1>4, MergeFacts
<1>10. LoadExistingCache = loaded
  BY DEF LoadExistingCache, onDisk
<1> HIDE DEF loaded
<1>11. IsFiniteSet(Entries(loaded)) /\ Size(loaded) \in Nat
  BY <1>5, <1>9, FS_Union, FS_CardinalityType DEF Size
<1>12. Legacy = {} => Size(loaded) = Size(onDisk)
  BY <1>9 DEF Size
<1>13. \A k \in Key \ (Legacy \union Flat) :
          (dir = "whole" => content[k] = None) => k \notin Entries(loaded)
  BY <1>1, <1>2, <1>3, <1>9 DEF Entries
<1>14. \A k \in Key : k \notin Entries(loaded) => loaded[k] = None
  BY DEF Entries
<1> QED
  BY <1>7, <1>8, <1>9, <1>10, <1>11, <1>12, <1>13, <1>14

LEMMA NothingFacts ==
  /\ Nothing \in Contents /\ IsFiniteSet(Entries(Nothing)) /\ Size(Nothing) = 0
  /\ Allowed(Size(Nothing))
<1>1. Entries(Nothing) = {}
  BY DEF Nothing, Entries
<1>2. Size(Nothing) = 0 /\ IsFiniteSet(Entries(Nothing)) /\ Nothing \in Contents
  BY <1>1, FS_EmptySet DEF Nothing, Contents, Size
<1> QED
  BY <1>2, AllowedFacts, FlatType

(* CacheManager::new *)
LEMMA RestartFacts ==
  ASSUME content \in Contents, DiskHeld, dir \in {"absent", "partial", "whole"},
         NEW n \in Limits, NEW c \in Load(n)
  PROVE  /\ c \in Contents /\ IsFiniteSet(Entries(c)) /\ Size(c) <= LargerOf(n, 1)
         /\ \A k \in Key : c[k] \in {LoadExistingCache[k], None}
<1>1. n \in Nat
  OBVIOUS
<1>2. /\ c \in Contents /\ IsFiniteSet(Entries(c)) /\ Size(c) \in Nat /\ Size(c) <= n
      /\ \A k \in Key : c[k] \in {LoadExistingCache[k], None}
  BY <1>1, LoadFacts, EvictFacts DEF Load
<1> QED
  BY <1>1, <1>2, LimitType

(* What a save is about to write: the entries of the disk and of the memory,
   as many as the larger of the two had, or the limit. *)
LEMMA SizeManagementFacts ==
  ASSUME NEW a \in Contents, NEW b \in Contents,
         IsFiniteSet(Entries(a)), IsFiniteSet(Entries(b)), NEW limit \in Nat,
         NEW c \in ApplySizeManagement(limit, MergeCaches(a, b), Size(a), Size(b))
  PROVE  /\ c \in Contents /\ IsFiniteSet(Entries(c)) /\ Size(c) \in Nat
         /\ Size(c) <= Size(a) \/ Size(c) <= limit
         /\ \A k \in Key : a[k] = None /\ b[k] = None => c[k] = None
<1> DEFINE merged == MergeCaches(a, b)
           target == IF Size(a) >= Size(b) THEN Size(a)
                     ELSE IF limit < Size(merged) THEN limit ELSE Size(merged)
<1>1. merged \in Contents /\ Entries(merged) = Entries(a) \union Entries(b)
  BY MergeFacts
<1>2. IsFiniteSet(Entries(merged))
  BY <1>1, FS_Union
<1>3. Size(a) \in Nat /\ Size(b) \in Nat /\ Size(merged) \in Nat
  BY <1>2, FS_CardinalityType DEF Size
<1>4. \A k \in Key : a[k] = None /\ b[k] = None => merged[k] = None
  BY <1>1 DEF Entries
<1> HIDE DEF merged
<1>5. target \in Nat /\ (target <= Size(a) \/ target <= limit)
  BY <1>3
<1>6. c \in EvictToSize(merged, target)
  BY DEF ApplySizeManagement, merged
<1> HIDE DEF target
<1>7. /\ c \in Contents /\ IsFiniteSet(Entries(c)) /\ Size(c) \in Nat /\ Size(c) <= target
      /\ \A k \in Key : c[k] \in {merged[k], None}
  BY <1>1, <1>2, <1>5, <1>6, EvictFacts
<1> QED
  BY <1>3, <1>4, <1>5, <1>7
-----------------------------------------------------------------------------
(* Types and sizes. *)

LEMMA MemoryUpdate ==
  ASSUME TypeOK, MemoryHeld, NEW m \in Manager, NEW c \in Contents,
         IsFiniteSet(Entries(c)), Size(c) <= Limit(m),
         memory' = [memory EXCEPT ![m] = c], UNCHANGED max_items
  PROVE  memory' \in [Manager -> Contents] /\ MemoryHeld'
  BY DEF TypeOK, MemoryHeld, Limit

LEMMA StagedUpdate ==
  ASSUME TypeOK, StagedHeld, NEW t \in Task, NEW c \in Contents,
         IsFiniteSet(Entries(c)), Legacy = {} => Allowed(Size(c)),
         staged' = [staged EXCEPT ![t] = c]
  PROVE  staged' \in [Task -> Contents] /\ StagedHeld'
  BY DEF TypeOK, StagedHeld

LEMMA SizeStep ==
  ASSUME IInv, [Next]_vars
  PROVE  TypeOK' /\ MemoryHeld' /\ DiskHeld' /\ StagedHeld'
<1> USE DEF IInv
<1>1. ASSUME NEW m \in Manager, NEW k \in Key, Get(m, k)
      PROVE  TypeOK' /\ MemoryHeld' /\ DiskHeld' /\ StagedHeld'
  <2> DEFINE c == [memory[m] EXCEPT ![k] = now]
  <2>1. memory[m] \in Contents /\ IsFiniteSet(Entries(memory[m])) /\ now \in Stamp
    BY DEF TypeOK, MemoryHeld
  <2>2. c \in Contents /\ IsFiniteSet(Entries(c)) /\ Size(c) = Size(memory[m])
    BY <1>1, <2>1, SetFacts DEF Get
  <2>3. memory' = [memory EXCEPT ![m] = c]
    BY <1>1 DEF Get
  <2> HIDE DEF c
  <2>4. memory' \in [Manager -> Contents] /\ MemoryHeld'
    BY <1>1, <2>2, <2>3, MemoryUpdate DEF MemoryHeld, Get
  <2> QED
    BY <1>1, <2>4 DEF Get, diskVars, taskVars, TypeOK, DiskHeld, StagedHeld
<1>2. ASSUME NEW m \in Manager, NEW k \in Key, Set(m, k)
      PROVE  TypeOK' /\ MemoryHeld' /\ DiskHeld' /\ StagedHeld'
  <2>1. memory[m] \in Contents /\ IsFiniteSet(Entries(memory[m])) /\ now \in Stamp
    BY DEF TypeOK, MemoryHeld
  <2>2. /\ Size(memory[m]) \in Nat /\ Size(memory[m]) <= Limit(m) /\ max_items[m] \in Nat
        /\ Limit(m) \in Nat /\ Limit(m) >= 1 /\ Limit(m) >= max_items[m]
    BY <2>1, FS_CardinalityType, LimitType DEF MemoryHeld, Size, Limit, TypeOK
  <2>3. PICK c \in IF Size(memory[m]) >= max_items[m] THEN EvictOldest(memory[m]) ELSE {memory[m]} :
           memory' = [memory EXCEPT ![m] = [c EXCEPT ![k] = now]]
    BY <1>2 DEF Set
  <2>4. c \in Contents /\ IsFiniteSet(Entries(c)) /\ Size(c) \in Nat /\ Size(c) + 1 <= Limit(m)
    <3>1. CASE Size(memory[m]) >= max_items[m]
      BY <2>1, <2>2, <2>3, <3>1, EvictOldestFacts DEF LargerOf
    <3>2. CASE ~(Size(memory[m]) >= max_items[m])
      BY <2>1, <2>2, <2>3, <3>2
    <3> QED
      BY <3>1, <3>2
  <2> DEFINE d == [c EXCEPT ![k] = now]
  <2>5. d \in Contents /\ IsFiniteSet(Entries(d)) /\ Size(d) <= Limit(m)
    BY <2>1, <2>2, <2>4, SetFacts
  <2> HIDE DEF d
  <2>6. memory' \in [Manager -> Contents] /\ MemoryHeld'
    BY <1>2, <2>3, <2>5, MemoryUpdate DEF d, Set
  <2> QED
    BY <1>2, <2>6 DEF Set, diskVars, taskVars, TypeOK, DiskHeld, StagedHeld
<1>3. ASSUME NEW m \in Saver, SaveLoad(m)
      PROVE  TypeOK' /\ MemoryHeld' /\ DiskHeld' /\ StagedHeld'
  <2>1. <<m, "save">> \in Task
    BY DEF Task
  <2>2. /\ LoadExistingCache \in Contents /\ IsFiniteSet(Entries(LoadExistingCache))
        /\ Legacy = {} => Allowed(Size(LoadExistingCache))
    BY LoadFacts DEF TypeOK
  <2>3. staged' \in [Task -> Contents] /\ StagedHeld'
    BY <1>3, <2>1, <2>2, StagedUpdate DEF SaveLoad
  <2>4. mishap' \in {"none", "lost", "overlap"} /\ deleted' \subseteq Key
    BY <1>3 DEF SaveLoad, Starts, TypeOK
  <2> QED
    BY <1>3, <2>1, <2>3, <2>4
    DEF SaveLoad, diskVars, TypeOK, MemoryHeld, DiskHeld, Limit
<1>4. ASSUME NEW m \in Saver, SaveMerge(m)
      PROVE  TypeOK' /\ MemoryHeld' /\ DiskHeld' /\ StagedHeld'
  <2>1. <<m, "save">> \in Task /\ m \in Manager
    BY DEF Task
  <2>2. PICK c \in ApplySizeManagement(max_items[m],
             MergeCaches(staged[<<m, "save">>], memory[m]),
             Size(staged[<<m, "save">>]), Size(memory[m])) :
           staged' = [staged EXCEPT ![<<m, "save">>] = c]
    BY <1>4 DEF SaveMerge
  <2>3. /\ staged[<<m, "save">>] \in Contents /\ memory[m] \in Contents
        /\ IsFiniteSet(Entries(staged[<<m, "save">>])) /\ IsFiniteSet(Entries(memory[m]))
        /\ Legacy = {} => Allowed(Size(staged[<<m, "save">>]))
        /\ max_items[m] \in Nat /\ max_items[m] \in Limits
        /\ Size(staged[<<m, "save">>]) \in Nat
    BY <2>1, FS_CardinalityType DEF TypeOK, MemoryHeld, StagedHeld, Size
  <2>4. c \in Contents /\ IsFiniteSet(Entries(c)) /\ (Legacy = {} => Allowed(Size(c)))
    BY <2>2, <2>3, SizeManagementFacts, AllowedFacts
  <2>5. staged' \in [Task -> Contents] /\ StagedHeld'
    BY <2>1, <2>2, <2>4, StagedUpdate
  <2> QED
    BY <1>4, <2>1, <2>5 DEF SaveMerge, diskVars, TypeOK, MemoryHeld, DiskHeld, Limit
<1>5. ASSUME NEW m \in Deleter, NEW K \in {{k} : k \in Key} \union {Key}, Delete(m, K)
      PROVE  TypeOK' /\ MemoryHeld' /\ DiskHeld' /\ StagedHeld'
  <2>1. <<m, "delete">> \in Task /\ m \in Manager
    BY DEF Task
  <2> DEFINE c == [k \in Key |-> IF k \in K THEN None ELSE memory[m][k]]
  <2>2. memory' = [memory EXCEPT ![m] = c] /\ memory'[m] = c
    BY <1>5, <2>1 DEF Delete, TypeOK
  <2>3. c \in Contents /\ Entries(c) \subseteq Entries(memory[m])
    BY <2>1 DEF TypeOK, Contents, Entries
  <2> HIDE DEF c
  <2>4. /\ IsFiniteSet(Entries(memory[m])) /\ Size(memory[m]) \in Nat
        /\ Size(memory[m]) <= Limit(m)
        /\ max_items[m] \in Limits /\ max_items[m] \in Nat
        /\ Limit(m) \in Nat /\ (Limit(m) = max_items[m] \/ Limit(m) = 1)
    BY <2>1, FS_CardinalityType, LimitType DEF MemoryHeld, Size, Limit, LargerOf, TypeOK
  <2>5. IsFiniteSet(Entries(c)) /\ Size(c) \in Nat /\ Size(c) <= Limit(m)
    <3>1. IsFiniteSet(Entries(c)) /\ Size(c) <= Size(memory[m])
      BY <2>3, <2>4, FS_Subset DEF Size
    <3>2. Size(c) \in Nat
      BY <3>1, FS_CardinalityType DEF Size
    <3> QED
      BY <2>4, <3>1, <3>2
  <2>6. memory' \in [Manager -> Contents] /\ MemoryHeld'
    BY <1>5, <2>1, <2>2, <2>3, <2>5, MemoryUpdate DEF Delete
  <2>7. staged' \in [Task -> Contents] /\ StagedHeld'
    <3>1. Allowed(Size(c))
      BY <2>4, <2>5, AllowedFacts
    <3>2. staged' = [staged EXCEPT ![<<m, "delete">>] = c]
      BY <1>5, <2>2 DEF Delete
    <3> QED
      BY <2>1, <2>3, <2>5, <3>1, <3>2, StagedUpdate
  <2>8. deleted' \subseteq Key /\ mishap' \in {"none", "lost", "overlap"}
    BY <1>5 DEF Delete, Starts, HeldOnlyBy, TypeOK
  <2> QED
    BY <1>5, <2>1, <2>6, <2>7, <2>8 DEF Delete, diskVars, TypeOK, DiskHeld
<1>6. ASSUME NEW t \in Task, WriteFails(t)
      PROVE  TypeOK' /\ MemoryHeld' /\ DiskHeld' /\ StagedHeld'
  <2>1. staged' \in [Task -> Contents] /\ StagedHeld'
    BY <1>6, NothingFacts, StagedUpdate DEF WriteFails
  <2> QED
    BY <1>6, <2>1 DEF WriteFails, diskVars, TypeOK, MemoryHeld, DiskHeld, Limit
<1>7. ASSUME NEW t \in Task, RemoveDir(t)
      PROVE  TypeOK' /\ MemoryHeld' /\ DiskHeld' /\ StagedHeld'
  BY <1>7 DEF RemoveDir, TypeOK, MemoryHeld, DiskHeld, StagedHeld, Replacing, Limit
<1>8. ASSUME NEW t \in Task, RemoveDirEnds(t)
      PROVE  TypeOK' /\ MemoryHeld' /\ DiskHeld' /\ StagedHeld'
  BY <1>8 DEF RemoveDirEnds, TypeOK, MemoryHeld, DiskHeld, StagedHeld, Replacing, Limit
<1>9. ASSUME NEW t \in Task, Rename(t)
      PROVE  TypeOK' /\ MemoryHeld' /\ DiskHeld' /\ StagedHeld'
  <2>1. staged' \in [Task -> Contents] /\ StagedHeld'
    BY <1>9, NothingFacts, StagedUpdate DEF Rename
  <2> QED
    BY <1>9, <2>1 DEF Rename, TypeOK, MemoryHeld, DiskHeld, StagedHeld, Limit
<1>10. ASSUME NEW t \in Task, RenameFails(t)
       PROVE  TypeOK' /\ MemoryHeld' /\ DiskHeld' /\ StagedHeld'
  <2>1. staged' \in [Task -> Contents] /\ StagedHeld'
    BY <1>10, NothingFacts, StagedUpdate DEF RenameFails
  <2> QED
    BY <1>10, <2>1
    DEF RenameFails, GoesWrong, diskVars, TypeOK, MemoryHeld, DiskHeld, Replacing, Limit
<1>11. ASSUME NEW m \in Manager, Restart(m)
       PROVE  TypeOK' /\ MemoryHeld' /\ DiskHeld' /\ StagedHeld'
  <2>1. PICK n \in Limits : \E c \in Load(n) :
           max_items' = [max_items EXCEPT ![m] = n] /\ memory' = [memory EXCEPT ![m] = c]
    BY <1>11 DEF Restart
  <2>2. PICK c \in Load(n) :
           max_items' = [max_items EXCEPT ![m] = n] /\ memory' = [memory EXCEPT ![m] = c]
    BY <2>1
  <2>c. c \in Contents /\ IsFiniteSet(Entries(c)) /\ Size(c) <= LargerOf(n, 1)
    BY RestartFacts DEF TypeOK
  <2>l. /\ max_items' \in [Manager -> Limits] /\ memory' \in [Manager -> Contents]
        /\ memory'[m] = c /\ max_items'[m] = n
        /\ \A p \in Manager \ {m} : memory'[p] = memory[p] /\ max_items'[p] = max_items[p]
    BY <2>2, <2>c DEF TypeOK
  <2>m. MemoryHeld'
    BY <2>c, <2>l DEF MemoryHeld, Limit
  <2>3. staged' \in [Task -> Contents] /\ StagedHeld'
    BY <1>11, NothingFacts DEF Restart, TypeOK, StagedHeld
  <2>4. step' \in [Task -> {"idle", "loaded", "staged"} \union Replacing]
    BY <1>11 DEF Restart, TypeOK
  <2> QED
    BY <1>11, <2>l, <2>m, <2>3, <2>4 DEF Restart, GoesWrong, diskVars, TypeOK, DiskHeld
<1>12. ASSUME Tick
       PROVE  TypeOK' /\ MemoryHeld' /\ DiskHeld' /\ StagedHeld'
  BY <1>12 DEF Tick, diskVars, taskVars, TypeOK, MemoryHeld, DiskHeld, StagedHeld, Stamp, Limit
<1>13. CASE UNCHANGED vars
  BY <1>13 DEF vars, diskVars, taskVars, TypeOK, MemoryHeld, DiskHeld, StagedHeld, Limit
<1> QED
  BY <1>1, <1>2, <1>3, <1>4, <1>5, <1>6, <1>7, <1>8, <1>9, <1>10, <1>11, <1>12, <1>13 DEF Next
-----------------------------------------------------------------------------
(* The growth of the disk. *)

LEMMA GrowthStep ==
  ASSUME IInv, [Next]_vars
  PROVE  /\ OwnLimit'
         /\ Legacy = {} /\ mishap # "overlap" => OwnGrowth(Size(content), Size(content'))
<1> USE DEF IInv
<1> DEFINE Goal == OwnLimit' /\ (Legacy = {} /\ mishap # "overlap" =>
                                   OwnGrowth(Size(content), Size(content')))
<1>f. /\ Size(content) \in Nat /\ Found \in Nat
      /\ Found >= Size(content) /\ Found >= Cardinality(Flat) /\ Found >= 1
  BY FoundFacts DEF DiskHeld
<1>s. \A t \in Task : Size(staged[t]) \in Nat
  BY FS_CardinalityType DEF StagedHeld, Size
<1>m. \A m \in Manager : max_items[m] \in Nat
  BY DEF TypeOK
<1>t. \A t \in Task : t[1] \in Manager
  BY DEF Task
<1>0. ASSUME UNCHANGED content
      PROVE  OwnGrowth(Size(content), Size(content')) /\ Found' = Found
  BY <1>0, <1>f DEF OwnGrowth, Found
<1>1. ASSUME UNCHANGED <<content, step, staged, mishap, max_items>> PROVE Goal
  BY <1>0, <1>1 DEF OwnLimit
<1>2. ASSUME NEW m \in Saver, SaveLoad(m) PROVE Goal
  <2>1. /\ <<m, "save">> \in Task /\ UNCHANGED <<content, max_items>>
        /\ staged' = [staged EXCEPT ![<<m, "save">>] = LoadExistingCache]
        /\ step' = [step EXCEPT ![<<m, "save">>] = "loaded"]
        /\ mishap' # "overlap" => mishap # "overlap"
    BY <1>2 DEF SaveLoad, Starts, Task, diskVars
  <2>2. Legacy = {} => Size(LoadExistingCache) <= Found
    BY LoadFacts DEF TypeOK
  <2>3. \A t \in Task :
          IF t = <<m, "save">> THEN step'[t] = "loaded" /\ staged'[t] = LoadExistingCache
          ELSE step'[t] = step[t] /\ staged'[t] = staged[t]
    BY <2>1 DEF TypeOK
  <2> QED
    BY <1>0, <2>1, <2>2, <2>3 DEF OwnLimit
<1>3. ASSUME NEW m \in Saver, SaveMerge(m) PROVE Goal
  <2> DEFINE t == <<m, "save">>
  <2>1. /\ t \in Task /\ m \in Manager /\ UNCHANGED <<content, max_items, mishap>>
        /\ step[t] = "loaded" /\ step' = [step EXCEPT ![t] = "staged"] /\ t[1] = m
    BY <1>3 DEF SaveMerge, Task, diskVars
  <2>2. PICK c \in ApplySizeManagement(max_items[m], MergeCaches(staged[t], memory[m]),
                                       Size(staged[t]), Size(memory[m])) :
           staged' = [staged EXCEPT ![t] = c]
    BY <1>3 DEF SaveMerge
  <2> HIDE DEF t
  <2>3. /\ staged[t] \in Contents /\ memory[m] \in Contents /\ max_items[m] \in Nat
        /\ IsFiniteSet(Entries(staged[t])) /\ IsFiniteSet(Entries(memory[m]))
    BY <1>m, <2>1 DEF TypeOK, MemoryHeld, StagedHeld
  <2>4. Size(c) \in Nat /\ (Size(c) <= Size(staged[t]) \/ Size(c) <= max_items[m])
    BY <2>2, <2>3, SizeManagementFacts
  <2>5. \A u \in Task : IF u = t THEN step'[u] = "staged" /\ staged'[u] = c
                        ELSE step'[u] = step[u] /\ staged'[u] = staged[u]
    BY <2>1, <2>2 DEF TypeOK
  <2>6. Legacy = {} /\ mishap # "overlap" => Size(c) <= Found \/ Size(c) <= max_items[m]
    BY <1>f, <1>s, <2>1, <2>3, <2>4 DEF OwnLimit
  <2> QED
    BY <1>0, <2>1, <2>5, <2>6 DEF OwnLimit
<1>4. ASSUME NEW m \in Deleter, NEW K \in {{k} : k \in Key} \union {Key}, Delete(m, K) PROVE Goal
  <2> DEFINE t == <<m, "delete">>
             c == [k \in Key |-> IF k \in K THEN None ELSE memory[m][k]]
  <2>1. /\ t \in Task /\ m \in Manager /\ UNCHANGED <<content, max_items>>
        /\ step' = [step EXCEPT ![t] = "staged"] /\ t[1] = m
        /\ mishap' # "overlap" => mishap # "overlap"
    BY <1>4 DEF Delete, Starts, Task, diskVars
  <2>2. staged' = [staged EXCEPT ![t] = c]
    BY <1>4, <2>1 DEF Delete, TypeOK
  <2>3. Entries(c) \subseteq Entries(memory[m])
    BY <2>1 DEF TypeOK, Contents, Entries
  <2> HIDE DEF t, c
  <2>4. IsFiniteSet(Entries(memory[m])) /\ Size(memory[m]) <= Limit(m)
    BY <2>1 DEF MemoryHeld
  <2>5. IsFiniteSet(Entries(c)) /\ Size(c) <= Size(memory[m])
    BY <2>3, <2>4, FS_Subset DEF Size
  <2>6. Size(c) \in Nat /\ Size(memory[m]) \in Nat
    BY <2>4, <2>5, FS_CardinalityType DEF Size
  <2>7. Size(c) <= Found \/ Size(c) <= max_items[m]
    BY <1>f, <1>m, <2>1, <2>4, <2>5, <2>6 DEF Limit, LargerOf
  <2>8. \A u \in Task : IF u = t THEN step'[u] = "staged" /\ staged'[u] = c
                        ELSE step'[u] = step[u] /\ staged'[u] = staged[u]
    BY <2>1, <2>2 DEF TypeOK
  <2> QED
    BY <1>0, <2>1, <2>7, <2>8 DEF OwnLimit
<1>5. ASSUME NEW t \in Task, WriteFails(t) \/ RenameFails(t) PROVE Goal
  <2>1. /\ UNCHANGED <<content, max_items>>
        /\ mishap' # "overlap" => mishap # "overlap"
        /\ step'[t] \in {"idle", "failed"}
        /\ \A u \in Task \ {t} : step'[u] = step[u] /\ staged'[u] = staged[u]
    BY <1>5 DEF WriteFails, RenameFails, GoesWrong, diskVars, TypeOK
  <2> QED
    BY <1>0, <2>1 DEF OwnLimit
<1>6. ASSUME NEW t \in Task, RemoveDir(t) \/ RemoveDirEnds(t) PROVE Goal
  <2>1. /\ UNCHANGED <<content, max_items, staged, mishap>>
        /\ \A u \in Task \ {t} : step'[u] = step[u]
        /\ step'[t] # "loaded"
        /\ step'[t] \in {"staged", "removing", "removed"} =>
             step[t] \in {"staged", "removing", "removed"}
    BY <1>6 DEF RemoveDir, RemoveDirEnds, TypeOK
  <2>2. \A u \in Task :
          /\ step'[u] = "loaded" => step[u] = "loaded"
          /\ step'[u] \in {"staged", "removing", "removed"} =>
               step[u] \in {"staged", "removing", "removed"}
    BY <2>1
  <2> QED
    BY <1>0, <2>1, <2>2 DEF OwnLimit
<1>7. ASSUME NEW t \in Task, Rename(t) PROVE Goal
  <2>1. /\ step[t] = "removed" /\ step'[t] = "idle" /\ content' = staged[t]
        /\ mishap' # "overlap" => mishap # "overlap"
        /\ \A u \in Task \ {t} : step'[u] = step[u]
    BY <1>7 DEF Rename, TypeOK
  <2>2. mishap # "overlap" => \A u \in Task \ {t} : step[u] = "idle"
    BY <2>1 DEF OneAtATime
  <2>3. OwnLimit'
    BY <2>1, <2>2 DEF OwnLimit
  <2>4. Legacy = {} /\ mishap # "overlap" =>
          Size(staged[t]) <= Found \/ Size(staged[t]) <= max_items[t[1]]
    BY <2>1 DEF OwnLimit
  <2> QED
    BY <2>1, <2>3, <2>4 DEF OwnGrowth, Found
<1>8. ASSUME NEW m \in Manager, Restart(m) PROVE Goal
  <2>1. /\ UNCHANGED content
        /\ mishap' # "overlap" => mishap # "overlap"
        /\ \A p \in Manager \ {m} : max_items'[p] = max_items[p]
        /\ \A u \in Task : IF u[1] = m THEN step'[u] = "idle"
                           ELSE step'[u] = step[u] /\ staged'[u] = staged[u]
    BY <1>8 DEF Restart, GoesWrong, diskVars, TypeOK
  <2> QED
    BY <1>0, <1>t, <2>1 DEF OwnLimit
<1>9. ASSUME NEW m \in Manager, NEW k \in Key, Get(m, k) \/ Set(m, k) PROVE Goal
  BY <1>1, <1>9 DEF Get, Set, diskVars, taskVars
<1>10. ASSUME Tick \/ UNCHANGED vars PROVE Goal
  BY <1>1, <1>10 DEF Tick, vars, diskVars, taskVars
<1> QED
  BY <1>2, <1>3, <1>4, <1>5, <1>6, <1>7, <1>8, <1>9, <1>10 DEF Next
-----------------------------------------------------------------------------
(* The directory. *)

LEMMA OrderStep ==
  ASSUME IInv, [Next]_vars
  PROVE  OneAtATime' /\ MissingOnlyInReplacement'
<1> USE DEF IInv, OneAtATime, MissingOnlyInReplacement, Replacing
<1>1. ASSUME UNCHANGED <<dir, content, step, mishap>>
      PROVE  OneAtATime' /\ MissingOnlyInReplacement'
  BY <1>1
<1>2. ASSUME NEW t \in Task, step[t] = "idle", NEW K, Starts(t, K), UNCHANGED <<dir, content>>,
             NEW s \in {"loaded", "staged"}, step' = [step EXCEPT ![t] = s]
      PROVE  OneAtATime' /\ MissingOnlyInReplacement'
  <2>1. OneAtATime'
    BY <1>2 DEF Starts, TypeOK
  <2>2. MissingOnlyInReplacement'
    BY <1>2 DEF Starts, TypeOK
  <2> QED
    BY <2>1, <2>2
<1>3. ASSUME NEW m \in Saver, SaveLoad(m) PROVE OneAtATime' /\ MissingOnlyInReplacement'
  BY <1>2, <1>3 DEF SaveLoad, Task, diskVars
<1>4. ASSUME NEW m \in Saver, SaveMerge(m) PROVE OneAtATime' /\ MissingOnlyInReplacement'
  BY <1>4 DEF SaveMerge, Task, diskVars, TypeOK
<1>5. ASSUME NEW m \in Deleter, NEW K \in {{k} : k \in Key} \union {Key}, Delete(m, K)
      PROVE  OneAtATime' /\ MissingOnlyInReplacement'
  BY <1>2, <1>5 DEF Delete, Task, diskVars
<1>6. ASSUME NEW t \in Task, WriteFails(t) PROVE OneAtATime' /\ MissingOnlyInReplacement'
  BY <1>6 DEF WriteFails, diskVars, TypeOK
<1>7. ASSUME NEW t \in Task, RemoveDir(t) PROVE OneAtATime' /\ MissingOnlyInReplacement'
  BY <1>7 DEF RemoveDir, TypeOK
<1>8. ASSUME NEW t \in Task, RemoveDirEnds(t) PROVE OneAtATime' /\ MissingOnlyInReplacement'
  BY <1>8 DEF RemoveDirEnds, TypeOK
<1>9. ASSUME NEW t \in Task, Rename(t) PROVE OneAtATime' /\ MissingOnlyInReplacement'
  BY <1>9 DEF Rename, TypeOK
<1>10. ASSUME NEW t \in Task, RenameFails(t) PROVE OneAtATime' /\ MissingOnlyInReplacement'
  BY <1>10 DEF RenameFails, GoesWrong, diskVars, TypeOK
<1>11. ASSUME NEW m \in Manager, Restart(m) PROVE OneAtATime' /\ MissingOnlyInReplacement'
  BY <1>11 DEF Restart, GoesWrong, diskVars, TypeOK
<1>12. ASSUME NEW m \in Manager, NEW k \in Key, Get(m, k) \/ Set(m, k)
       PROVE  OneAtATime' /\ MissingOnlyInReplacement'
  BY <1>1, <1>12 DEF Get, Set, diskVars, taskVars
<1>13. ASSUME Tick \/ UNCHANGED vars PROVE OneAtATime' /\ MissingOnlyInReplacement'
  BY <1>1, <1>13 DEF Tick, vars, diskVars, taskVars
<1> QED
  BY <1>3, <1>4, <1>5, <1>6, <1>7, <1>8, <1>9, <1>10, <1>11, <1>12, <1>13 DEF Next
-----------------------------------------------------------------------------
(* The deleted keys. *)

LEMMA DeletedStep == ASSUME IInv, [Next]_vars PROVE DeletedIsGone'
<1> SUFFICES ASSUME mishap' # "overlap", NEW k \in deleted' \ (Legacy \union Flat)
             PROVE  /\ \A m \in Manager : memory'[m][k] = None
                    /\ \A t \in Task : step'[t] \in Writing => staged'[t][k] = None
                    /\ (\A t \in Task : ~Unanswered(t)') /\ dir' = "whole" => content'[k] = None
  BY DEF DeletedIsGone
<1> USE DEF IInv, TypeOK, Writing
<1>0. k \in Key /\ mishap # "overlap"
  BY SizeStep DEF Next, Get, Set, SaveLoad, SaveMerge, Delete, WriteFails, RemoveDir,
     RemoveDirEnds, Rename, RenameFails, Restart, Tick, Starts, GoesWrong, vars
<1>1. k \in deleted =>
        /\ \A m \in Manager : memory[m][k] = None
        /\ \A t \in Task : step[t] \in Writing => staged[t][k] = None
        /\ (\A t \in Task : ~Unanswered(t)) /\ dir = "whole" => content[k] = None
  BY <1>0 DEF DeletedIsGone
<1>o. \A t, u \in Task : step[t] # "idle" /\ step[u] # "idle" => t = u
  BY <1>0 DEF OneAtATime
<1> DEFINE Goal ==
  /\ \A m \in Manager : memory'[m][k] = None
  /\ \A t \in Task : step'[t] \in Writing => staged'[t][k] = None
  /\ (\A t \in Task : ~Unanswered(t)') /\ dir' = "whole" => content'[k] = None
<1>2. ASSUME NEW m \in Manager, NEW j \in Key, Get(m, j) PROVE Goal
  BY <1>0, <1>1, <1>2 DEF Get, diskVars, taskVars, Unanswered, Contents
<1>3. ASSUME NEW m \in Manager, NEW j \in Key, Set(m, j) PROVE Goal
  <2>1. PICK c \in IF Size(memory[m]) >= max_items[m] THEN EvictOldest(memory[m]) ELSE {memory[m]} :
           memory' = [memory EXCEPT ![m] = [c EXCEPT ![j] = now]]
    BY <1>3 DEF Set
  <2>2. c \in Contents /\ c[k] \in {memory[m][k], None}
    BY <1>0, <2>1, EvictOldestFacts DEF MemoryHeld
  <2>3. k \in deleted /\ k # j
    BY <1>3 DEF Set
  <2>4. \A n \in Manager : memory'[n][k] = None
    BY <1>0, <1>1, <2>1, <2>2, <2>3 DEF Contents
  <2> QED
    BY <1>1, <1>3, <2>3, <2>4 DEF Set, diskVars, taskVars, Unanswered
<1>4. ASSUME NEW m \in Saver, SaveLoad(m) PROVE Goal
  <2>1. <<m, "save">> \in Task
    BY DEF Task
  <2>2. k \in deleted /\ UNCHANGED <<memory, dir, content>>
    BY <1>0, <1>4 DEF SaveLoad, Starts, diskVars
  <2>3. \A t \in Task : step[t] = "idle"
    BY <1>0, <1>4, <2>1 DEF SaveLoad, Starts
  <2>4. LoadExistingCache[k] = None
    BY <1>0, <1>1, <2>2, <2>3, LoadFacts DEF Unanswered
  <2>5. \A t \in Task : step'[t] \in Writing => staged'[t][k] = None
    BY <1>4, <2>1, <2>3, <2>4 DEF SaveLoad
  <2>6. (\A t \in Task : ~Unanswered(t)) /\ dir = "whole" => content[k] = None
    BY <1>1, <2>2
  <2> QED
    BY <1>1, <2>2, <2>3, <2>5, <2>6 DEF Unanswered
<1>5. ASSUME NEW m \in Saver, SaveMerge(m) PROVE Goal
  <2>1. <<m, "save">> \in Task /\ m \in Manager
    BY DEF Task
  <2>2. k \in deleted /\ UNCHANGED <<memory, dir, content>>
    BY <1>5 DEF SaveMerge, diskVars
  <2>3. PICK c \in ApplySizeManagement(max_items[m],
             MergeCaches(staged[<<m, "save">>], memory[m]),
             Size(staged[<<m, "save">>]), Size(memory[m])) :
           staged' = [staged EXCEPT ![<<m, "save">>] = c]
    BY <1>5 DEF SaveMerge
  <2>4. staged[<<m, "save">>][k] = None /\ memory[m][k] = None
    BY <1>1, <1>5, <2>1, <2>2 DEF SaveMerge
  <2>5. c[k] = None
    <3>1. /\ staged[<<m, "save">>] \in Contents /\ memory[m] \in Contents
          /\ IsFiniteSet(Entries(staged[<<m, "save">>])) /\ IsFiniteSet(Entries(memory[m]))
      BY <2>1 DEF MemoryHeld, StagedHeld
    <3>2. max_items[m] \in Nat
      BY <2>1
    <3> QED
      BY <1>0, <3>2, <2>3, <2>4, <3>1, SizeManagementFacts
  <2>6. \A t \in Task : step'[t] \in Writing => staged'[t][k] = None
    BY <1>1, <1>5, <2>1, <2>2, <2>3, <2>5 DEF SaveMerge
  <2>7. \A t \in Task : Unanswered(t)' <=> Unanswered(t)
    BY <1>5, <2>1 DEF SaveMerge, Unanswered
  <2> QED
    BY <1>1, <2>2, <2>6, <2>7
<1>6. ASSUME NEW m \in Deleter, NEW K \in {{j} : j \in Key} \union {Key}, Delete(m, K)
      PROVE  Goal
  <2>1. <<m, "delete">> \in Task /\ m \in Manager
    BY DEF Task
  <2>2. memory' = [memory EXCEPT ![m] = [j \in Key |-> IF j \in K THEN None ELSE memory[m][j]]]
    BY <1>6, <2>1 DEF Delete
  <2>3. k \in deleted \/ (k \in K /\ \A n \in Manager \ {m} : memory[n][k] = None)
    BY <1>6, <1>0 DEF Delete, Starts, HeldOnlyBy, Entries
  <2>4. \A n \in Manager : memory'[n][k] = None
    BY <1>0, <1>1, <2>1, <2>2, <2>3
  <2>5. \A t \in Task : step'[t] \in Writing => staged'[t][k] = None
    BY <1>6, <2>1, <2>4 DEF Delete, Starts
  <2>6. Unanswered(<<m, "delete">>)'
    BY <1>6, <2>1 DEF Delete, Unanswered
  <2> QED
    BY <2>1, <2>4, <2>5, <2>6
<1>7. ASSUME NEW t \in Task, WriteFails(t) PROVE Goal
  <2>1. k \in deleted /\ ~Unanswered(t) /\ UNCHANGED <<memory, dir, content>>
    BY <1>7 DEF WriteFails, diskVars
  <2>2. \A u \in Task : Unanswered(u)' <=> Unanswered(u)
    BY <1>7, <2>1 DEF WriteFails, Unanswered
  <2> QED
    BY <1>1, <1>7, <2>1, <2>2 DEF WriteFails
<1>8. ASSUME NEW t \in Task, RemoveDir(t) PROVE Goal
  <2>1. /\ k \in deleted /\ UNCHANGED <<memory, content, staged>>
        /\ dir' = "whole" => dir = "whole"
    BY <1>8 DEF RemoveDir
  <2>2. \A u \in Task : /\ step'[u] \in Writing => step[u] \in Writing
                        /\ Unanswered(u)' <=> Unanswered(u)
    BY <1>8 DEF RemoveDir, Unanswered
  <2> QED
    BY <1>1, <2>1, <2>2
<1>9. ASSUME NEW t \in Task, RemoveDirEnds(t) PROVE Goal
  <2>1. /\ k \in deleted /\ UNCHANGED <<memory, content, staged>>
        /\ dir' = "whole" => dir = "whole"
        /\ step[t] = "clearing" => ~Unanswered(t)
    BY <1>9 DEF RemoveDirEnds
  <2>2. \A u \in Task : /\ step'[u] \in Writing => step[u] \in Writing
                        /\ Unanswered(u)' <=> Unanswered(u)
    BY <1>9, <2>1 DEF RemoveDirEnds, Unanswered
  <2> QED
    BY <1>1, <2>1, <2>2
<1>10. ASSUME NEW t \in Task, Rename(t) PROVE Goal
  <2>1. k \in deleted /\ UNCHANGED memory /\ content'[k] = None
    BY <1>1, <1>10 DEF Rename
  <2>2. \A u \in Task : step'[u] \in Writing => staged'[u][k] = None
    BY <1>1, <1>10, <2>1 DEF Rename
  <2> QED
    BY <1>1, <2>1, <2>2
<1>11. ASSUME NEW t \in Task, RenameFails(t) PROVE Goal
  <2>1. k \in deleted /\ UNCHANGED <<memory, dir, content>>
    BY <1>11 DEF RenameFails, diskVars
  <2>2. \A u \in Task : /\ step'[u] \in Writing => step[u] \in Writing /\ staged'[u] = staged[u]
                        /\ Unanswered(u)' <=> Unanswered(u)
    BY <1>11 DEF RenameFails, Unanswered
  <2> QED
    BY <1>1, <2>1, <2>2
<1>12. ASSUME NEW m \in Manager, Restart(m) PROVE Goal
  <2>1. k \in deleted /\ UNCHANGED <<dir, content>> /\ \A t \in Task : ~Unanswered(t)
    BY <1>12 DEF Restart, diskVars
  <2>2. LoadExistingCache[k] = None
    BY <1>0, <1>1, <2>1, LoadFacts
  <2>3. \A n \in Manager : memory'[n][k] = None
    <3>1. PICK p \in Limits : \E c \in Load(p) : memory' = [memory EXCEPT ![m] = c]
      BY <1>12 DEF Restart
    <3>2. PICK c \in Load(p) : memory' = [memory EXCEPT ![m] = c]
      BY <3>1
    <3>3. c[k] = None
      BY <1>0, <2>2, RestartFacts
    <3> QED
      BY <1>1, <2>1, <3>2, <3>3
  <2>4. \A t \in Task : step'[t] \in Writing => staged'[t][k] = None
    BY <1>1, <1>12, <2>1 DEF Restart
  <2> QED
    BY <1>1, <2>1, <2>3, <2>4
<1>13. ASSUME Tick \/ UNCHANGED vars PROVE Goal
  BY <1>1, <1>13 DEF Tick, vars, diskVars, taskVars, Unanswered
<1> QED
  BY <1>2, <1>3, <1>4, <1>5, <1>6, <1>7, <1>8, <1>9, <1>10, <1>11, <1>12, <1>13 DEF Next
-----------------------------------------------------------------------------
LEMMA InvInit == Init => IInv
<1> SUFFICES ASSUME Init PROVE IInv
  OBVIOUS
<1>1. content \in Contents /\ DiskHeld /\ dir \in {"absent", "partial", "whole"}
  BY NothingFacts DEF Init, DiskHeld
<1>2. MemoryHeld /\ memory \in [Manager -> Contents] /\ max_items \in [Manager -> Limits]
  <2>1. \A m \in Manager : max_items[m] \in Limits /\ memory[m] \in Load(max_items[m])
    BY DEF Init
  <2>2. \A m \in Manager : /\ memory[m] \in Contents /\ IsFiniteSet(Entries(memory[m]))
                           /\ Size(memory[m]) <= LargerOf(max_items[m], 1)
    BY <1>1, <2>1, RestartFacts
  <2>3. memory = [m \in Manager |-> memory[m]]
    BY DEF Init
  <2>4. memory \in [Manager -> Contents]
    BY <2>2, <2>3
  <2> QED
    BY <2>2, <2>4 DEF Init, MemoryHeld, Limit
<1>3. StagedHeld
  BY NothingFacts DEF Init, StagedHeld
<1>4. TypeOK
  <2>1. now \in Stamp /\ deleted \subseteq Key
    BY DEF Init, Stamp
  <2>2. mishap \in {"none", "lost", "overlap"}
    BY DEF Init
  <2>3. /\ step \in [Task -> {"idle", "loaded", "staged"} \union Replacing]
        /\ staged \in [Task -> Contents]
    BY NothingFacts DEF Init
  <2>4. dir \in {"absent", "partial", "whole"}
    BY DEF Init
  <2> QED
    BY <1>1, <1>2, <2>1, <2>2, <2>3, <2>4 DEF TypeOK
<1>5. OwnLimit /\ OneAtATime /\ MissingOnlyInReplacement /\ DeletedIsGone
  BY DEF Init, OwnLimit, OneAtATime, MissingOnlyInReplacement, DeletedIsGone
<1> QED
  BY <1>1, <1>2, <1>3, <1>4, <1>5 DEF IInv

LEMMA InvStep == IInv /\ [Next]_vars => IInv'
  BY SizeStep, GrowthStep, OrderStep, DeletedStep DEF IInv

(* The inductive invariant holds in every behaviour. *)
THEOREM Invariance == Spec => []IInv
  BY InvInit, InvStep, PTL DEF Spec

(* The state of the cache keeps its types. *)
THEOREM TypeCorrect == Spec => []TypeOK
  BY Invariance, PTL DEF IInv

(* The limits hold in every process and on disk, and a save lets the disk grow
   only up to the limit of its own process (cache.rs:148-176, 463-505). *)
THEOREM CapacityIsHeld == Spec => CapacityHeld
<1>1. IInv => WithinLimits
  BY DEF IInv, MemoryHeld, DiskHeld, WithinLimits, Limit, Allowed
<1>2. IInv /\ [Next]_vars =>
        [Legacy = {} /\ mishap # "overlap" => OwnGrowth(Size(content), Size(content'))]_vars
  BY GrowthStep
<1> QED
  BY <1>1, <1>2, Invariance, PTL DEF Spec, CapacityHeld

(* A saved cache is missing only while it is replaced, after a process stopped
   doing so or failed to rename, or once two tasks wrote at a time
   (cache.rs:665-692). *)
THEOREM SavedIsThere == Spec => []MissingOnlyInReplacement
  BY Invariance, PTL DEF IInv

(* A deleted key comes back neither from the disk nor from a save under way,
   as long as writers do not overlap (cache.rs:236-288). *)
THEOREM DeletedIsDeleted == Spec => []DeletedStaysDeleted
<1>1. IInv => DeletedStaysDeleted
  <2> SUFFICES ASSUME IInv, mishap # "overlap", \A t \in Task : ~Unanswered(t),
                      NEW k \in deleted \ (Legacy \union Flat)
               PROVE  LoadExistingCache[k] = None /\ \A m \in Manager : memory[m][k] = None
    BY DEF DeletedStaysDeleted
  <2>1. /\ k \in Key /\ content \in Contents /\ DiskHeld
        /\ dir \in {"absent", "partial", "whole"}
    BY DEF IInv, TypeOK
  <2>2. /\ \A m \in Manager : memory[m][k] = None
        /\ dir = "whole" => content[k] = None
    BY DEF IInv, DeletedIsGone
  <2> QED
    BY <2>1, <2>2, LoadFacts
<1> QED
  BY <1>1, Invariance, PTL
=============================================================================
