----------------------------- MODULE CacheManager -----------------------------
(***************************************************************************)
(* The response cache of the RPC proxy, crates/rpc-proxy/src/cache.rs: the *)
(* map in memory with its least-recently-used eviction, and the copy on    *)
(* disk that saves, deletions and restarts share.  Any number of proxy     *)
(* processes may use one cache path, and in one process a periodic save, a *)
(* deletion and the save at shutdown may overlap: nothing is locked while  *)
(* files are read or written.                                              *)
(*                                                                         *)
(* An entry is its accessed_at; the data of a key never differs.  A        *)
(* directory that remove_dir_all has begun to empty is "partial"; what     *)
(* load_from_split_files finds there does not parse, or is no file at all, *)
(* so that it loads as nothing.                                            *)
(***************************************************************************)
EXTENDS Naturals, FiniteSets

CONSTANTS Manager,   \* the proxy processes that use this cache path
          Saver,     \* those of them whose save task runs (save_to_disk)
          Deleter,   \* those that are asked to delete_by_key and _by_method
          Key,
          Limits,    \* the values of max_items that processes are started with
          Legacy,    \* the keys in a legacy rpc.json, which nobody rewrites
          Flat,      \* those in files rpc.json.N beside it, which nobody does either
          MaxTime,   \* bound on the clock, in seconds
          None

ASSUME LimitsAssumption == Limits \subseteq Nat /\ Limits # {}
ASSUME TaskAssumption == Saver \subseteq Manager /\ Deleter \subseteq Manager
ASSUME LegacyAssumption == /\ Legacy \subseteq Key /\ IsFiniteSet(Legacy)
                           /\ Flat \subseteq Key /\ IsFiniteSet(Flat)
ASSUME TimeAssumption == MaxTime \in Nat /\ None \notin Nat

VARIABLES
  now,      \* the clock
  max_items,
  memory,   \* memory[m][k]: accessed_at of k in m's cache, None if absent
  dir,      \* the state of the cache directory
  content,  \* what its files held when last renamed into place
  step,     \* step[t]: where task t stands in its save
  staged,   \* staged[t]: what t loaded, then what it is about to write
  deleted,  \* history: keys deleted where no other process held them, and not
            \* set since; forgotten on an error, when another is started and
            \* when two tasks overlap
  mishap    \* history: "lost" if since the last rename a process stopped while
            \* it replaced the directory, or could not rename its own into place;
            \* "overlap", for good, once a task began to write while another did

diskVars == <<dir, content>>
taskVars == <<step, staged>>
vars == <<now, max_items, memory, dir, content, step, staged, deleted, mishap>>

Task == (Saver \X {"save"}) \union (Deleter \X {"delete"})
Stamp == 0..MaxTime
Contents == [Key -> Stamp \union {None}]
Nothing == [k \in Key |-> None]
Entries(c) == {k \in Key : c[k] # None}
Size(c) == Cardinality(Entries(c))

Replacing == {"removing", "removed", "failed", "clearing"}

TypeOK ==
  /\ now \in Stamp
  /\ max_items \in [Manager -> Limits]
  /\ memory \in [Manager -> Contents]
  /\ dir \in {"absent", "partial", "whole"}
  /\ content \in Contents
  /\ step \in [Task -> {"idle", "loaded", "staged"} \union Replacing]
  /\ staged \in [Task -> Contents]
  /\ deleted \subseteq Key
  /\ mishap \in {"none", "lost", "overlap"}
-----------------------------------------------------------------------------
(* merge_caches: of two entries the one accessed last, the second in a tie. *)
MergeCaches(first, second) ==
  [k \in Key |-> IF second[k] = None \/ (first[k] # None /\ first[k] > second[k])
                 THEN first[k] ELSE second[k]]

(* evict_to_size keeps the entries accessed last; a HashMap has no order, so
   any of those accessed at the same time may go. *)
EvictToSize(c, size) ==
  IF Size(c) <= size THEN {c}
  ELSE {[k \in Key |-> IF k \in kept THEN c[k] ELSE None] :
          kept \in {K \in SUBSET Entries(c) :
                      /\ Cardinality(K) = size
                      /\ \A k \in K, j \in Entries(c) \ K : c[j] <= c[k]}}

(* evict_oldest removes a tenth, and at least one. *)
EvictOldest(c) ==
  LET tenth == Size(c) \div 10
      removed == IF tenth > 1 THEN tenth ELSE 1
  IN  EvictToSize(c, IF Size(c) > removed THEN Size(c) - removed ELSE 0)

ApplyNoManagement(limit, merged, diskSize, memorySize) == {merged}

ApplySizeManagement(limit, merged, diskSize, memorySize) ==
  EvictToSize(merged,
    IF diskSize >= memorySize THEN diskSize
    ELSE IF limit < Size(merged) THEN limit ELSE Size(merged))

Old(keys) == [k \in Key |-> IF k \in keys THEN 0 ELSE None]

(* The files of the directory, or, where there is none, the old flat ones. *)
LoadFromSplitFiles ==
  CASE dir = "whole" -> content [] dir = "partial" -> Nothing [] dir = "absent" -> Old(Flat)

LoadExistingCache == MergeCaches(Old(Legacy), LoadFromSplitFiles)

(* CacheManager::new loads the disk, and evicts to the process's max_items. *)
Load(limit) == EvictToSize(LoadExistingCache, limit)

Init ==
  /\ now = 0
  /\ dir = "absent" /\ content = Nothing
  /\ max_items \in [Manager -> Limits]
  /\ memory \in [Manager -> UNION {Load(n) : n \in Limits}]
  /\ \A m \in Manager : memory[m] \in Load(max_items[m])
  /\ step = [t \in Task |-> "idle"]
  /\ staged = [t \in Task |-> Nothing]
  /\ deleted = {} /\ mishap = "none"
-----------------------------------------------------------------------------
(* A hit renews the entry; a miss changes nothing. *)
Get(m, k) ==
  /\ memory[m][k] # None
  /\ memory' = [memory EXCEPT ![m][k] = now]
  /\ UNCHANGED <<now, max_items, diskVars, taskVars, deleted, mishap>>

Set(m, k) ==
  /\ \E c \in IF Size(memory[m]) >= max_items[m] THEN EvictOldest(memory[m]) ELSE {memory[m]} :
        memory' = [memory EXCEPT ![m] = [c EXCEPT ![k] = now]]
  /\ deleted' = deleted \ {k}
  /\ UNCHANGED <<now, max_items, diskVars, taskVars, mishap>>

(* What the histories keep when t begins to write, having deleted K, ... *)
Starts(t, K) ==
  /\ mishap' = IF \E u \in Task \ {t} : step[u] # "idle" THEN "overlap" ELSE mishap
  /\ deleted' = IF mishap' = "overlap" THEN {} ELSE deleted \union K

(* ... and when something goes wrong in a replacement. *)
GoesWrong == mishap' = IF mishap = "overlap" THEN mishap ELSE "lost"

(* save_to_disk_impl reads the disk, ... *)
SaveLoad(m) ==
  /\ step[<<m, "save">>] = "idle"
  /\ staged' = [staged EXCEPT ![<<m, "save">>] = LoadExistingCache]
  /\ step' = [step EXCEPT ![<<m, "save">>] = "loaded"]
  /\ Starts(<<m, "save">>, {})
  /\ UNCHANGED <<now, max_items, memory, diskVars>>

(* ... then the memory, merges the two and writes a temporary directory. *)
SaveMerge(m) ==
  /\ step[<<m, "save">>] = "loaded"
  /\ \E c \in ApplySizeManagement(max_items[m], MergeCaches(staged[<<m, "save">>], memory[m]),
                                  Size(staged[<<m, "save">>]), Size(memory[m])) :
        staged' = [staged EXCEPT ![<<m, "save">>] = c]
  /\ step' = [step EXCEPT ![<<m, "save">>] = "staged"]
  /\ UNCHANGED <<now, max_items, memory, diskVars, deleted, mishap>>

HeldOnlyBy(m, K) ==
  {k \in K \intersect Entries(memory[m]) :
     \A n \in Manager \ {m} : k \notin Entries(memory[n])}

(* delete_by_key(k) is the case K = {k}; delete_by_method takes the keys of a
   method.  Nothing is written when none was there. *)
DeleteFromMerge(m, K) ==
  /\ step[<<m, "delete">>] = "idle"
  /\ K \intersect Entries(memory[m]) # {}
  /\ memory' = [memory EXCEPT ![m] = [k \in Key |-> IF k \in K THEN None ELSE @[k]]]
  /\ staged' = [staged EXCEPT ![<<m, "delete">>] = MergeCaches(LoadExistingCache, memory'[m])]
  /\ step' = [step EXCEPT ![<<m, "delete">>] = "staged"]
  /\ Starts(<<m, "delete">>, HeldOnlyBy(m, K))
  /\ UNCHANGED <<now, max_items, diskVars>>

Delete(m, K) ==
  /\ step[<<m, "delete">>] = "idle"
  /\ K \intersect Entries(memory[m]) # {}
  /\ memory' = [memory EXCEPT ![m] = [k \in Key |-> IF k \in K THEN None ELSE @[k]]]
  /\ staged' = [staged EXCEPT ![<<m, "delete">>] = memory'[m]]
  /\ step' = [step EXCEPT ![<<m, "delete">>] = "staged"]
  /\ Starts(<<m, "delete">>, HeldOnlyBy(m, K))
  /\ UNCHANGED <<now, max_items, diskVars>>

(* Deletions are not vouched for when their task returns an error or stops. *)
Unanswered(t) == t[2] = "delete" /\ step[t] # "idle"

(* The temporary directory cannot be written. *)
WriteFails(t) ==
  /\ step[t] = "staged"
  /\ step' = [step EXCEPT ![t] = "idle"]
  /\ staged' = [staged EXCEPT ![t] = Nothing]
  /\ deleted' = IF Unanswered(t) THEN {} ELSE deleted
  /\ UNCHANGED <<now, max_items, memory, diskVars, mishap>>

(* remove_dir_all of the cache directory begins, before the replacement or to
   clean up after one that failed, if it can ... *)
RemoveDir(t) ==
  /\ step[t] \in {"staged", "failed"}
  /\ step' = [step EXCEPT ![t] = IF @ = "staged" THEN "removing" ELSE "clearing"]
  /\ dir' \in IF dir = "whole" THEN {"whole", "partial"} ELSE {dir}
  /\ UNCHANGED <<now, max_items, memory, content, staged, deleted, mishap>>

(* ... and ends, having emptied what it found or not: another task may be
   emptying it too, the system may refuse, and a directory renamed into place
   meanwhile stays.  Errors are ignored. *)
RemoveDirEnds(t) ==
  /\ step[t] \in {"removing", "clearing"}
  /\ dir' \in IF dir = "partial" THEN {"partial", "absent"} ELSE {dir}
  /\ step' = [step EXCEPT ![t] = IF @ = "removing" THEN "removed" ELSE "idle"]
  /\ deleted' = IF step[t] = "clearing" /\ Unanswered(t) THEN {} ELSE deleted
  /\ UNCHANGED <<now, max_items, memory, content, staged, mishap>>

RenameKeepsOld(t) ==
  /\ step[t] = "removed" /\ dir # "whole"
  /\ content' = staged[t]
  /\ step' = [step EXCEPT ![t] = "idle"]
  /\ staged' = [staged EXCEPT ![t] = Nothing]
  /\ mishap' = IF mishap = "lost" THEN "none" ELSE mishap
  /\ UNCHANGED <<now, max_items, memory, dir, deleted>>

Rename(t) ==
  /\ step[t] = "removed" /\ dir # "whole"
  /\ dir' = "whole" /\ content' = staged[t]
  /\ step' = [step EXCEPT ![t] = "idle"]
  /\ staged' = [staged EXCEPT ![t] = Nothing]
  /\ mishap' = IF mishap = "lost" THEN "none" ELSE mishap
  /\ UNCHANGED <<now, max_items, memory, deleted>>

(* rename refuses a directory that is not empty, and fails when the system
   does not allow it or is out of order: the old directory is gone by then, and
   the temporary one is removed first of all. *)
RenameFails(t) ==
  /\ step[t] = "removed"
  /\ step' = [step EXCEPT ![t] = "failed"]
  /\ staged' = [staged EXCEPT ![t] = Nothing]
  /\ GoesWrong
  /\ UNCHANGED <<now, max_items, memory, diskVars, deleted>>

(* The process stops, with all its tasks, and another is started, with a
   max_items of its own. *)
Restart(m) ==
  /\ \E n \in Limits : \E c \in Load(n) :
        max_items' = [max_items EXCEPT ![m] = n] /\ memory' = [memory EXCEPT ![m] = c]
  /\ step' = [t \in Task |-> IF t[1] = m THEN "idle" ELSE step[t]]
  /\ staged' = [t \in Task |-> IF t[1] = m THEN Nothing ELSE staged[t]]
  /\ IF \E t \in Task : t[1] = m /\ step[t] \in Replacing THEN GoesWrong ELSE UNCHANGED mishap
  /\ deleted' = IF \E t \in Task : Unanswered(t) THEN {} ELSE deleted
  /\ UNCHANGED <<now, diskVars>>

Tick ==
  /\ now < MaxTime
  /\ now' = now + 1
  /\ UNCHANGED <<max_items, memory, diskVars, taskVars, deleted, mishap>>

Next ==
  \/ \E m \in Manager, k \in Key : Get(m, k) \/ Set(m, k)
  \/ \E m \in Saver : SaveLoad(m) \/ SaveMerge(m)
  \/ \E m \in Deleter, K \in {{k} : k \in Key} \union {Key} : Delete(m, K)
  \/ \E t \in Task :
        WriteFails(t) \/ RemoveDir(t) \/ RemoveDirEnds(t) \/ Rename(t) \/ RenameFails(t)
  \/ \E m \in Manager : Restart(m)
  \/ Tick

Spec == Init /\ [][Next]_vars
-----------------------------------------------------------------------------
LargerOf(a, b) == IF a > b THEN a ELSE b

(* A process holds no more than its own limit, through evictions, a restart
   from a larger disk, and whatever another process saved.  (With a limit of 0
   set still evicts first and inserts then: one entry stays.)  The disk holds no
   more than the largest limit, or the old flat files; and a save lets it grow
   only up to the limit of its own process, as apply_size_management says
   (cache.rs:463-465): "If disk was larger: respect disk size (no growth)", "If
   memory is larger: allow growth up to current max_items".  For the latter no
   two tasks must overlap: of two that do, one may write back as much as it found
   before the other wrote less.  Not so beside a legacy file: each save counts its
   entries as the disk's, writes as many as that, and loads the legacy ones it
   evicted again the next time. *)
WithinLimits ==
  /\ \A m \in Manager : Size(memory[m]) <= LargerOf(max_items[m], 1)
  /\ Legacy = {} =>
       \E n \in Limits \union {Cardinality(Flat)} : Size(content) <= LargerOf(n, 1)

OwnGrowth(old, new) ==
  \/ new <= LargerOf(old, LargerOf(Cardinality(Flat), 1))
  \/ \E t \in Task : step[t] = "removed" /\ step'[t] = "idle" /\ new <= max_items[t[1]]

CapacityHeld ==
  /\ []WithinLimits
  /\ [][Legacy = {} /\ mishap # "overlap" => OwnGrowth(Size(content), Size(content'))]_vars

(* A cache saved is there again after a restart: it is missing only while a
   task replaces it, until the next save after a process stopped doing so or
   failed to rename, or once two tasks wrote at the same time. *)
MissingOnlyInReplacement ==
  content # Nothing /\ dir # "whole" =>
     mishap # "none" \/ \E t \in Task : step[t] \in Replacing

(* cache.rs:275-277, force_save_to_disk bypasses the merge "to ensure deleted
   entries are not restored from disk": once a deletion is answered the key is
   neither on disk nor back in memory until it is set again, also after saves,
   failures and restarts.  That needs writers that do not overlap, and a key
   that no old file holds. *)
DeletedStaysDeleted ==
  mishap # "overlap" /\ (\A t \in Task : ~Unanswered(t)) =>
    \A k \in deleted \ (Legacy \union Flat) :
       LoadExistingCache[k] = None /\ \A m \in Manager : memory[m][k] = None
=============================================================================
