--------------------------- MODULE ApplyFilesProofs ---------------------------
(***************************************************************************)
(* Theorems about ApplyFiles, for any number of applies, any BACKUP_KEEP   *)
(* and a clock that may be set back any number of times: what pruning by   *)
(* the order of names leaves, and what a run finds of its own files.       *)
(***************************************************************************)
EXTENDS ApplyFiles, FiniteSetTheorems, SequenceTheorems, TLAPS

\* The parts a candidate's and a backup's name sort by.
CandidateNames == Nat \X Nat
BackupNames ==
  {b \in Nat \X (0 .. 2) \X Nat \X Nat : b[2] = 2 => b[3] = 0 /\ b[4] = 0}

\* Names of one kind: no two of them sort alike.
Ordered(names) ==
  /\ IsFiniteSet(names)
  /\ \A x \in names : ~SortsBefore(x, x)
  /\ \A x, y \in names : x = y \/ SortsBefore(x, y) \/ SortsBefore(y, x)
  /\ \A x, y, z \in names :
       SortsBefore(x, y) /\ SortsBefore(y, z) => SortsBefore(x, z)

Before(names, x) == {y \in names : SortsBefore(y, x)}
After(names, x) == {y \in names : SortsBefore(x, y)}

------------------------------------------------------------------------------
(* The order of names, and what pruning by it takes.                       *)

\* A candidate's name sorts by time, then by number.
LEMMA CandidateOrder ==
  ASSUME NEW x \in CandidateNames, NEW y \in CandidateNames
  PROVE  SortsBefore(x, y) <=> x[1] < y[1] \/ (x[1] = y[1] /\ x[2] < y[2])
<1>1. DOMAIN x = 1 .. 2 /\ x[1] \in Nat /\ x[2] \in Nat
      /\ y[1] \in Nat /\ y[2] \in Nat
  BY DEF CandidateNames
<1>2. SortsBefore(x, y) <=> \E i \in 1 .. 2 :
                              x[i] < y[i] /\ \A j \in 1 .. i - 1 : x[j] = y[j]
  BY <1>1 DEF SortsBefore
<1>3. \A i \in 1 .. 2 : i = 1 \/ i = 2
  OBVIOUS
<1>4. (\A j \in 1 .. 1 - 1 : x[j] = y[j])
      /\ ((\A j \in 1 .. 2 - 1 : x[j] = y[j]) <=> x[1] = y[1])
  OBVIOUS
<1>5. QED
  BY <1>2, <1>3, <1>4

\* A backup's name sorts by second, kind, time and number.
LEMMA BackupOrder ==
  ASSUME NEW x \in BackupNames, NEW y \in BackupNames
  PROVE  SortsBefore(x, y) <=>
           \/ x[1] < y[1]
           \/ x[1] = y[1] /\ x[2] < y[2]
           \/ x[1] = y[1] /\ x[2] = y[2] /\ x[3] < y[3]
           \/ x[1] = y[1] /\ x[2] = y[2] /\ x[3] = y[3] /\ x[4] < y[4]
<1>1. DOMAIN x = 1 .. 4
      /\ x[1] \in Nat /\ x[2] \in Nat /\ x[3] \in Nat /\ x[4] \in Nat
      /\ y[1] \in Nat /\ y[2] \in Nat /\ y[3] \in Nat /\ y[4] \in Nat
  BY DEF BackupNames
<1>2. SortsBefore(x, y) <=> \E i \in 1 .. 4 :
                              x[i] < y[i] /\ \A j \in 1 .. i - 1 : x[j] = y[j]
  BY <1>1 DEF SortsBefore
<1>3. \A i \in 1 .. 4 : i = 1 \/ i = 2 \/ i = 3 \/ i = 4
  OBVIOUS
<1>4. /\ \A j \in 1 .. 1 - 1 : x[j] = y[j]
      /\ (\A j \in 1 .. 2 - 1 : x[j] = y[j]) <=> x[1] = y[1]
      /\ (\A j \in 1 .. 3 - 1 : x[j] = y[j]) <=> x[1] = y[1] /\ x[2] = y[2]
      /\ (\A j \in 1 .. 4 - 1 : x[j] = y[j]) <=>
           x[1] = y[1] /\ x[2] = y[2] /\ x[3] = y[3]
  OBVIOUS
<1>5. QED
  BY <1>2, <1>3, <1>4

\* Candidates are ordered, and so are backups.
LEMMA CandidatesOrdered ==
  ASSUME NEW names, IsFiniteSet(names), names \subseteq CandidateNames
  PROVE  Ordered(names)
<1>1. \A x \in names : /\ x \in CandidateNames /\ x = <<x[1], x[2]>>
                       /\ x[1] \in Nat /\ x[2] \in Nat
  BY DEF CandidateNames
<1>2. \A x, y \in names :
        SortsBefore(x, y) <=> x[1] < y[1] \/ (x[1] = y[1] /\ x[2] < y[2])
  BY CandidateOrder
<1>3. \A x, y \in names : x[1] = y[1] /\ x[2] = y[2] => x = y
  BY <1>1
<1>4. \A x, y \in names : x = y \/ SortsBefore(x, y) \/ SortsBefore(y, x)
  BY <1>1, <1>2, <1>3
<1>5. \A x \in names : ~SortsBefore(x, x)
  BY <1>1, <1>2
<1>6. \A x, y, z \in names :
        SortsBefore(x, y) /\ SortsBefore(y, z) => SortsBefore(x, z)
  BY <1>1, <1>2
<1>7. QED
  BY <1>4, <1>5, <1>6 DEF Ordered

LEMMA BackupsOrdered ==
  ASSUME NEW names, IsFiniteSet(names), names \subseteq BackupNames
  PROVE  Ordered(names)
<1>1. \A x \in names :
        /\ x \in BackupNames /\ x = <<x[1], x[2], x[3], x[4]>>
        /\ x[1] \in Nat /\ x[2] \in Nat /\ x[3] \in Nat /\ x[4] \in Nat
  BY DEF BackupNames
<1>2. \A x, y \in names : SortsBefore(x, y) <=>
           \/ x[1] < y[1]
           \/ x[1] = y[1] /\ x[2] < y[2]
           \/ x[1] = y[1] /\ x[2] = y[2] /\ x[3] < y[3]
           \/ x[1] = y[1] /\ x[2] = y[2] /\ x[3] = y[3] /\ x[4] < y[4]
  BY BackupOrder
<1>3. \A x, y \in names :
        x[1] = y[1] /\ x[2] = y[2] /\ x[3] = y[3] /\ x[4] = y[4] => x = y
  BY <1>1
<1>4. \A x, y \in names : x = y \/ SortsBefore(x, y) \/ SortsBefore(y, x)
  BY <1>1, <1>2, <1>3
<1>5. \A x \in names : ~SortsBefore(x, x)
  BY <1>1, <1>2
<1>6. \A x, y, z \in names :
        SortsBefore(x, y) /\ SortsBefore(y, z) => SortsBefore(x, z)
  BY <1>1, <1>2
<1>7. QED
  BY <1>4, <1>5, <1>6 DEF Ordered

\* The names before one are fewer than all of them, and more for a later one.
LEMMA FewerBefore ==
  ASSUME NEW names, Ordered(names), NEW x \in names
  PROVE  /\ IsFiniteSet(Before(names, x))
         /\ Cardinality(Before(names, x)) \in 0 .. Cardinality(names) - 1
         /\ \A y \in names : SortsBefore(y, x) =>
              Cardinality(Before(names, y)) < Cardinality(Before(names, x))
<1>1. IsFiniteSet(names) /\ Cardinality(names) \in Nat
  BY FS_CardinalityType DEF Ordered
<1>2. ASSUME NEW y \in names
      PROVE  /\ IsFiniteSet(Before(names, y)) /\ y \notin Before(names, y)
             /\ Cardinality(Before(names, y)) \in Nat
  <2>1. Before(names, y) \in SUBSET names /\ y \notin Before(names, y)
    BY DEF Before, Ordered
  <2>2. IsFiniteSet(Before(names, y))
    BY <1>1, <2>1, FS_Subset
  <2>3. QED
    BY <2>1, <2>2, FS_CardinalityType
<1>3. Cardinality(Before(names, x)) <= Cardinality(names) - 1
  <2>1. Before(names, x) \in SUBSET names /\ x \notin Before(names, x)
    BY <1>2 DEF Before
  <2>2. Cardinality(Before(names, x)) <= Cardinality(names)
        /\ Before(names, x) # names
    BY <2>1, <1>1, FS_Subset
  <2>3. Cardinality(names) # Cardinality(Before(names, x))
    BY <2>1, <2>2, <1>1, FS_Subset
  <2>4. QED
    BY <2>2, <2>3, <1>1, <1>2
<1>4. ASSUME NEW y \in names, SortsBefore(y, x)
      PROVE  Cardinality(Before(names, y)) < Cardinality(Before(names, x))
  <2>1. Before(names, y) \in SUBSET Before(names, x)
    BY <1>4 DEF Before, Ordered
  <2>2. y \in Before(names, x) /\ y \notin Before(names, y)
    BY <1>4, <1>2 DEF Before
  <2>3. Cardinality(Before(names, y)) <= Cardinality(Before(names, x))
    BY <2>1, <1>2, FS_Subset
  <2>4. Cardinality(Before(names, y)) # Cardinality(Before(names, x))
    BY <2>1, <2>2, <1>2, FS_Subset
  <2>5. QED
    BY <2>3, <2>4, <1>2
<1>5. QED
  BY <1>1, <1>2, <1>3, <1>4

\* Each place in the order is taken, by one name.
LEMMA NthName ==
  ASSUME NEW names, Ordered(names), NEW n \in 1 .. Cardinality(names)
  PROVE  /\ Nth(names, n) \in names
         /\ Cardinality(Before(names, Nth(names, n))) = n - 1
<1> DEFINE place == [x \in names |-> Cardinality(Before(names, x)) + 1]
           places == 1 .. Cardinality(names)
<1>1. IsFiniteSet(names) /\ Cardinality(names) \in Nat
  BY FS_CardinalityType DEF Ordered
<1>2. place \in [names -> places]
  BY <1>1, FewerBefore
<1>3. ASSUME NEW x \in names, NEW y \in names, place[x] = place[y]
      PROVE  x = y
  <2>1. Cardinality(Before(names, x)) = Cardinality(Before(names, y))
        /\ Cardinality(Before(names, x)) \in Nat
    BY <1>3, <1>1, FewerBefore
  <2>2. ~SortsBefore(x, y) /\ ~SortsBefore(y, x)
    BY <2>1, FewerBefore
  <2>3. QED
    BY <2>2 DEF Ordered
<1>4. place \in Injection(names, places)
  BY <1>2, <1>3 DEF Injection, IsInjective
<1>5. IsFiniteSet(places) /\ Cardinality(places) = Cardinality(names)
  BY <1>1, FS_Interval
<1> HIDE DEF place
<1>6. place \in Surjection(names, places)
  BY <1>4, <1>5, FS_Injection
<1> USE DEF place
<1>7. PICK x \in names : place[x] = n
  BY <1>6 DEF Surjection
<1>8. Cardinality(Before(names, x)) = n - 1
  BY <1>7, <1>1, FewerBefore
<1>9. QED
  BY <1>8 DEF Nth, Before

\* The names of one kind, one of them, those before and those after it.
LEMMA BeforeAndAfter ==
  ASSUME NEW names, Ordered(names), NEW x \in names
  PROVE  /\ IsFiniteSet(After(names, x)) /\ Cardinality(After(names, x)) \in Nat
         /\ Cardinality(names) = Cardinality(Before(names, x)) + 1
                                   + Cardinality(After(names, x))
<1>1. IsFiniteSet(names) /\ Cardinality(names) \in Nat
  BY FS_CardinalityType DEF Ordered
<1>2. Before(names, x) \in SUBSET names /\ After(names, x) \in SUBSET names
  BY DEF Before, After
<1>3. IsFiniteSet(Before(names, x)) /\ IsFiniteSet(After(names, x))
  BY <1>1, <1>2, FS_Subset
<1>4. Cardinality(Before(names, x)) \in Nat
      /\ Cardinality(After(names, x)) \in Nat
  BY <1>3, FS_CardinalityType
<1>5. x \notin Before(names, x) /\ x \notin After(names, x)
      /\ (Before(names, x) \cup {x}) \cap After(names, x) = {}
  BY DEF Before, After, Ordered
<1>6. names = (Before(names, x) \cup {x}) \cup After(names, x)
  BY DEF Before, After, Ordered
<1>7. IsFiniteSet(Before(names, x) \cup {x})
      /\ Cardinality(Before(names, x) \cup {x}) = Cardinality(Before(names, x)) + 1
  BY <1>3, <1>5, FS_AddElement
<1>8. Cardinality((Before(names, x) \cup {x}) \cup After(names, x)) =
        Cardinality(Before(names, x) \cup {x}) + Cardinality(After(names, x))
          - Cardinality((Before(names, x) \cup {x}) \cap After(names, x))
  BY <1>3, <1>7, FS_Union
<1>9. Cardinality((Before(names, x) \cup {x}) \cap After(names, x)) = 0
  BY <1>5, FS_EmptySet
<1>10. QED
  BY <1>3, <1>4, <1>6, <1>7, <1>8, <1>9

\* Pruning takes each name once, and only one that keep others sort after.
LEMMA OldestNames ==
  ASSUME NEW names, Ordered(names), keep \in Nat
  PROVE  /\ Oldest(names) \in Seq(names)
         /\ \A i, j \in 1 .. Len(Oldest(names)) :
              Oldest(names)[i] = Oldest(names)[j] => i = j
         /\ \A i \in 1 .. Len(Oldest(names)) :
              /\ keep > 0
              /\ Oldest(names)[i] \in names
              /\ Cardinality(After(names, Oldest(names)[i])) >= keep
         /\ keep > 0 /\ Cardinality(names) > keep =>
              Len(Oldest(names)) = Cardinality(names) - keep
<1> DEFINE size == IF keep = 0 THEN 0 ELSE Cardinality(names) - keep
<1>1. IsFiniteSet(names) /\ Cardinality(names) \in Nat
  BY FS_CardinalityType DEF Ordered
<1>2. Oldest(names) = [i \in 1 .. size |-> Nth(names, i)]
  BY DEF Oldest
<1>3. size \in Int /\ size <= Cardinality(names) /\ (size > 0 => keep > 0)
      /\ (keep > 0 => size = Cardinality(names) - keep)
  BY <1>1
<1> HIDE DEF size
<1>4. \A i \in 1 .. size : /\ Nth(names, i) \in names
                           /\ Cardinality(Before(names, Nth(names, i))) = i - 1
  BY <1>1, <1>3, NthName
<1> DEFINE m == IF size > 0 THEN size ELSE 0
<1>5. m \in Nat /\ 1 .. size = 1 .. m /\ (size > 0 => m = size)
  BY <1>3
<1> HIDE DEF m
<1>6. Oldest(names) \in Seq(names) /\ Len(Oldest(names)) = m
      /\ \A i \in 1 .. m : Oldest(names)[i] = Nth(names, i)
  <2>1. Oldest(names) = [i \in 1 .. m |-> Nth(names, i)]
    BY <1>2, <1>5
  <2>2. \A i \in 1 .. m : Nth(names, i) \in names
    BY <1>4, <1>5
  <2>3. QED
    BY <2>1, <2>2, <1>5
<1>7. ASSUME NEW i \in 1 .. m, NEW j \in 1 .. m, Nth(names, i) = Nth(names, j)
      PROVE  i = j
  <2>1. Cardinality(Before(names, Nth(names, i))) = i - 1
        /\ Cardinality(Before(names, Nth(names, j))) = j - 1
    BY <1>4, <1>5
  <2>2. i - 1 = j - 1
    BY <2>1, <1>7
  <2>3. QED
    BY <2>2, <1>5
<1>8. ASSUME NEW i \in 1 .. m
      PROVE  keep > 0 /\ Cardinality(After(names, Nth(names, i))) >= keep
  <2>1. size > 0 /\ i <= size /\ i \in Nat
    BY <1>3, <1>5
  <2>2. Cardinality(names) = Cardinality(Before(names, Nth(names, i))) + 1
                               + Cardinality(After(names, Nth(names, i)))
        /\ Cardinality(After(names, Nth(names, i))) \in Nat
    BY <1>4, <1>5, BeforeAndAfter
  <2>3. Cardinality(Before(names, Nth(names, i))) = i - 1
    BY <1>4, <1>5
  <2>4. QED
    BY <2>1, <2>2, <2>3, <1>1, <1>3
<1>9. keep > 0 /\ Cardinality(names) > keep =>
        Len(Oldest(names)) = Cardinality(names) - keep
  BY <1>1, <1>3, <1>5, <1>6
<1>10. QED
  BY <1>4, <1>5, <1>6, <1>7, <1>8, <1>9

\* What pruning leaves is what is to be kept.
LEMMA OldestLeaveKeep ==
  ASSUME NEW names, Ordered(names), keep \in Nat \ {0}
  PROVE  Cardinality(names \ Range(Oldest(names))) <= keep
<1> DEFINE o == Oldest(names)
           n == Len(o)
<1>1. IsFiniteSet(names) /\ Cardinality(names) \in Nat
  BY FS_CardinalityType DEF Ordered
<1>2. o \in Seq(names) /\ \A i, j \in 1 .. n : o[i] = o[j] => i = j
  BY OldestNames
<1>3. keep > 0 /\ Cardinality(names) > keep => n = Cardinality(names) - keep
  BY OldestNames
<1> HIDE DEF o
<1>4. n \in Nat /\ DOMAIN o = 1 .. n /\ o \in [1 .. n -> Range(o)]
      /\ Range(o) \in SUBSET names
  BY <1>2 DEF Range
<1>5. o \in Bijection(1 .. n, Range(o))
  <2>1. o \in Injection(1 .. n, Range(o))
    BY <1>2, <1>4 DEF Injection, IsInjective
  <2>2. o \in Surjection(1 .. n, Range(o))
    BY <1>4 DEF Surjection, Range
  <2>3. QED
    BY <2>1, <2>2 DEF Bijection
<1>6. IsFiniteSet(1 .. n) /\ Cardinality(1 .. n) = n
  BY <1>4, FS_Interval
<1>7. Cardinality(Range(o)) = n
  BY <1>5, <1>6, FS_Bijection DEF ExistsBijection
<1>8. Cardinality(names \ Range(o)) =
        Cardinality(names) - Cardinality(names \cap Range(o))
  BY <1>1, FS_Difference
<1>9. names \cap Range(o) = Range(o)
  BY <1>4
<1>10. Cardinality(names \ Range(o)) = Cardinality(names) - n
  BY <1>7, <1>8, <1>9
<1>11. QED
  BY <1>1, <1>3, <1>4, <1>10 DEF o

------------------------------------------------------------------------------
(* What each run and each file is, and how runs move.                      *)

Run ==
  [at : Places, cand : CandidateNames \cup {<<>>},
   todo : Seq(CandidateNames \cup BackupNames),
   bak : BackupNames \cup {<<>>}, from : Apply \cup {0}]

\* Applies that have taken a number for a candidate, and for a panel's backup.
Begun == {a \in Apply : run[a].at # "idle"}
Numbered ==
  {a \in Apply : run[a].at \notin {"idle", "named", "written", "pruning", "valid"}}

\* Numbers are taken in turn, and never more than two by one apply.
FilesInv ==
  /\ clock \in 0 .. MaxTime /\ stepsBack \in 0 .. MaxStepsBack
  /\ seq \in Nat /\ seq <= Cardinality(Begun) + Cardinality(Numbered)
  /\ installed \in Apply \cup {0} /\ readable \in BOOLEAN /\ keep \in Keeps
  /\ alone \subseteq Apply
  /\ IsFiniteSet(candidates)
  /\ \A c \in candidates : /\ c \in CandidateNames
                           /\ c[1] <= MaxTime /\ c[2] <= seq
  /\ IsFiniteSet(DOMAIN backups)
  /\ \A b \in DOMAIN backups : /\ b \in BackupNames
                               /\ b[2] = 0 => b[4] <= seq
                               /\ backups[b] \in Apply \cup {0}
  /\ run \in [Apply -> Run]
  /\ \A a \in Apply :
       /\ run[a].at # "idle" => /\ run[a].cand \in CandidateNames
                                /\ run[a].cand[1] <= MaxTime
                                /\ run[a].cand[2] <= seq
       /\ run[a].at = "named_backup" => /\ run[a].bak \in BackupNames
                                        /\ run[a].bak[2] # 0

\* An apply that goes on keeps its candidate and its backup.
LEMMA GoesOn ==
  ASSUME run \in [Apply -> Run], NEW a \in Apply, NEW at \in Places,
         NEW todo \in Seq(CandidateNames \cup BackupNames), GoOn(a, at, todo)
  PROVE  /\ run' \in [Apply -> Run]
         /\ run'[a].at = at /\ run'[a].todo = todo
         /\ run'[a].cand = run[a].cand /\ run'[a].bak = run[a].bak
         /\ run'[a].from = run[a].from
         /\ \A c \in Apply : c # a => run'[c] = run[c]
<1> PICK r \in Run : r = run[a]
  OBVIOUS
<1>1. r.cand \in CandidateNames \cup {<<>>} /\ r.bak \in BackupNames \cup {<<>>}
      /\ r.from \in Apply \cup {0}
  BY DEF Run
<1> DEFINE s == [r EXCEPT !.at = at, !.todo = todo]
<1>2. s \in Run /\ s.at = at /\ s.todo = todo /\ s.cand = r.cand
      /\ s.bak = r.bak /\ s.from = r.from
  BY DEF Run
<1>3. run' = [run EXCEPT ![a] = s]
  BY DEF GoOn
<1> HIDE DEF s
<1>4. QED
  BY <1>2, <1>3

\* The second of a time is a number, the first at least from one tick rate on.
LEMMA Seconds ==
  ASSUME NEW t \in Nat
  PROVE  /\ t \div TickRate \in Nat
         /\ t >= TickRate => t \div TickRate >= 1
         /\ \A u \in Nat : t <= u => t \div TickRate <= u \div TickRate
BY FilesAssumption DEF FilesAssumption

\* What the directories hold is ordered, and what pruning lists are names.
LEMMA Directories ==
  ASSUME FilesInv
  PROVE  /\ keep \in Nat
         /\ Ordered(candidates) /\ Ordered(DOMAIN backups)
         /\ Oldest(candidates) \in Seq(CandidateNames \cup BackupNames)
         /\ Oldest(DOMAIN backups) \in Seq(CandidateNames \cup BackupNames)
<1>1. keep \in Nat
  BY FilesAssumption DEF FilesInv, FilesAssumption
<1>2. Ordered(candidates) /\ candidates \subseteq CandidateNames
  BY CandidatesOrdered DEF FilesInv
<1>3. Ordered(DOMAIN backups) /\ DOMAIN backups \subseteq BackupNames
  BY BackupsOrdered DEF FilesInv
<1>4. Oldest(candidates) \in Seq(candidates)
      /\ Oldest(DOMAIN backups) \in Seq(DOMAIN backups)
  BY <1>1, <1>2, <1>3, OldestNames
<1>5. QED
  BY <1>1, <1>2, <1>3, <1>4

\* A step is of one apply, which was not over; only its start takes a candidate's
\* name, and only the script's search for a free one takes a backup's.
RunMoves(a) ==
  /\ run' \in [Apply -> Run]
  /\ \A c \in Apply : c # a => run'[c] = run[c]
  /\ run[a].at \notin Ended /\ run'[a].at \in Places \ {"idle"}
  /\ run[a].at # "idle" => run'[a].cand = run[a].cand /\ alone' = alone
  /\ run[a].at # "naming" => run'[a].bak = run[a].bak
  /\ UNCHANGED <<timeVars, readable, keep>>

LEMMA PanelMoves ==
  ASSUME FilesInv, NEW a \in Apply, PanelStep(a)
  PROVE  RunMoves(a)
<1> USE DEF Is, timeVars, orderVars, dirVars, Ended, Failed, Places
<1>1. run \in [Apply -> Run] /\ clock \in Nat /\ seq \in Nat
  BY FilesAssumption DEF FilesInv, FilesAssumption
<1>2. <<>> \in Seq(CandidateNames \cup BackupNames)
      /\ run[a].todo \in Seq(CandidateNames \cup BackupNames)
      /\ (run[a].todo # <<>> =>
            Tail(run[a].todo) \in Seq(CandidateNames \cup BackupNames))
  <2>1. run[a].todo \in Seq(CandidateNames \cup BackupNames)
    BY <1>1 DEF Run
  <2>2. QED
    BY <2>1
<1>3. CASE NameCandidate(a)
  <2> PICK r \in Run : r = run[a]
    BY <1>1
  <2> DEFINE s == [r EXCEPT !.at = "named", !.cand = <<clock, seq'>>]
  <2>1. <<clock, seq'>> \in CandidateNames
    BY <1>1, <1>3 DEF NameCandidate, CandidateNames
  <2>2. s \in Run /\ s.at = "named" /\ s.bak = r.bak
    BY <2>1 DEF Run
  <2>3. run' = [run EXCEPT ![a] = s]
    BY <1>3 DEF NameCandidate, CandidateName
  <2> HIDE DEF s
  <2>4. QED
    BY <1>1, <1>3, <2>2, <2>3 DEF NameCandidate, RunMoves
<1>4. CASE WriteCandidate(a)
  BY <1>1, <1>2, <1>4, GoesOn DEF WriteCandidate, RunMoves
<1>5. CASE ListCandidates(a)
  BY <1>1, <1>5, GoesOn, Directories DEF ListCandidates, RunMoves
<1>6. CASE PruneCandidate(a)
  BY <1>1, <1>2, <1>6, GoesOn DEF PruneCandidate, RunMoves
<1>7. CASE ValidateCandidate(a)
  <2>1. CASE run[a].cand \in candidates
    BY <1>1, <1>2, <1>7, <2>1, GoesOn DEF ValidateCandidate, RunMoves
  <2>2. CASE run[a].cand \notin candidates
    BY <1>1, <1>2, <1>7, <2>2, GoesOn DEF ValidateCandidate, RunMoves
  <2>3. QED
    BY <2>1, <2>2
<1>8. CASE BackupProfiles(a)
  <2>1. CASE readable
    BY <1>1, <1>2, <1>8, <2>1, GoesOn DEF BackupProfiles, RunMoves
  <2>2. CASE ~readable
    BY <1>1, <1>2, <1>8, <2>2, GoesOn DEF BackupProfiles, RunMoves
  <2>3. QED
    BY <2>1, <2>2
<1>9. CASE ListPanelBackups(a)
  BY <1>1, <1>9, GoesOn, Directories DEF ListPanelBackups, RunMoves
<1>10. CASE PruneBackup(a)
  BY <1>1, <1>2, <1>10, GoesOn DEF PruneBackup, RunMoves
<1>11. QED
  BY <1>3, <1>4, <1>5, <1>6, <1>7, <1>8, <1>9, <1>10 DEF PanelStep

\* A script's backup has the second it was named in, and is not the panel's.
LEMMA ScriptBackupNames ==
  ASSUME clock \in Nat, NEW n \in Nat
  PROVE  /\ ScriptBackup(n) \in BackupNames
         /\ ScriptBackup(n)[1] = clock \div TickRate
         /\ ScriptBackup(n)[2] \in {1, 2}
         /\ ScriptBackup(n)[2] = 2 <=> n = 0
BY Seconds DEF ScriptBackup, Second, BackupNames

LEMMA ScriptMoves ==
  ASSUME FilesInv, NEW a \in Apply, ScriptStep(a)
  PROVE  RunMoves(a)
<1> USE DEF Is, timeVars, orderVars, dirVars, Ended, Failed, Places
<1>1. run \in [Apply -> Run] /\ clock \in Nat /\ installed \in Apply \cup {0}
  BY FilesAssumption DEF FilesInv, FilesAssumption
<1>2. <<>> \in Seq(CandidateNames \cup BackupNames)
      /\ run[a].todo \in Seq(CandidateNames \cup BackupNames)
      /\ (run[a].todo # <<>> =>
            Tail(run[a].todo) \in Seq(CandidateNames \cup BackupNames))
  <2>1. run[a].todo \in Seq(CandidateNames \cup BackupNames)
    BY <1>1 DEF Run
  <2>2. QED
    BY <2>1
<1> PICK r \in Run : r = run[a]
  BY <1>1
<1>3. CASE ReadCandidate(a)
  <2>1. PICK at \in {"naming", "lost"} : GoOn(a, at, <<>>)
    BY <1>3 DEF ReadCandidate
  <2>2. at \in Places \ {"idle"}
    OBVIOUS
  <2>3. QED
    BY <1>1, <1>2, <1>3, <2>1, <2>2, GoesOn DEF ReadCandidate, RunMoves
<1>4. CASE NameBackup(a)
  <2>1. PICK n \in 0 .. Cardinality(DOMAIN backups) : Takes(a, n)
    BY <1>4 DEF NameBackup
  <2>2. n \in Nat
    BY <2>1, FS_CardinalityType DEF FilesInv
  <2> DEFINE b == ScriptBackup(n)
             s == [r EXCEPT !.at = "named_backup", !.bak = b]
  <2>3. b \in BackupNames
    BY <1>1, <2>2, ScriptBackupNames
  <2> HIDE DEF b
  <2>4. s \in Run /\ s.at = "named_backup" /\ s.cand = r.cand
    BY <2>3 DEF Run
  <2>5. run' = [run EXCEPT ![a] = s]
    BY <2>1 DEF Takes, b
  <2> HIDE DEF s
  <2>6. QED
    BY <1>1, <2>1, <2>4, <2>5 DEF Takes, RunMoves
<1>5. CASE CopyBackup(a)
  <2>1. GoOn(a, "saved", <<>>)
    BY <1>5 DEF CopyBackup
  <2>2. QED
    BY <1>1, <1>2, <1>5, <2>1, GoesOn DEF CopyBackup, RunMoves
<1>6. CASE ListBackups(a)
  BY <1>1, <1>6, GoesOn, Directories DEF ListBackups, RunMoves
<1>7. CASE RotateBackup(a)
  BY <1>1, <1>2, <1>7, GoesOn DEF RotateBackup, RunMoves
<1>8. CASE InstallLive(a)
  <2> DEFINE s == [r EXCEPT !.at = "restarting", !.from = installed]
  <2>1. s \in Run /\ s.at = "restarting" /\ s.cand = r.cand /\ s.bak = r.bak
    BY <1>1 DEF Run
  <2>2. run' = [run EXCEPT ![a] = s]
    BY <1>8 DEF InstallLive
  <2> HIDE DEF s
  <2>3. QED
    BY <1>1, <1>8, <2>1, <2>2 DEF InstallLive, RunMoves
<1>9. CASE RestartAccepted(a)
  BY <1>1, <1>2, <1>9, GoesOn DEF RestartAccepted, RunMoves
<1>10. CASE RestartRefused(a)
  <2>1. PICK at \in {"restored", "unrestored"} : GoOn(a, at, <<>>)
    BY <1>10 DEF RestartRefused
  <2>2. at \in Places \ {"idle"}
    OBVIOUS
  <2>3. QED
    BY <1>1, <1>2, <1>10, <2>1, <2>2, GoesOn DEF RestartRefused, RunMoves
<1>11. QED
  BY <1>3, <1>4, <1>5, <1>6, <1>7, <1>8, <1>9, <1>10 DEF ScriptStep

\* From where to where each step of an apply leads, and what it has still to prune.
Goes(a, at, next, todo) ==
  run[a].at = at /\ run'[a].at = next /\ run'[a].todo = todo

PanelGoes(a) ==
  \/ NameCandidate(a) /\ Goes(a, "idle", "named", run[a].todo)
  \/ WriteCandidate(a) /\ Goes(a, "named", "written", <<>>)
  \/ ListCandidates(a) /\ Goes(a, "written", "pruning", Oldest(candidates))
  \/ PruneCandidate(a) /\ Head(run[a].todo) \in candidates
       /\ Goes(a, "pruning", "pruning", Tail(run[a].todo))
  \/ PruneCandidate(a) /\ Head(run[a].todo) \notin candidates
       /\ Goes(a, "pruning", "prune_failed", <<>>)
  \/ ValidateCandidate(a) /\ run[a].cand \in candidates
       /\ Goes(a, "pruning", "valid", <<>>)
  \/ ValidateCandidate(a) /\ run[a].cand \notin candidates
       /\ Goes(a, "pruning", "lost", <<>>)
  \/ BackupProfiles(a) /\ readable /\ Goes(a, "valid", "copied", <<>>)
  \/ BackupProfiles(a) /\ ~readable /\ Goes(a, "valid", "script", <<>>)
  \/ ListPanelBackups(a) /\ Goes(a, "copied", "dropping", Oldest(DOMAIN backups))
  \/ PruneBackup(a) /\ Goes(a, "dropping", "dropping", Tail(run[a].todo))
  \/ PruneBackup(a) /\ Goes(a, "dropping", "script", <<>>)

ScriptGoes(a) ==
  \/ ReadCandidate(a) /\ run[a].cand \in candidates
       /\ Goes(a, "script", "naming", <<>>)
  \/ ReadCandidate(a) /\ run[a].cand \notin candidates
       /\ Goes(a, "script", "lost", <<>>)
  \/ NameBackup(a) /\ Goes(a, "naming", "named_backup", run[a].todo)
  \/ CopyBackup(a) /\ Goes(a, "named_backup", "saved", <<>>)
  \/ ListBackups(a) /\ Goes(a, "saved", "rotating", Oldest(DOMAIN backups))
  \/ RotateBackup(a) /\ run[a].todo # <<>>
       /\ Goes(a, "rotating", "rotating", Tail(run[a].todo))
  \/ InstallLive(a) /\ run[a].todo = <<>>
       /\ Goes(a, "rotating", "restarting", run[a].todo)
  \/ RestartAccepted(a) /\ Goes(a, "restarting", "done", <<>>)
  \/ RestartRefused(a) /\ run[a].bak \in DOMAIN backups
       /\ Goes(a, "restarting", "restored", <<>>)
  \/ RestartRefused(a) /\ run[a].bak \notin DOMAIN backups
       /\ Goes(a, "restarting", "unrestored", <<>>)

LEMMA WhereItGoes ==
  ASSUME FilesInv, NEW a \in Apply, NEW at, NEW todo, GoOn(a, at, todo)
  PROVE  run'[a].at = at /\ run'[a].todo = todo
<1>1. run \in [Apply -> Run]
  BY DEF FilesInv
<1>2. QED
  BY <1>1 DEF GoOn, Run

LEMMA PanelPlaces ==
  ASSUME FilesInv, NEW a \in Apply, PanelStep(a)
  PROVE  PanelGoes(a)
<1> USE DEF Is, Goes, PanelGoes
<1>1. CASE NameCandidate(a)
  <2>1. run \in [Apply -> Run]
    BY DEF FilesInv
  <2>2. run'[a].at = "named" /\ run'[a].todo = run[a].todo
    BY <1>1, <2>1 DEF NameCandidate, Run
  <2>3. QED
    BY <1>1, <2>2 DEF NameCandidate
<1>2. CASE WriteCandidate(a)
  BY <1>2, WhereItGoes DEF WriteCandidate
<1>3. CASE ListCandidates(a)
  BY <1>3, WhereItGoes DEF ListCandidates
<1>4. CASE PruneCandidate(a)
  BY <1>4, WhereItGoes DEF PruneCandidate
<1>5. CASE ValidateCandidate(a)
  <2>1. CASE run[a].cand \in candidates
    BY <1>5, <2>1, WhereItGoes DEF ValidateCandidate
  <2>2. CASE run[a].cand \notin candidates
    BY <1>5, <2>2, WhereItGoes DEF ValidateCandidate
  <2>3. QED
    BY <2>1, <2>2
<1>6. CASE BackupProfiles(a)
  <2>1. CASE readable
    BY <1>6, <2>1, WhereItGoes DEF BackupProfiles
  <2>2. CASE ~readable
    BY <1>6, <2>2, WhereItGoes DEF BackupProfiles
  <2>3. QED
    BY <2>1, <2>2
<1>7. CASE ListPanelBackups(a)
  BY <1>7, WhereItGoes DEF ListPanelBackups
<1>8. CASE PruneBackup(a)
  BY <1>8, WhereItGoes DEF PruneBackup
<1>9. QED
  BY <1>1, <1>2, <1>3, <1>4, <1>5, <1>6, <1>7, <1>8 DEF PanelStep

LEMMA ScriptPlaces ==
  ASSUME FilesInv, NEW a \in Apply, ScriptStep(a)
  PROVE  ScriptGoes(a)
<1> USE DEF Is, Goes, ScriptGoes
<1>1. run \in [Apply -> Run]
  BY DEF FilesInv
<1>2. CASE ReadCandidate(a)
  <2>1. CASE run[a].cand \in candidates
    BY <1>2, <2>1, WhereItGoes DEF ReadCandidate
  <2>2. CASE run[a].cand \notin candidates
    BY <1>2, <2>2, WhereItGoes DEF ReadCandidate
  <2>3. QED
    BY <2>1, <2>2
<1>3. CASE NameBackup(a)
  <2>1. PICK n \in 0 .. Cardinality(DOMAIN backups) : Takes(a, n)
    BY <1>3 DEF NameBackup
  <2>2. run'[a].at = "named_backup" /\ run'[a].todo = run[a].todo
    BY <2>1, <1>1 DEF Takes, Run
  <2>3. QED
    BY <1>3, <2>1, <2>2 DEF Takes
<1>4. CASE CopyBackup(a)
  <2>1. GoOn(a, "saved", <<>>) /\ run[a].at = "named_backup"
    BY <1>4 DEF CopyBackup
  <2>2. QED
    BY <1>4, <2>1, WhereItGoes
<1>5. CASE ListBackups(a)
  BY <1>5, WhereItGoes DEF ListBackups
<1>6. CASE RotateBackup(a)
  BY <1>6, WhereItGoes DEF RotateBackup
<1>7. CASE InstallLive(a)
  <2>1. run'[a].at = "restarting" /\ run'[a].todo = run[a].todo
    BY <1>7, <1>1 DEF InstallLive, Run
  <2>2. QED
    BY <1>7, <2>1 DEF InstallLive
<1>8. CASE RestartAccepted(a)
  BY <1>8, WhereItGoes DEF RestartAccepted
<1>9. CASE RestartRefused(a)
  <2>1. CASE run[a].bak \in DOMAIN backups
    BY <1>9, <2>1, WhereItGoes DEF RestartRefused
  <2>2. CASE run[a].bak \notin DOMAIN backups
    BY <1>9, <2>2, WhereItGoes DEF RestartRefused
  <2>3. QED
    BY <2>1, <2>2
<1>10. QED
  BY <1>2, <1>3, <1>4, <1>5, <1>6, <1>7, <1>8, <1>9 DEF ScriptStep

\* A step takes at most one number, for an apply that had not taken that one.
LEMMA NumbersMove ==
  ASSUME FilesInv, NEW a \in Apply, PanelStep(a) \/ ScriptStep(a), RunMoves(a)
  PROVE  /\ seq' \in Nat /\ seq' >= seq
         /\ seq' <= Cardinality(Begun') + Cardinality(Numbered')
<1> USE DEF Is
<1>1. /\ IsFiniteSet(Apply) /\ seq \in Nat /\ run' \in [Apply -> Run]
      /\ Begun \in SUBSET Apply /\ Numbered \in SUBSET Apply
      /\ Begun' \in SUBSET Apply /\ Numbered' \in SUBSET Apply
      /\ seq <= Cardinality(Begun) + Cardinality(Numbered)
  BY FilesAssumption
     DEF FilesInv, FilesAssumption, RunMoves, Begun, Numbered
<1>2. /\ IsFiniteSet(Begun') /\ IsFiniteSet(Numbered')
      /\ Cardinality(Begun) \in Nat /\ Cardinality(Numbered) \in Nat
      /\ Cardinality(Begun') \in Nat /\ Cardinality(Numbered') \in Nat
  BY <1>1, FS_Subset, FS_CardinalityType
<1>3. Begun \in SUBSET Begun'
  BY DEF RunMoves, Begun
<1>4. Numbered \in SUBSET Numbered'
  <2>1. a \in Numbered => a \in Numbered'
    <3>1. SUFFICES ASSUME run[a].at \notin
                     {"idle", "named", "written", "pruning", "valid"}
                   PROVE  run'[a].at \notin
                     {"idle", "named", "written", "pruning", "valid"}
      BY DEF Numbered
    <3>2. CASE PanelStep(a)
      BY <3>1, <3>2, PanelPlaces DEF PanelGoes, Goes
    <3>3. CASE ScriptStep(a)
      BY <3>1, <3>3, ScriptPlaces DEF ScriptGoes, Goes
    <3>4. QED
      BY <3>2, <3>3
  <2>2. QED
    BY <2>1 DEF RunMoves, Numbered
<1>5. Cardinality(Begun) <= Cardinality(Begun')
      /\ Cardinality(Numbered) <= Cardinality(Numbered')
  BY <1>2, <1>3, <1>4, FS_Subset
<1>6. CASE seq' = seq
  BY <1>1, <1>2, <1>5, <1>6
<1>7. CASE NameCandidate(a)
  <2>1. a \in Begun' /\ a \notin Begun /\ seq' = seq + 1
    BY <1>7 DEF NameCandidate, RunMoves, Begun
  <2>2. Cardinality(Begun) # Cardinality(Begun')
    BY <2>1, <1>2, <1>3, FS_Subset
  <2>3. Cardinality(Begun) + 1 <= Cardinality(Begun')
    BY <1>2, <1>5, <2>2
  <2>4. seq + 1 <= Cardinality(Begun') + Cardinality(Numbered')
    BY <1>1, <1>2, <1>5, <2>3
  <2>5. QED
    BY <1>1, <2>1, <2>4
<1>8. CASE BackupProfiles(a) /\ readable
  <2>1. seq' = seq + 1 /\ run[a].at = "valid"
        /\ run' = [run EXCEPT ![a].at = "copied", ![a].todo = <<>>]
    BY <1>8 DEF BackupProfiles, GoOn
  <2>2. run'[a].at = "copied"
    BY <2>1 DEF FilesInv, Run
  <2>3. a \in Numbered' /\ a \notin Numbered
    BY <2>1, <2>2 DEF Numbered
  <2>4. Cardinality(Numbered) # Cardinality(Numbered')
    BY <2>3, <1>2, <1>4, FS_Subset
  <2>5. QED
    BY <1>1, <1>2, <1>5, <2>1, <2>4
<1>9. QED
  <2>1. seq' = seq \/ NameCandidate(a) \/ (BackupProfiles(a) /\ readable)
    <3>1. CASE PanelStep(a)
      BY <3>1
         DEF PanelStep, WriteCandidate, ListCandidates, PruneCandidate,
             ValidateCandidate, BackupProfiles, ListPanelBackups, PruneBackup,
             orderVars
    <3>2. CASE ScriptStep(a)
      <4>1. CASE NameBackup(a)
        BY <4>1 DEF NameBackup, Takes, orderVars
      <4>2. CASE ~NameBackup(a)
        BY <3>2, <4>2
           DEF ScriptStep, ReadCandidate, CopyBackup, ListBackups,
               RotateBackup, InstallLive, RestartAccepted, RestartRefused,
               orderVars
      <4>3. QED
        BY <4>1, <4>2
    <3>3. QED
      BY <3>1, <3>2
  <2>2. QED
    BY <2>1, <1>6, <1>7, <1>8

\* A step leaves the candidates that were there, less the one it removes, or adds
\* the candidate of its apply.
LEMMA CandidatesMove ==
  ASSUME FilesInv, NEW a \in Apply, PanelStep(a) \/ ScriptStep(a)
  PROVE  \/ candidates' = candidates
         \/ PruneCandidate(a) /\ candidates' = candidates \ {Head(run[a].todo)}
         \/ WriteCandidate(a) /\ candidates' = candidates \cup {run[a].cand}
<1>1. CASE PanelStep(a)
  BY <1>1 DEF PanelStep, NameCandidate, WriteCandidate, ListCandidates,
              PruneCandidate, ValidateCandidate, BackupProfiles,
              ListPanelBackups, PruneBackup, dirVars
<1>2. CASE ScriptStep(a)
  <2>1. CASE NameBackup(a)
    BY <2>1 DEF NameBackup, Takes, dirVars
  <2>2. CASE ~NameBackup(a)
    BY <1>2, <2>2
       DEF ScriptStep, ReadCandidate, CopyBackup, ListBackups, RotateBackup,
           InstallLive, RestartAccepted, RestartRefused, dirVars
  <2>3. QED
    BY <2>1, <2>2
<1>3. QED
  BY <1>1, <1>2

\* The same of the backups.
LEMMA BackupsMove ==
  ASSUME FilesInv, NEW a \in Apply, PanelStep(a) \/ ScriptStep(a)
  PROVE  \/ backups' = backups
         \/ /\ PruneBackup(a) \/ RotateBackup(a)
            /\ run[a].todo # <<>> /\ Drop(Head(run[a].todo))
         \/ /\ BackupProfiles(a) /\ readable /\ seq' = seq + 1
            /\ Backed(PanelBackup(seq + 1))
         \/ CopyBackup(a) /\ Backed(run[a].bak)
<1>1. CASE PanelStep(a)
  <2>1. CASE BackupProfiles(a)
    <3>1. CASE readable
      <4>1. seq' = seq + 1 /\ Backed(PanelBackup(seq'))
        BY <2>1, <3>1 DEF BackupProfiles
      <4>2. Backed(PanelBackup(seq + 1))
        BY <4>1
      <4>3. QED
        BY <2>1, <3>1, <4>1, <4>2
    <3>2. CASE ~readable
      BY <2>1, <3>2 DEF BackupProfiles
    <3>3. QED
      BY <3>1, <3>2
  <2>2. CASE ~BackupProfiles(a)
    BY <1>1, <2>2
       DEF PanelStep, NameCandidate, WriteCandidate, ListCandidates,
           PruneCandidate, ValidateCandidate, ListPanelBackups, PruneBackup,
           dirVars
  <2>3. QED
    BY <2>1, <2>2
<1>2. CASE ScriptStep(a)
  <2>1. CASE NameBackup(a)
    BY <2>1 DEF NameBackup, Takes, dirVars
  <2>2. CASE ~NameBackup(a)
    BY <1>2, <2>2
       DEF ScriptStep, ReadCandidate, CopyBackup, ListBackups, RotateBackup,
           InstallLive, RestartAccepted, RestartRefused, dirVars
  <2>3. QED
    BY <2>1, <2>2
<1>3. QED
  BY <1>1, <1>2

\* What is installed, and whether an apply has overlapped another.
LEMMA InstallsMove ==
  ASSUME FilesInv, NEW a \in Apply, PanelStep(a) \/ ScriptStep(a), RunMoves(a)
  PROVE  /\ \/ installed' = installed
            \/ InstallLive(a) /\ installed' = a
            \/ /\ RestartRefused(a) /\ run[a].bak \in DOMAIN backups
               /\ installed' = backups[run[a].bak]
         /\ \/ alone' = alone
            \/ NameCandidate(a) /\ alone' = alone \ (Working \cup {a})
         /\ run[a].at = "idle" => NameCandidate(a)
<1>1. CASE PanelStep(a)
  BY <1>1 DEF PanelStep, NameCandidate, WriteCandidate, ListCandidates,
              PruneCandidate, ValidateCandidate, BackupProfiles,
              ListPanelBackups, PruneBackup, dirVars, orderVars, Is
<1>2. CASE ScriptStep(a)
  <2>1. CASE NameBackup(a)
    BY <2>1 DEF NameBackup, Takes, dirVars, orderVars, Is
  <2>2. CASE ~NameBackup(a)
    BY <1>2, <2>2
       DEF ScriptStep, ReadCandidate, CopyBackup, ListBackups, RotateBackup,
           InstallLive, RestartAccepted, RestartRefused, dirVars, orderVars, Is
  <2>3. QED
    BY <2>1, <2>2
<1>3. QED
  BY <1>1, <1>2

\* Adding a file to a directory and removing one.
LEMMA Adding ==
  ASSUME FilesInv, NEW b, Backed(b)
  PROVE  /\ DOMAIN backups' = DOMAIN backups \cup {b}
         /\ backups'[b] = installed
         /\ \A x \in DOMAIN backups : x # b => backups'[x] = backups[x]
BY DEF Backed

LEMMA Dropping ==
  ASSUME FilesInv, NEW b, Drop(b)
  PROVE  /\ DOMAIN backups' = DOMAIN backups \ {b}
         /\ \A x \in DOMAIN backups \ {b} : backups'[x] = backups[x]
BY DEF Drop

\* What a step of an apply leaves of its run, and of the files, is of their kind.
LEMMA StepKeepsFiles ==
  ASSUME FilesInv, NEW a \in Apply, PanelStep(a) \/ ScriptStep(a), RunMoves(a)
  PROVE  FilesInv'
<1>1. /\ clock \in 0 .. MaxTime /\ seq \in Nat /\ run \in [Apply -> Run]
      /\ clock \in Nat /\ clock <= MaxTime /\ clock' = clock
      /\ installed \in Apply \cup {0} /\ MaxTime \in Nat
  BY FilesAssumption DEF FilesInv, FilesAssumption, RunMoves, timeVars
<1>2. /\ seq' \in Nat /\ seq' >= seq
      /\ seq' <= Cardinality(Begun') + Cardinality(Numbered')
  BY NumbersMove
<1>3. \A c \in candidates : /\ c \in CandidateNames
                            /\ c[1] <= MaxTime /\ c[2] <= seq'
  <2>1. \A c \in CandidateNames : c[2] \in Nat
    BY DEF CandidateNames
  <2>2. QED
    BY <2>1, <1>1, <1>2 DEF FilesInv
<1>4. /\ IsFiniteSet(candidates')
      /\ \A c \in candidates' : /\ c \in CandidateNames
                                /\ c[1] <= MaxTime /\ c[2] <= seq'
  <2>1. CASE candidates' = candidates
    BY <2>1, <1>3 DEF FilesInv
  <2>2. CASE candidates' = candidates \ {Head(run[a].todo)}
    BY <2>2, <1>3, FS_RemoveElement DEF FilesInv
  <2>3. CASE WriteCandidate(a) /\ candidates' = candidates \cup {run[a].cand}
    <3>1. run[a].cand \in CandidateNames /\ run[a].cand[1] <= MaxTime
          /\ run[a].cand[2] <= seq
      BY <2>3 DEF WriteCandidate, Is, FilesInv
    <3>2. run[a].cand[2] \in Nat
      BY <3>1 DEF CandidateNames
    <3>3. run[a].cand[2] <= seq'
      BY <3>1, <3>2, <1>1, <1>2
    <3>4. QED
      BY <2>3, <3>1, <3>3, <1>3, FS_AddElement DEF FilesInv
  <2>4. QED
    BY <2>1, <2>2, <2>3, CandidatesMove
<1>5. \A b \in DOMAIN backups : /\ b \in BackupNames
                                /\ b[2] = 0 => b[4] <= seq'
                                /\ backups[b] \in Apply \cup {0}
  <2>1. \A b \in BackupNames : b[4] \in Nat
    BY DEF BackupNames
  <2>2. QED
    BY <2>1, <1>1, <1>2 DEF FilesInv
<1>6. /\ IsFiniteSet(DOMAIN backups')
      /\ \A b \in DOMAIN backups' : /\ b \in BackupNames
                                    /\ b[2] = 0 => b[4] <= seq'
                                    /\ backups'[b] \in Apply \cup {0}
  <2>1. IsFiniteSet(DOMAIN backups)
    BY DEF FilesInv
  <2>2. CASE backups' = backups
    BY <2>1, <2>2, <1>5
  <2>3. CASE Drop(Head(run[a].todo))
    <3> DEFINE h == Head(run[a].todo)
    <3>1. /\ DOMAIN backups' = DOMAIN backups \ {h}
          /\ \A x \in DOMAIN backups \ {h} : backups'[x] = backups[x]
      BY <2>3, Dropping
    <3> HIDE DEF h
    <3>2. QED
      BY <2>1, <3>1, <1>5, FS_RemoveElement
  <2>4. CASE seq' = seq + 1 /\ Backed(PanelBackup(seq + 1))
    <3> DEFINE b == PanelBackup(seq + 1)
    <3>1. b \in BackupNames /\ b[4] = seq'
      BY <2>4, <1>1, Seconds DEF BackupNames, PanelBackup, Second
    <3>2. /\ DOMAIN backups' = DOMAIN backups \cup {b} /\ backups'[b] = installed
          /\ \A x \in DOMAIN backups : x # b => backups'[x] = backups[x]
      BY <2>4, Adding
    <3> HIDE DEF b
    <3>3. QED
      BY <2>1, <3>1, <3>2, <1>1, <1>2, <1>5, FS_AddElement
  <2>5. CASE CopyBackup(a) /\ Backed(run[a].bak)
    <3> DEFINE b == run[a].bak
    <3>1. b \in BackupNames /\ b[2] # 0
      BY <2>5 DEF CopyBackup, Is, FilesInv
    <3>2. /\ DOMAIN backups' = DOMAIN backups \cup {b} /\ backups'[b] = installed
          /\ \A x \in DOMAIN backups : x # b => backups'[x] = backups[x]
      BY <2>5, Adding
    <3> HIDE DEF b
    <3>3. QED
      BY <2>1, <3>1, <3>2, <1>1, <1>5, FS_AddElement
  <2>6. QED
    BY <2>2, <2>3, <2>4, <2>5, BackupsMove
<1>7. installed' \in Apply \cup {0} /\ alone' \subseteq Apply
  BY <1>1, InstallsMove DEF FilesInv
<1>8. ASSUME NEW c \in Apply
      PROVE  /\ run'[c].at # "idle" => /\ run'[c].cand \in CandidateNames
                                       /\ run'[c].cand[1] <= MaxTime
                                       /\ run'[c].cand[2] <= seq'
             /\ run'[c].at = "named_backup" => /\ run'[c].bak \in BackupNames
                                               /\ run'[c].bak[2] # 0
  <2>1. ASSUME run[c].at # "idle"
        PROVE  /\ run[c].cand \in CandidateNames
               /\ run[c].cand[1] <= MaxTime /\ run[c].cand[2] <= seq'
    <3>1. /\ run[c].cand \in CandidateNames /\ run[c].cand[1] <= MaxTime
          /\ run[c].cand[2] <= seq
      BY <2>1 DEF FilesInv
    <3>2. run[c].cand[2] \in Nat
      BY <3>1 DEF CandidateNames
    <3>3. QED
      BY <3>1, <3>2, <1>1, <1>2
  <2>2. CASE c # a
    <3>1. run'[c] = run[c]
      BY <2>2 DEF RunMoves
    <3>2. QED
      BY <2>1, <3>1 DEF FilesInv
  <2>3. CASE c = a /\ NameCandidate(a)
    <3>1. run'[a].cand = <<clock, seq'>> /\ run'[a].at = "named"
      BY <2>3, <1>1 DEF NameCandidate, CandidateName, Run
    <3>2. <<clock, seq'>> \in CandidateNames
      BY <1>1, <1>2 DEF CandidateNames
    <3>3. QED
      BY <2>3, <3>1, <3>2, <1>1, <1>2
  <2>4. CASE c = a /\ NameBackup(a)
    <3>1. PICK n \in 0 .. Cardinality(DOMAIN backups) : Takes(a, n)
      BY <2>4 DEF NameBackup
    <3>2. n \in Nat
      BY <3>1, FS_CardinalityType DEF FilesInv
    <3>3. run'[a].bak = ScriptBackup(n)
      BY <3>1, <1>1 DEF Takes, Run
    <3>4. run[a].at = "naming"
      BY <3>1 DEF Takes, Is
    <3>5. run'[a].cand = run[a].cand
      BY <3>4 DEF RunMoves
    <3>6. QED
      BY <2>1, <2>4, <3>2, <3>3, <3>4, <3>5, <1>1, ScriptBackupNames
  <2>5. CASE c = a /\ ~NameCandidate(a) /\ ~NameBackup(a)
    <3>1. run[a].at # "idle" /\ run'[a].cand = run[a].cand
      BY <2>5, InstallsMove DEF RunMoves
    <3>2. run'[a].at # "named_backup"
      <4>1. CASE PanelStep(a)
        BY <4>1, PanelPlaces DEF PanelGoes, Goes
      <4>2. CASE ScriptStep(a)
        BY <4>2, <2>5, ScriptPlaces DEF ScriptGoes, Goes
      <4>3. QED
        BY <4>1, <4>2
    <3>3. QED
      BY <2>1, <2>5, <3>1, <3>2
  <2>6. QED
    BY <2>2, <2>3, <2>4, <2>5
<1>9. QED
  BY <1>2, <1>4, <1>6, <1>7, <1>8 DEF FilesInv, RunMoves, timeVars

\* The clock alone moves nothing else.
LEMMA ClockMoves ==
  ASSUME FilesInv, ClockTicks \/ ClockSetBack
  PROVE  /\ FilesInv'
         /\ UNCHANGED <<orderVars, dirVars, run>>
         /\ clock \in Nat /\ clock' \in Nat
         /\ clock' < clock => stepsBack' = stepsBack + 1 /\ stepsBack \in Nat
         /\ clock' >= clock => stepsBack' = stepsBack
<1>1. clock \in 0 .. MaxTime /\ stepsBack \in 0 .. MaxStepsBack
      /\ MaxTime \in Nat /\ MaxStepsBack \in Nat
  BY FilesAssumption DEF FilesInv, FilesAssumption
<1>2. UNCHANGED <<orderVars, dirVars, run>>
  BY DEF ClockTicks, ClockSetBack
<1>3. clock' \in 0 .. MaxTime /\ stepsBack' \in 0 .. MaxStepsBack
  BY <1>1 DEF ClockTicks, ClockSetBack
<1>4. Begun' = Begun /\ Numbered' = Numbered
  BY <1>2 DEF Begun, Numbered
<1>5. FilesInv'
  BY <1>2, <1>3, <1>4 DEF FilesInv, orderVars, dirVars
<1>6. QED
  BY <1>1, <1>2, <1>3, <1>5 DEF ClockTicks, ClockSetBack

LEMMA FilesBegin ==
  ASSUME FilesInit
  PROVE  FilesInv
<1>1. /\ IsFiniteSet(Apply) /\ TickRate \in Nat \ {0}
      /\ MaxTime \in Nat /\ TickRate <= MaxTime
      /\ MaxStepsBack \in Nat
  BY FilesAssumption DEF FilesAssumption
<1>2. <<0, 0>> \in CandidateNames /\ <<0, 2, 0, 0>> \in BackupNames
  BY DEF CandidateNames, BackupNames
<1>3. IsFiniteSet(candidates)
      /\ \A c \in candidates : /\ c \in CandidateNames
                               /\ c[1] <= MaxTime /\ c[2] <= seq
  <2> DEFINE c0 == <<0, 0>>
  <2>1. c0 \in CandidateNames /\ c0[1] <= MaxTime /\ c0[2] <= seq
    BY <1>1, <1>2 DEF FilesInit
  <2>2. candidates = {} \/ candidates = {c0}
    BY DEF FilesInit
  <2> HIDE DEF c0
  <2>3. QED
    BY <2>1, <2>2, FS_EmptySet, FS_Singleton
<1>4. IsFiniteSet(DOMAIN backups)
      /\ \A b \in DOMAIN backups : /\ b \in BackupNames
                                   /\ b[2] = 0 => b[4] <= seq
                                   /\ backups[b] \in Apply \cup {0}
  <2>1. CASE backups = <<>>
    <3>1. DOMAIN backups = {}
      BY <2>1
    <3>2. QED
      BY <3>1, FS_EmptySet
  <2>2. CASE backups = [b \in {<<0, 2, 0, 0>>} |-> 0]
    <3> DEFINE b0 == <<0, 2, 0, 0>>
    <3>1. b0 \in BackupNames /\ b0[2] = 2
      BY <1>2
    <3>2. backups = [b \in {b0} |-> 0]
      BY <2>2
    <3> HIDE DEF b0
    <3>3. DOMAIN backups = {b0} /\ backups[b0] = 0
      BY <3>2
    <3>4. IsFiniteSet(DOMAIN backups)
      BY <3>3, FS_Singleton
    <3>5. \A b \in DOMAIN backups : b = b0
      BY <3>3
    <3>6. QED
      BY <3>1, <3>3, <3>4, <3>5
  <2>3. QED
    BY <2>1, <2>2 DEF FilesInit
<1>5. NotBegun \in Run /\ NotBegun.at = "idle"
  <2>1. <<>> \in Seq(CandidateNames \cup BackupNames)
    OBVIOUS
  <2>2. QED
    BY <2>1 DEF Run, NotBegun, Places
<1>6. run \in [Apply -> Run] /\ \A a \in Apply : run[a].at = "idle"
  BY <1>5 DEF FilesInit
<1>7. Begun = {} /\ Numbered = {}
  BY <1>6 DEF Begun, Numbered
<1>8. seq \in Nat /\ seq <= Cardinality(Begun) + Cardinality(Numbered)
  <2>1. Cardinality(Begun) = 0 /\ Cardinality(Numbered) = 0
    BY <1>7, FS_EmptySet
  <2>2. QED
    BY <2>1 DEF FilesInit
<1>9. /\ clock \in 0 .. MaxTime /\ stepsBack \in 0 .. MaxStepsBack
      /\ installed \in Apply \cup {0} /\ readable \in BOOLEAN /\ keep \in Keeps
      /\ alone \subseteq Apply
  BY <1>1 DEF FilesInit
<1>10. QED
  BY <1>3, <1>4, <1>6, <1>8, <1>9 DEF FilesInv

------------------------------------------------------------------------------
(* Theorems.                                                               *)

\* FilesInv is an inductive invariant of the applies and the clock.
THEOREM FilesInvariant ==
  FilesSpec => []FilesInv
<1>1. FilesInit => FilesInv
  BY FilesBegin
<1>2. FilesInv /\ [FilesNext]_filesVars => FilesInv'
  <2> SUFFICES ASSUME FilesInv, [FilesNext]_filesVars
               PROVE  FilesInv'
    OBVIOUS
  <2>1. ASSUME NEW a \in Apply, PanelStep(a) \/ ScriptStep(a)
        PROVE  FilesInv'
    BY <2>1, PanelMoves, ScriptMoves, StepKeepsFiles
  <2>2. CASE ClockTicks \/ ClockSetBack
    BY <2>2, ClockMoves
  <2>3. CASE UNCHANGED filesVars
    <3>1. UNCHANGED <<timeVars, orderVars, dirVars, run>>
      BY <2>3 DEF filesVars
    <3>2. Begun' = Begun /\ Numbered' = Numbered
      BY <3>1 DEF Begun, Numbered
    <3>3. QED
      BY <3>1, <3>2 DEF FilesInv, timeVars, orderVars, dirVars
  <2>4. QED
    BY <2>1, <2>2, <2>3 DEF FilesNext
<1>3. QED
  BY <1>1, <1>2, PTL DEF FilesSpec

\* Applies stay on the code of the applier and the script, however they overlap, and
\* take at most two numbers each.
THEOREM FilesTypes ==
  FilesSpec => []FilesTypeOK
<1>1. FilesInv => FilesTypeOK
  <2> SUFFICES ASSUME FilesInv
               PROVE  FilesTypeOK
    OBVIOUS
  <2>1. IsFiniteSet(Apply) /\ Begun \in SUBSET Apply /\ Numbered \in SUBSET Apply
    BY FilesAssumption DEF FilesAssumption, Begun, Numbered
  <2>2. Cardinality(Begun) <= Cardinality(Apply)
        /\ Cardinality(Numbered) <= Cardinality(Apply)
    BY <2>1, FS_Subset
  <2>3. /\ Cardinality(Apply) \in Nat /\ Cardinality(Begun) \in Nat
        /\ Cardinality(Numbered) \in Nat
    BY <2>1, FS_Subset, FS_CardinalityType
  <2>4. seq \in 0 .. 2 * Cardinality(Apply)
    BY <2>2, <2>3 DEF FilesInv
  <2>5. \A c \in candidates : c[1] \in 0 .. MaxTime /\ c[2] \in 0 .. seq
    <3>1. \A c \in CandidateNames : c[1] \in Nat /\ c[2] \in Nat
      BY DEF CandidateNames
    <3>2. MaxTime \in Nat
      BY FilesAssumption DEF FilesAssumption
    <3>3. QED
      BY <3>1, <3>2, <2>4 DEF FilesInv
  <2>6. \A a \in Apply : run[a].at \in Places
    BY DEF FilesInv, Run
  <2>7. QED
    BY <2>4, <2>5, <2>6 DEF FilesInv, FilesTypeOK
<1>2. QED
  BY <1>1, FilesInvariant, PTL

------------------------------------------------------------------------------
(* A run that overlaps no other has the directories to itself.             *)

\* An apply that is alone and under way is the only one, and the name it found
\* free stays free until it copies to it.
AloneInv ==
  /\ \A a \in alone : a \in Working => Working = {a}
  /\ \A a \in alone : run[a].at = "named_backup" => run[a].bak \notin DOMAIN backups

\* While one apply makes a step, those that are alone have not begun or are over.
LEMMA OthersRest ==
  ASSUME FilesInv, AloneInv, NEW a \in Apply, PanelStep(a) \/ ScriptStep(a),
         RunMoves(a), NEW c \in alone', c # a
  PROVE  /\ c \in alone /\ c \in Apply /\ run'[c] = run[c]
         /\ run[c].at \in Ended \cup {"idle"} /\ c \notin Working
<1>1. alone' \subseteq alone /\ alone \subseteq Apply
  BY InstallsMove DEF FilesInv
<1>2. run'[c] = run[c]
  BY <1>1 DEF RunMoves
<1>3. c \notin Working
  <2> SUFFICES ASSUME c \in Working
               PROVE  FALSE
    OBVIOUS
  <2>1. Working = {c}
    BY <1>1 DEF AloneInv
  <2>2. a \notin Working
    BY <2>1
  <2>3. run[a].at = "idle"
    BY <2>2 DEF Working, RunMoves
  <2>4. NameCandidate(a)
    BY <2>3, InstallsMove
  <2>5. alone' = alone \ (Working \cup {a})
    BY <2>1, <2>4 DEF NameCandidate
  <2>6. QED
    BY <2>1, <2>5
<1>4. QED
  BY <1>1, <1>2, <1>3 DEF Working

LEMMA StepKeepsAlone ==
  ASSUME FilesInv, AloneInv, NEW a \in Apply, PanelStep(a) \/ ScriptStep(a),
         RunMoves(a)
  PROVE  AloneInv'
<1>1. run \in [Apply -> Run] /\ clock \in Nat
  BY FilesAssumption DEF FilesInv, FilesAssumption
<1>2. ASSUME NEW c \in alone', run'[c].at \notin Ended \cup {"idle"}
      PROVE  c = a
  BY <1>2, OthersRest
<1>3. ASSUME NEW c \in alone', c \in Working'
      PROVE  Working' = {c}
  <2>1. c = a /\ a \in alone
    BY <1>2, <1>3, InstallsMove DEF Working
  <2>2. Working \subseteq {a}
    <3>1. CASE a \in Working
      BY <2>1, <3>1 DEF AloneInv
    <3>2. CASE a \notin Working
      <4>1. run[a].at = "idle"
        BY <3>2 DEF Working, RunMoves
      <4>2. NameCandidate(a)
        BY <4>1, InstallsMove
      <4>3. Working = {}
        BY <4>2, <1>3, <2>1 DEF NameCandidate
      <4>4. QED
        BY <4>3
    <3>3. QED
      BY <3>1, <3>2
  <2>3. \A d \in Apply : d # a => d \notin Working'
    BY <2>2 DEF Working, RunMoves
  <2>4. QED
    BY <1>3, <2>1, <2>3 DEF Working
<1>4. ASSUME NEW c \in alone', run'[c].at = "named_backup"
      PROVE  run'[c].bak \notin DOMAIN backups'
  <2>1. c = a
    BY <1>2, <1>4 DEF Ended, Failed
  <2>2. NameBackup(a)
    BY <1>4, <2>1, PanelPlaces, ScriptPlaces
       DEF PanelGoes, ScriptGoes, Goes
  <2>3. PICK n \in 0 .. Cardinality(DOMAIN backups) :
          ScriptBackup(n) \notin DOMAIN backups /\ Takes(a, n)
    BY <2>2 DEF NameBackup
  <2>4. run'[a].bak = ScriptBackup(n) /\ backups' = backups
    BY <2>3, <1>1 DEF Takes, Run, dirVars
  <2>5. QED
    BY <2>1, <2>3, <2>4
<1>5. QED
  BY <1>3, <1>4 DEF AloneInv

LEMMA AloneAtRest ==
  ASSUME AloneInv, UNCHANGED <<orderVars, dirVars, run>>
  PROVE  AloneInv'
<1>1. Working' = Working
  BY DEF Working
<1>2. QED
  BY <1>1 DEF AloneInv, orderVars, dirVars

\* AloneInv holds with FilesInv in every behaviour.
THEOREM AloneInvariant ==
  FilesSpec => []AloneInv
<1>1. FilesInit => AloneInv
  <2> SUFFICES ASSUME FilesInit
               PROVE  AloneInv
    OBVIOUS
  <2>1. \A a \in Apply : run[a].at = "idle"
    BY DEF FilesInit, NotBegun
  <2>2. alone = Apply
    BY DEF FilesInit
  <2>3. QED
    BY <2>1, <2>2 DEF AloneInv, Working
<1>2. FilesInv /\ AloneInv /\ [FilesNext]_filesVars => AloneInv'
  <2> SUFFICES ASSUME FilesInv, AloneInv, [FilesNext]_filesVars
               PROVE  AloneInv'
    OBVIOUS
  <2>1. ASSUME NEW a \in Apply, PanelStep(a) \/ ScriptStep(a)
        PROVE  AloneInv'
    BY <2>1, PanelMoves, ScriptMoves, StepKeepsAlone
  <2>2. CASE ClockTicks \/ ClockSetBack
    BY <2>2, ClockMoves, AloneAtRest
  <2>3. CASE UNCHANGED filesVars
    BY <2>3, AloneAtRest DEF filesVars
  <2>4. QED
    BY <2>1, <2>2, <2>3 DEF FilesNext
<1>3. QED
  BY <1>1, <1>2, FilesInvariant, PTL DEF FilesSpec

\* A backup keeps its content unless two runs took one name in one second: the
\* panel's numbers are never given twice, and a name an undisturbed run found free
\* is free when it copies to it.
THEOREM BackupsKept ==
  FilesSpec => BackupsKeepContent
<1> DEFINE Kept == \A b \in DOMAIN backups \cap DOMAIN backups' :
                     backups'[b] # backups[b] =>
                       \E a \in Apply \ alone : run[a].bak = b
<1>1. FilesInv /\ AloneInv /\ [FilesNext]_filesVars => [Kept]_filesVars
  <2> SUFFICES ASSUME FilesInv, AloneInv, FilesNext,
                      NEW b \in DOMAIN backups \cap DOMAIN backups',
                      backups'[b] # backups[b]
               PROVE  \E a \in Apply \ alone : run[a].bak = b
    OBVIOUS
  <2>1. ~(ClockTicks \/ ClockSetBack)
    BY ClockMoves DEF dirVars
  <2>2. PICK a \in Apply : PanelStep(a) \/ ScriptStep(a)
    BY <2>1 DEF FilesNext
  <2>3. CASE Drop(Head(run[a].todo))
    BY <2>3, Dropping
  <2>4. CASE Backed(PanelBackup(seq + 1))
    <3>1. b = PanelBackup(seq + 1)
      BY <2>4, Adding
    <3>2. b[2] = 0 /\ b[4] = seq + 1 /\ seq \in Nat
      BY <3>1 DEF PanelBackup, FilesInv
    <3>3. QED
      BY <3>2 DEF FilesInv
  <2>5. CASE CopyBackup(a) /\ Backed(run[a].bak)
    <3>1. b = run[a].bak /\ run[a].at = "named_backup"
      BY <2>5, Adding DEF CopyBackup, Is
    <3>2. a \notin alone
      BY <3>1 DEF AloneInv
    <3>3. QED
      BY <3>1, <3>2
  <2>6. QED
    BY <2>2, <2>3, <2>4, <2>5, BackupsMove
<1>2. QED
  BY <1>1, FilesInvariant, AloneInvariant, PTL DEF FilesSpec, BackupsKeepContent

------------------------------------------------------------------------------
(* What the rotation leaves.                                               *)

\* An apply that may still add a backup or has yet to rotate; one that lost its
\* candidate never will.
Owes(a) ==
  run[a].at \in {"copied", "dropping", "script", "naming", "named_backup", "saved",
                 "lost"}

\* The backups that no rotation under way is about to remove.
Left ==
  {b \in DOMAIN backups :
     \A c \in Apply : run[c].at = "rotating" => b \notin Range(run[c].todo)}

\* If none owes a rotation, what those under way leave is few enough.
BoundedInv ==
  keep > 0 => (\E a \in Apply : Owes(a)) \/ Cardinality(Left) <= keep

LEMMA HeadOrTail ==
  ASSUME NEW S, NEW s \in Seq(S), s # <<>>, NEW x \in Range(s)
  PROVE  x = Head(s) \/ x \in Range(Tail(s))
<1>1. PICK i \in 1 .. Len(s) : x = s[i]
  BY DEF Range
<1>2. CASE i = 1
  BY <1>1, <1>2
<1>3. CASE i # 1
  <2> DEFINE t == Tail(s)
  <2>1. i - 1 \in 1 .. Len(t) /\ t[i - 1] = s[i] /\ t \in Seq(S)
    BY <1>1, <1>3
  <2> HIDE DEF t
  <2>2. i - 1 \in DOMAIN t
    BY <2>1
  <2>3. x \in Range(t)
    BY <2>1, <2>2, <1>1 DEF Range
  <2>4. QED
    BY <2>3 DEF t
<1>4. QED
  BY <1>2, <1>3

LEMMA StepKeepsBounded ==
  ASSUME FilesInv, BoundedInv, NEW a \in Apply, PanelStep(a) \/ ScriptStep(a),
         RunMoves(a)
  PROVE  BoundedInv'
<1> SUFFICES ASSUME keep > 0, \A c \in Apply : ~Owes(c)'
             PROVE  Cardinality(Left') <= keep
  BY DEF BoundedInv, RunMoves
<1>1. \A c \in Apply : c # a => ~Owes(c)
  BY DEF RunMoves, Owes
<1>2. /\ keep \in Nat \ {0} /\ Ordered(DOMAIN backups)
      /\ IsFiniteSet(DOMAIN backups) /\ run \in [Apply -> Run]
  BY Directories DEF FilesInv
<1>3. run[a].todo \in Seq(CandidateNames \cup BackupNames)
  BY <1>2 DEF Run
<1>4. CASE ListBackups(a)
  <2>1. DOMAIN backups' = DOMAIN backups /\ run'[a].at = "rotating"
        /\ run'[a].todo = Oldest(DOMAIN backups)
    BY <1>4, WhereItGoes DEF ListBackups, dirVars
  <2>2. Left' \in SUBSET (DOMAIN backups \ Range(Oldest(DOMAIN backups)))
    BY <2>1 DEF Left
  <2>3. IsFiniteSet(DOMAIN backups \ Range(Oldest(DOMAIN backups)))
    BY <1>2, FS_Difference
  <2>4. Cardinality(Left') <=
          Cardinality(DOMAIN backups \ Range(Oldest(DOMAIN backups)))
    BY <2>2, <2>3, FS_Subset
  <2>5. Cardinality(DOMAIN backups \ Range(Oldest(DOMAIN backups))) <= keep
    BY <1>2, OldestLeaveKeep
  <2>6. Cardinality(Left') \in Nat
        /\ Cardinality(DOMAIN backups \ Range(Oldest(DOMAIN backups))) \in Nat
    BY <2>2, <2>3, FS_Subset, FS_CardinalityType
  <2>7. QED
    BY <2>4, <2>5, <2>6, <1>2
<1>5. CASE ~ListBackups(a)
  <2>1. ~Owes(a)'
    OBVIOUS
  <2>2. /\ ~Owes(a)
        /\ \/ backups' = backups /\ run'[a].at # "rotating"
                /\ run[a].at # "rotating"
           \/ backups' = backups /\ run[a].at = "rotating" /\ run[a].todo = <<>>
           \/ /\ Drop(Head(run[a].todo)) /\ run[a].todo # <<>>
              /\ Goes(a, "rotating", "rotating", Tail(run[a].todo))
    <3>1. CASE PanelStep(a)
      <4>1. /\ ~Owes(a) /\ run'[a].at # "rotating" /\ run[a].at # "rotating"
            /\ run[a].at # "valid" /\ run[a].at # "dropping"
        BY <2>1, <3>1, PanelPlaces DEF PanelGoes, Goes, Owes
      <4>2. ~BackupProfiles(a) /\ ~PruneBackup(a) /\ ~CopyBackup(a)
            /\ ~RotateBackup(a)
        BY <4>1 DEF BackupProfiles, PruneBackup, CopyBackup, RotateBackup, Is,
                    Owes
      <4>3. QED
        BY <4>1, <4>2, BackupsMove
    <3>2. CASE ScriptStep(a)
      <4>1. CASE RotateBackup(a)
        <5>1. run[a].at = "rotating" /\ run[a].todo # <<>>
              /\ Drop(Head(run[a].todo)) /\ GoOn(a, "rotating", Tail(run[a].todo))
          BY <4>1 DEF RotateBackup, Is
        <5>2. Goes(a, "rotating", "rotating", Tail(run[a].todo))
          BY <5>1, WhereItGoes DEF Goes
        <5>3. QED
          BY <5>1, <5>2 DEF Owes
      <4>2. CASE ~RotateBackup(a)
        <5>1. /\ ~Owes(a)
              /\ \/ InstallLive(a) /\ run[a].at = "rotating" /\ run[a].todo = <<>>
                 \/ run'[a].at # "rotating" /\ run[a].at # "rotating"
          BY <2>1, <3>2, <4>2, <1>5, ScriptPlaces DEF ScriptGoes, Goes, Owes
        <5>2. backups' = backups
          <6>1. ~PruneBackup(a) /\ ~BackupProfiles(a)
            <7>1. run[a].at \in {"script", "naming", "named_backup", "saved",
                                 "rotating", "restarting"}
              BY <3>2, ScriptPlaces DEF ScriptGoes, Goes
            <7>2. QED
              BY <7>1 DEF PruneBackup, BackupProfiles, Is
          <6>2. ~CopyBackup(a)
            BY <5>1 DEF CopyBackup, Is, Owes
          <6>3. QED
            BY <6>1, <6>2, <4>2, BackupsMove
        <5>3. QED
          BY <5>1, <5>2
      <4>3. QED
        BY <4>1, <4>2
    <3>3. QED
      BY <3>1, <3>2
  <2>3. Left' \in SUBSET Left
    <3> SUFFICES ASSUME NEW b \in Left'
                 PROVE  b \in Left
      OBVIOUS
    <3>1. b \in DOMAIN backups'
          /\ \A c \in Apply : run'[c].at = "rotating" => b \notin Range(run'[c].todo)
      BY DEF Left
    <3>2. ASSUME NEW c \in Apply, c # a, run[c].at = "rotating"
          PROVE  b \notin Range(run[c].todo)
      BY <3>1, <3>2 DEF RunMoves
    <3>3. CASE backups' = backups /\ run[a].at # "rotating"
      BY <3>1, <3>2, <3>3 DEF Left
    <3>4. CASE backups' = backups /\ run[a].at = "rotating" /\ run[a].todo = <<>>
      <4>1. b \notin Range(run[a].todo)
        BY <3>4 DEF Range
      <4>2. QED
        BY <3>1, <3>2, <3>4, <4>1 DEF Left
    <3>5. CASE /\ Drop(Head(run[a].todo)) /\ run[a].todo # <<>>
               /\ Goes(a, "rotating", "rotating", Tail(run[a].todo))
      <4>1. b \in DOMAIN backups /\ b # Head(run[a].todo)
        BY <3>1, <3>5, Dropping
      <4>2. b \notin Range(Tail(run[a].todo))
        BY <3>1, <3>5 DEF Goes
      <4>3. b \notin Range(run[a].todo)
        BY <4>1, <4>2, <1>3, <3>5, HeadOrTail
      <4>4. QED
        BY <4>1, <4>3, <3>2 DEF Left
    <3>6. QED
      BY <2>2, <3>3, <3>4, <3>5
  <2>4. Left \in SUBSET DOMAIN backups
    BY DEF Left
  <2>5. IsFiniteSet(Left) /\ Cardinality(Left) \in Nat
    BY <2>4, <1>2, FS_Subset, FS_CardinalityType
  <2>6. Cardinality(Left) <= keep
    BY <2>2, <1>1 DEF BoundedInv
  <2>7. Cardinality(Left') <= Cardinality(Left) /\ Cardinality(Left') \in Nat
    BY <2>3, <2>5, FS_Subset, FS_CardinalityType
  <2>8. QED
    BY <2>5, <2>6, <2>7, <1>2
<1>6. QED
  BY <1>4, <1>5

\* However applies overlap, and wherever pruning fails: once none is between its
\* backup and its install, the rotations have left at most BACKUP_KEEP backups.
THEOREM RotationBounds ==
  FilesSpec => []BackupsBounded
<1>1. FilesInit => BoundedInv
  <2> SUFFICES ASSUME FilesInit, keep > 0
               PROVE  Cardinality(Left) <= keep
    BY DEF BoundedInv
  <2>1. keep \in Nat
    BY FilesAssumption DEF FilesInit, FilesAssumption
  <2>2. Left \in SUBSET DOMAIN backups
    BY DEF Left
  <2> DEFINE b0 == <<0, 2, 0, 0>>
  <2>3. backups = <<>> \/ backups = [b \in {b0} |-> 0]
    BY DEF FilesInit
  <2> HIDE DEF b0
  <2>4. DOMAIN backups \in SUBSET {b0}
    BY <2>3
  <2>5. IsFiniteSet({b0}) /\ Cardinality({b0}) = 1
    BY FS_Singleton
  <2>6. Cardinality(Left) <= 1 /\ IsFiniteSet(Left)
    BY <2>2, <2>4, <2>5, FS_Subset
  <2>7. QED
    BY <2>1, <2>6, FS_CardinalityType
<1>2. FilesInv /\ BoundedInv /\ [FilesNext]_filesVars => BoundedInv'
  <2> SUFFICES ASSUME FilesInv, BoundedInv, [FilesNext]_filesVars
               PROVE  BoundedInv'
    OBVIOUS
  <2>1. ASSUME NEW a \in Apply, PanelStep(a) \/ ScriptStep(a)
        PROVE  BoundedInv'
    BY <2>1, PanelMoves, ScriptMoves, StepKeepsBounded
  <2>2. ASSUME UNCHANGED <<dirVars, run>>
        PROVE  BoundedInv'
    <3>1. Left' = Left /\ \A a \in Apply : Owes(a)' = Owes(a)
      BY <2>2 DEF Left, Owes, dirVars
    <3>2. QED
      BY <2>2, <3>1 DEF BoundedInv, dirVars
  <2>3. CASE ClockTicks \/ ClockSetBack
    BY <2>2, <2>3, ClockMoves
  <2>4. CASE UNCHANGED filesVars
    BY <2>2, <2>4 DEF filesVars
  <2>5. QED
    BY <2>1, <2>3, <2>4 DEF FilesNext
<1>3. BoundedInv => BackupsBounded
  <2> SUFFICES ASSUME BoundedInv, keep > 0,
                      \A a \in Apply : run[a].at \in {"idle", "restarting"}
                                                       \cup (Ended \ Failed)
               PROVE  Cardinality(DOMAIN backups) <= keep
    BY DEF BackupsBounded
  <2>1. \A a \in Apply : ~Owes(a) /\ run[a].at # "rotating"
    BY DEF Owes, Ended, Failed
  <2>2. Left = DOMAIN backups
    BY <2>1 DEF Left
  <2>3. QED
    BY <2>1, <2>2 DEF BoundedInv
<1>4. QED
  BY <1>1, <1>2, <1>3, FilesInvariant, PTL DEF FilesSpec

------------------------------------------------------------------------------
(* The candidate of a run that overlaps no other, while the clock goes on.  *)

Distinct(s) == \A i, j \in 1 .. Len(s) : s[i] = s[j] => i = j

\* Until it is read for the last time the candidate is there; it is the last by
\* name when the pruning lists the names, so that it is not on the list.
OwnCandidate(a) ==
  /\ run[a].at \notin Failed
  /\ run[a].at = "named" => \A c \in candidates : SortsBefore(c, run[a].cand)
  /\ run[a].at = "written" => /\ run[a].cand \in candidates
                              /\ After(candidates, run[a].cand) = {}
  /\ run[a].at = "pruning" =>
       /\ run[a].cand \in candidates /\ Distinct(run[a].todo)
       /\ \A i \in 1 .. Len(run[a].todo) :
            run[a].todo[i] \in candidates \ {run[a].cand}
  /\ run[a].at \in {"valid", "copied", "dropping", "script"} =>
       run[a].cand \in candidates

CandidateInv ==
  stepsBack = 0 =>
    /\ \A c \in candidates : c[1] <= clock
    /\ \A a \in Apply : run[a].at = "named" => run[a].cand[1] <= clock
    /\ \A a \in alone : OwnCandidate(a)

LEMMA TailOfDistinct ==
  ASSUME NEW S, NEW s \in Seq(S), s # <<>>, Distinct(s)
  PROVE  /\ 1 \in 1 .. Len(s) /\ Head(s) = s[1] /\ Distinct(Tail(s))
         /\ \A i \in 1 .. Len(Tail(s)) :
              Tail(s)[i] # Head(s) /\ \E j \in 1 .. Len(s) : Tail(s)[i] = s[j]
<1>1. 1 \in 1 .. Len(s) /\ Head(s) = s[1] /\ Len(s) \in Nat
  OBVIOUS
<1>2. \A i \in 1 .. Len(Tail(s)) : i \in Nat /\ i + 1 \in 1 .. Len(s)
                                   /\ Tail(s)[i] = s[i + 1]
  OBVIOUS
<1>3. ASSUME NEW i \in 1 .. Len(Tail(s)), NEW j \in 1 .. Len(Tail(s)),
             Tail(s)[i] = Tail(s)[j]
      PROVE  i = j
  <2>1. i + 1 = j + 1
    BY <1>2, <1>3 DEF Distinct
  <2>2. QED
    BY <2>1, <1>2
<1>4. ASSUME NEW i \in 1 .. Len(Tail(s))
      PROVE  Tail(s)[i] # Head(s)
  <2>1. i + 1 # 1
    BY <1>2
  <2>2. QED
    BY <2>1, <1>1, <1>2 DEF Distinct
<1>5. QED
  BY <1>1, <1>2, <1>3, <1>4 DEF Distinct

LEMMA StepKeepsCandidate ==
  ASSUME FilesInv, AloneInv, CandidateInv, NEW a \in Apply,
         PanelStep(a) \/ ScriptStep(a), RunMoves(a)
  PROVE  CandidateInv'
<1> SUFFICES ASSUME stepsBack = 0
             PROVE  /\ \A c \in candidates' : c[1] <= clock
                    /\ \A c \in Apply : run'[c].at = "named" =>
                                          run'[c].cand[1] <= clock
                    /\ \A c \in alone' : OwnCandidate(c)'
  BY DEF CandidateInv, RunMoves, timeVars
<1>1. /\ run \in [Apply -> Run] /\ clock \in Nat /\ seq \in Nat
      /\ alone' \subseteq alone /\ alone \subseteq Apply
  BY FilesAssumption, InstallsMove DEF FilesInv, FilesAssumption
<1>2. /\ \A c \in candidates : c[1] <= clock
      /\ \A c \in Apply : run[c].at = "named" => run[c].cand[1] <= clock
      /\ \A c \in alone : OwnCandidate(c)
  BY DEF CandidateInv
<1>3. \A c \in candidates' : c[1] <= clock
  <2>1. WriteCandidate(a) => run[a].cand[1] <= clock
    BY <1>2 DEF WriteCandidate, Is
  <2>2. QED
    BY <2>1, <1>2, CandidatesMove
<1>4. NameCandidate(a) => run'[a].cand = <<clock, seq + 1>> /\ candidates' = candidates
                          /\ run'[a].at = "named"
  BY <1>1 DEF NameCandidate, CandidateName, Run, dirVars
<1>5. ASSUME NEW c \in Apply, run'[c].at = "named"
      PROVE  run'[c].cand[1] <= clock
  <2>1. CASE c # a
    BY <2>1, <1>2, <1>5 DEF RunMoves
  <2>2. CASE c = a
    <3>1. NameCandidate(a)
      BY <2>2, <1>5, PanelPlaces, ScriptPlaces DEF PanelGoes, ScriptGoes, Goes
    <3>2. QED
      BY <2>2, <3>1, <1>1, <1>4
  <2>3. QED
    BY <2>1, <2>2
<1>6. ASSUME NEW c \in alone', c # a
      PROVE  OwnCandidate(c)'
  <2>1. c \in alone /\ run'[c] = run[c] /\ run[c].at \in Ended \cup {"idle"}
    BY <1>6, OthersRest
  <2>2. run[c].at \notin Failed
    BY <2>1, <1>2 DEF OwnCandidate
  <2>3. QED
    BY <2>1, <2>2 DEF OwnCandidate, Ended
<1>7. ASSUME a \in alone'
      PROVE  OwnCandidate(a)'
  <2>1. OwnCandidate(a) /\ a \in alone
    BY <1>1, <1>2, <1>7
  <2>2. run[a].at # "idle" => run'[a].cand = run[a].cand
    BY DEF RunMoves
  <2>3. Ordered(candidates) /\ keep \in Nat
    BY Directories
  <2>4. run[a].todo \in Seq(CandidateNames \cup BackupNames)
    BY <1>1 DEF Run
  <2>5. CASE NameCandidate(a)
    <3> DEFINE n == <<clock, seq + 1>>
    <3>1. n \in CandidateNames /\ n[1] = clock /\ n[2] = seq + 1
      BY <1>1 DEF CandidateNames
    <3> HIDE DEF n
    <3>2. ASSUME NEW c \in candidates
          PROVE  SortsBefore(c, n)
      <4>1. c \in CandidateNames /\ c[1] <= clock /\ c[2] <= seq
        BY <1>2 DEF FilesInv
      <4>2. c[1] \in Nat /\ c[2] \in Nat
        BY <4>1 DEF CandidateNames
      <4>3. c[1] < n[1] \/ (c[1] = n[1] /\ c[2] < n[2])
        BY <4>1, <4>2, <3>1, <1>1
      <4>4. QED
        BY <4>1, <4>3, <3>1, CandidateOrder
    <3>3. run'[a].cand = n /\ run'[a].at = "named" /\ candidates' = candidates
      BY <2>5, <1>4 DEF n
    <3>4. QED
      BY <3>2, <3>3 DEF OwnCandidate, Failed
  <2>6. CASE WriteCandidate(a)
    <3>1. run[a].at = "named" /\ run'[a].at = "written"
          /\ candidates' = candidates \cup {run[a].cand}
      BY <2>6, WhereItGoes DEF WriteCandidate, Is
    <3>2. run[a].cand \in CandidateNames
      BY <3>1 DEF FilesInv
    <3>3. \A c \in candidates : SortsBefore(c, run[a].cand)
      BY <2>1, <3>1 DEF OwnCandidate
    <3>4. Ordered(candidates')
      <4>1. IsFiniteSet(candidates') /\ candidates' \subseteq CandidateNames
        BY <3>1, <3>2, FS_AddElement DEF FilesInv
      <4>2. QED
        BY <4>1, CandidatesOrdered
    <3>5. After(candidates', run[a].cand) = {}
      BY <3>1, <3>3, <3>4 DEF After, Ordered
    <3>6. QED
      BY <3>1, <3>5, <2>2 DEF OwnCandidate, Failed
  <2>7. CASE ListCandidates(a)
    <3>1. /\ run[a].at = "written" /\ run'[a].at = "pruning"
          /\ run'[a].todo = Oldest(candidates) /\ candidates' = candidates
      BY <2>7, WhereItGoes DEF ListCandidates, Is, dirVars
    <3>2. run[a].cand \in candidates /\ After(candidates, run[a].cand) = {}
      BY <2>1, <3>1 DEF OwnCandidate
    <3>3. Distinct(Oldest(candidates))
      BY <2>3, OldestNames DEF Distinct
    <3>4. ASSUME NEW i \in 1 .. Len(Oldest(candidates))
          PROVE  Oldest(candidates)[i] \in candidates \ {run[a].cand}
      <4>1. /\ keep > 0 /\ Oldest(candidates)[i] \in candidates
            /\ Cardinality(After(candidates, Oldest(candidates)[i])) >= keep
        BY <2>3, OldestNames
      <4>2. Cardinality(After(candidates, run[a].cand)) = 0
        BY <3>2, FS_EmptySet
      <4>3. Oldest(candidates)[i] # run[a].cand
        BY <4>1, <4>2, <2>3
      <4>4. QED
        BY <4>1, <4>3
    <3>5. run'[a].cand = run[a].cand
      BY <2>2, <3>1
    <3>6. QED
      BY <3>1, <3>2, <3>3, <3>4, <3>5 DEF OwnCandidate, Failed
  <2>8. CASE PruneCandidate(a)
    <3>1. run[a].at = "pruning" /\ run[a].todo # <<>>
      BY <2>8 DEF PruneCandidate, Is
    <3>2. /\ run[a].cand \in candidates /\ Distinct(run[a].todo)
          /\ \A i \in 1 .. Len(run[a].todo) :
               run[a].todo[i] \in candidates \ {run[a].cand}
      BY <2>1, <3>1 DEF OwnCandidate
    <3> DEFINE t == run[a].todo
    <3>3. /\ 1 \in 1 .. Len(t) /\ Head(t) = t[1] /\ Distinct(Tail(t))
          /\ \A i \in 1 .. Len(Tail(t)) :
               Tail(t)[i] # Head(t) /\ \E j \in 1 .. Len(t) : Tail(t)[i] = t[j]
      BY <2>4, <3>1, <3>2, TailOfDistinct
    <3>4. Head(t) \in candidates \ {run[a].cand}
      BY <3>2, <3>3
    <3>5. candidates' = candidates \ {Head(t)} /\ GoOn(a, "pruning", Tail(t))
      BY <2>8, <3>4 DEF PruneCandidate
    <3>6. run'[a].at = "pruning" /\ run'[a].todo = Tail(t)
          /\ run'[a].cand = run[a].cand
      BY <3>1, <3>5, <2>2, WhereItGoes
    <3>7. \A i \in 1 .. Len(Tail(t)) : Tail(t)[i] \in candidates' \ {run[a].cand}
      BY <3>2, <3>3, <3>5
    <3>8. run[a].cand \in candidates'
      BY <3>2, <3>4, <3>5
    <3> HIDE DEF t
    <3>9. QED
      BY <3>3, <3>6, <3>7, <3>8 DEF OwnCandidate, Failed
  <2>9. CASE /\ ~NameCandidate(a) /\ ~WriteCandidate(a)
             /\ ~ListCandidates(a) /\ ~PruneCandidate(a)
    <3>1. candidates' = candidates
      BY <2>9, CandidatesMove
    <3>2. run[a].at \in {"pruning", "valid", "copied", "dropping", "script"} =>
            run[a].cand \in candidates
      BY <2>1 DEF OwnCandidate
    <3>3. CASE PanelStep(a)
      <4>1. /\ run'[a].at \in {"valid", "copied", "dropping", "script"}
            /\ run[a].at \in {"pruning", "valid", "copied", "dropping"}
        BY <2>9, <3>2, <3>3, PanelPlaces DEF PanelGoes, Goes
      <4>2. run'[a].cand = run[a].cand /\ run[a].cand \in candidates
        BY <4>1, <3>2, <2>2
      <4>3. QED
        BY <3>1, <4>1, <4>2 DEF OwnCandidate, Failed
    <3>4. CASE ScriptStep(a)
      <4>1. run'[a].at \in {"naming", "named_backup", "saved", "rotating",
                            "restarting", "done", "restored", "unrestored"}
        BY <3>2, <3>4, ScriptPlaces DEF ScriptGoes, Goes
      <4>2. QED
        BY <4>1 DEF OwnCandidate, Failed
    <3>5. QED
      BY <3>3, <3>4
  <2>10. QED
    BY <2>5, <2>6, <2>7, <2>8, <2>9
<1>8. QED
  BY <1>3, <1>5, <1>6, <1>7

\* An apply loses its candidate, or fails on one that is gone, only when another
\* ran at the same time or the clock was set back, and whatever BACKUP_KEEP is.
THEOREM LossTakesOverlap ==
  FilesSpec => []LossNeedsOverlap
<1>1. FilesInit => CandidateInv
  <2> SUFFICES ASSUME FilesInit
               PROVE  CandidateInv
    OBVIOUS
  <2>1. \A c \in candidates : c[1] <= clock
    BY FilesAssumption DEF FilesInit, FilesAssumption
  <2>2. \A a \in Apply : run[a].at = "idle"
    BY DEF FilesInit, NotBegun
  <2>3. alone = Apply
    BY DEF FilesInit
  <2>4. QED
    BY <2>1, <2>2, <2>3 DEF CandidateInv, OwnCandidate, Failed
<1>2. FilesInv /\ AloneInv /\ CandidateInv /\ [FilesNext]_filesVars => CandidateInv'
  <2> SUFFICES ASSUME FilesInv, AloneInv, CandidateInv, [FilesNext]_filesVars
               PROVE  CandidateInv'
    OBVIOUS
  <2>1. ASSUME NEW a \in Apply, PanelStep(a) \/ ScriptStep(a)
        PROVE  CandidateInv'
    BY <2>1, PanelMoves, ScriptMoves, StepKeepsCandidate
  <2>2. ASSUME UNCHANGED <<orderVars, dirVars, run>>, clock \in Nat, clock' \in Nat,
               clock' < clock => stepsBack' # 0,
               clock' >= clock => stepsBack' = stepsBack
        PROVE  CandidateInv'
    <3> SUFFICES ASSUME stepsBack' = 0
                 PROVE  CandidateInv'
      BY DEF CandidateInv
    <3>1. stepsBack = 0 /\ clock <= clock'
      BY <2>2
    <3>2. \A c \in candidates : c[1] \in Nat
      BY DEF FilesInv, CandidateNames
    <3>3. \A c \in candidates : c[1] <= clock'
      BY <3>1, <3>2, <2>2 DEF CandidateInv
    <3>4. ASSUME NEW a \in Apply, run[a].at = "named"
          PROVE  run[a].cand[1] <= clock'
      <4>1. run[a].cand \in CandidateNames /\ run[a].cand[1] <= clock
        BY <3>1, <3>4 DEF FilesInv, CandidateInv
      <4>2. run[a].cand[1] \in Nat
        BY <4>1 DEF CandidateNames
      <4>3. QED
        BY <4>1, <4>2, <3>1, <2>2
    <3>5. \A a \in alone : OwnCandidate(a)
      BY <3>1 DEF CandidateInv
    <3>6. QED
      BY <2>2, <3>3, <3>4, <3>5
         DEF CandidateInv, OwnCandidate, orderVars, dirVars
  <2>3. CASE ClockTicks \/ ClockSetBack
    <3>1. /\ UNCHANGED <<orderVars, dirVars, run>>
          /\ clock \in Nat /\ clock' \in Nat
          /\ clock' < clock => stepsBack' = stepsBack + 1 /\ stepsBack \in Nat
          /\ clock' >= clock => stepsBack' = stepsBack
      BY <2>3, ClockMoves
    <3>2. clock' < clock => stepsBack' # 0
      BY <3>1
    <3>3. QED
      BY <3>1, <3>2, <2>2
  <2>4. CASE UNCHANGED filesVars
    <3>1. UNCHANGED <<timeVars, orderVars, dirVars, run>> /\ clock \in Nat
      BY <2>4, FilesAssumption DEF filesVars, FilesInv, FilesAssumption
    <3>2. clock' = clock /\ stepsBack' = stepsBack
      BY <3>1 DEF timeVars
    <3>3. QED
      BY <3>1, <3>2, <2>2
  <2>5. QED
    BY <2>1, <2>3, <2>4 DEF FilesNext
<1>3. FilesInv /\ CandidateInv => LossNeedsOverlap
  <2>1. FilesInv => stepsBack = 0 \/ stepsBack > 0
    BY FilesAssumption DEF FilesInv, FilesAssumption
  <2>2. QED
    BY <2>1 DEF CandidateInv, OwnCandidate, LossNeedsOverlap
<1>4. QED
  BY <1>1, <1>2, <1>3, FilesInvariant, AloneInvariant, PTL DEF FilesSpec

------------------------------------------------------------------------------
(* The backup of a run that overlaps no other, while the clock goes on.     *)

\* The rotation spares a backup that was the first of its second, or that shares
\* its second with few enough others.
Spared(a) ==
  run[a].bak[2] = 2 \/ Cardinality(TookIn(run[a].bak[1])) <= keep

OwnBackup(a) ==
  /\ run[a].at = "named_backup" =>
       run[a].bak[1] >= 1 /\ \A b \in DOMAIN backups : b[1] <= run[a].bak[1]
  /\ run[a].at = "saved" =>
       /\ run[a].bak \in DOMAIN backups /\ backups[run[a].bak] = installed
       /\ run[a].bak[1] >= 1 /\ run[a].bak[2] # 0
       /\ \A b \in DOMAIN backups : b[1] <= run[a].bak[1]
  /\ run[a].at = "rotating" /\ Spared(a) =>
       /\ run[a].bak \in DOMAIN backups /\ backups[run[a].bak] = installed
       /\ run[a].bak \notin Range(run[a].todo)
  /\ run[a].at = "restarting" /\ Spared(a) =>
       run[a].bak \in DOMAIN backups /\ backups[run[a].bak] = run[a].from

\* Every backup of a script, but one from before, is some run's, and no run takes
\* a second name; nothing carries a second that is still to come.
BackupInv ==
  /\ \A a \in Apply : run[a].at \in {"idle", "named", "written", "pruning", "valid",
                                     "copied", "dropping", "script", "naming"} =>
                        run[a].bak = <<>>
  /\ \A b \in DOMAIN backups : b[2] # 0 /\ b[1] >= 1 =>
                                 \E c \in Apply : run[c].bak = b
  /\ stepsBack = 0 =>
       /\ clock >= TickRate
       /\ \A b \in DOMAIN backups : b[1] <= Second
       /\ \A a \in Apply : run[a].at = "named_backup" => run[a].bak[1] <= Second
       /\ \A a \in alone : OwnBackup(a)

\* A name has parts.
LEMMA NamesHaveParts ==
  ASSUME NEW b \in BackupNames
  PROVE  /\ b # <<>> /\ b[1] \in Nat /\ b[2] \in 0 .. 2
         /\ b[3] \in Nat /\ b[4] \in Nat
         /\ b[2] = 2 => b[3] = 0 /\ b[4] = 0
<1>1. b \in Nat \X (0 .. 2) \X Nat \X Nat /\ (b[2] = 2 => b[3] = 0 /\ b[4] = 0)
  BY DEF BackupNames
<1>2. DOMAIN b = 1 .. 4
  BY <1>1
<1>3. b # <<>>
  <2>1. 1 \in DOMAIN b
    BY <1>2
  <2>2. 1 \notin DOMAIN <<>>
    OBVIOUS
  <2>3. QED
    BY <2>1, <2>2
<1>4. QED
  BY <1>1, <1>3

\* What the rotation of a run lists does not hold the run's own backup.
LEMMA RotationSpares ==
  ASSUME FilesInv, BackupInv, NEW a \in Apply, Spared(a),
         run[a].bak \in DOMAIN backups, run[a].bak[1] >= 1, run[a].bak[2] # 0,
         \A b \in DOMAIN backups : b[1] <= run[a].bak[1]
  PROVE  run[a].bak \notin Range(Oldest(DOMAIN backups))
<1> DEFINE mine == run[a].bak
           later == After(DOMAIN backups, mine)
<1> SUFFICES ASSUME mine \in Range(Oldest(DOMAIN backups))
             PROVE  FALSE
  OBVIOUS
<1>1. keep \in Nat /\ Ordered(DOMAIN backups) /\ IsFiniteSet(DOMAIN backups)
      /\ \A b \in DOMAIN backups : b \in BackupNames
  BY Directories DEF FilesInv
<1>2. /\ keep > 0 /\ Cardinality(later) >= keep
  <2>1. Oldest(DOMAIN backups) \in Seq(DOMAIN backups)
    BY <1>1, OldestNames
  <2>2. PICK i \in 1 .. Len(Oldest(DOMAIN backups)) :
          mine = Oldest(DOMAIN backups)[i]
    BY <2>1 DEF Range
  <2>3. QED
    BY <2>2, <1>1, OldestNames
<1>3. ASSUME NEW b \in later
      PROVE  /\ b \in DOMAIN backups /\ b # mine /\ b[1] = mine[1]
             /\ b[2] >= mine[2] /\ mine[2] < 2 /\ b[2] # 0
  <2>1. b \in DOMAIN backups /\ SortsBefore(mine, b) /\ b[1] <= mine[1]
        /\ b # mine
    BY <1>1 DEF After, Ordered
  <2>2. /\ mine \in BackupNames /\ b \in BackupNames
    BY <2>1, <1>1
  <2>3. /\ mine[1] \in Nat /\ mine[2] \in 0 .. 2 /\ mine[3] \in Nat
        /\ mine[4] \in Nat /\ (mine[2] = 2 => mine[3] = 0 /\ mine[4] = 0)
        /\ b[1] \in Nat /\ b[2] \in 0 .. 2 /\ b[3] \in Nat
        /\ b[4] \in Nat /\ (b[2] = 2 => b[3] = 0 /\ b[4] = 0)
    BY <2>2, NamesHaveParts
  <2>4. \/ mine[1] < b[1]
        \/ mine[1] = b[1] /\ mine[2] < b[2]
        \/ mine[1] = b[1] /\ mine[2] = b[2] /\ mine[3] < b[3]
        \/ mine[1] = b[1] /\ mine[2] = b[2] /\ mine[3] = b[3] /\ mine[4] < b[4]
    BY <2>1, <2>2, <1>1, BackupOrder
  <2>5. b[1] = mine[1] /\ b[2] >= mine[2] /\ mine[2] < 2
    BY <2>1, <2>3, <2>4
  <2>6. QED
    BY <2>1, <2>3, <2>5
<1>4. CASE mine[2] = 2
  <2>1. later = {}
    BY <1>3, <1>4
  <2>2. QED
    BY <2>1, <1>1, <1>2, FS_EmptySet
<1>5. CASE Cardinality(TookIn(mine[1])) <= keep
  <2> DEFINE others == TookIn(mine[1]) \ {a}
             owners == {c \in others : run[c].bak \in later}
             name == [c \in owners |-> run[c].bak]
  <2>1. IsFiniteSet(Apply) /\ TookIn(mine[1]) \in SUBSET Apply
    BY FilesAssumption DEF FilesAssumption, TookIn
  <2>2. IsFiniteSet(TookIn(mine[1])) /\ Cardinality(TookIn(mine[1])) \in Nat
    BY <2>1, FS_Subset, FS_CardinalityType
  <2>3. a \in TookIn(mine[1])
    BY <1>1, NamesHaveParts DEF TookIn
  <2>4. IsFiniteSet(others)
        /\ Cardinality(others) = Cardinality(TookIn(mine[1])) - 1
    BY <2>2, <2>3, FS_RemoveElement
  <2>5. owners \in SUBSET others
    OBVIOUS
  <2>6. IsFiniteSet(owners) /\ Cardinality(owners) <= Cardinality(others)
    BY <2>4, <2>5, FS_Subset
  <2>7. \A b \in later : \E c \in owners : name[c] = b
    <3> SUFFICES ASSUME NEW b \in later
                 PROVE  \E c \in owners : name[c] = b
      OBVIOUS
    <3>1. b \in DOMAIN backups /\ b # mine /\ b[1] = mine[1] /\ b[2] # 0
      BY <1>3
    <3>2. PICK c \in Apply : run[c].bak = b
      BY <3>1 DEF BackupInv
    <3>3. b # <<>>
      BY <3>1, <1>1, NamesHaveParts
    <3>4. c \in owners
      BY <3>1, <3>2, <3>3 DEF TookIn
    <3>5. QED
      BY <3>2, <3>4
  <2>8. name \in Surjection(owners, later)
    BY <2>7 DEF Surjection
  <2> HIDE DEF name
  <2>9. Cardinality(later) <= Cardinality(owners)
    BY <2>6, <2>8, FS_Surjection
  <2>10. IsFiniteSet(later)
    BY <2>6, <2>8, FS_Surjection
  <2>11. Cardinality(later) \in Nat /\ Cardinality(owners) \in Nat
    BY <2>6, <2>10, FS_CardinalityType
  <2>12. QED
    BY <2>2, <2>4, <2>6, <2>9, <2>11, <1>1, <1>2, <1>5
<1>6. QED
  BY <1>4, <1>5 DEF Spared

\* Where a backup that is there after a step comes from.
LEMMA WhereFrom ==
  ASSUME FilesInv, NEW a \in Apply, PanelStep(a) \/ ScriptStep(a),
         NEW b \in DOMAIN backups'
  PROVE  \/ b \in DOMAIN backups
         \/ b = PanelBackup(seq + 1)
         \/ b = run[a].bak /\ CopyBackup(a)
<1>1. CASE backups' = backups
  BY <1>1
<1>2. CASE Drop(Head(run[a].todo))
  BY <1>2 DEF Drop
<1>3. CASE Backed(PanelBackup(seq + 1))
  <2> DEFINE n == PanelBackup(seq + 1)
  <2>1. DOMAIN backups' = DOMAIN backups \cup {n}
    BY <1>3 DEF Backed
  <2>2. QED
    BY <2>1
<1>4. CASE CopyBackup(a) /\ Backed(run[a].bak)
  <2> DEFINE n == run[a].bak
  <2>1. DOMAIN backups' = DOMAIN backups \cup {n}
    BY <1>4 DEF Backed
  <2>2. QED
    BY <2>1, <1>4
<1>5. QED
  BY <1>1, <1>2, <1>3, <1>4, BackupsMove

LEMMA StepKeepsBackups ==
  ASSUME FilesInv, AloneInv, BackupInv, NEW a \in Apply,
         PanelStep(a) \/ ScriptStep(a), RunMoves(a)
  PROVE  BackupInv'
<1>1. /\ run \in [Apply -> Run] /\ clock \in Nat /\ seq \in Nat
      /\ alone' \subseteq alone /\ alone \subseteq Apply
      /\ clock' = clock /\ stepsBack' = stepsBack /\ keep' = keep
      /\ Second \in Nat
  BY FilesAssumption, InstallsMove, Seconds
     DEF FilesInv, FilesAssumption, RunMoves, timeVars, Second
<1>2. \A b \in DOMAIN backups : b \in BackupNames
  BY DEF FilesInv
<1>3. NameBackup(a) => /\ run[a].at = "naming" /\ run'[a].at = "named_backup"
                       /\ backups' = backups
                       /\ run'[a].bak[1] = Second /\ run'[a].bak[2] # 0
  <2> SUFFICES ASSUME NameBackup(a)
               PROVE  /\ run[a].at = "naming" /\ run'[a].at = "named_backup"
                      /\ backups' = backups
                      /\ run'[a].bak[1] = Second /\ run'[a].bak[2] # 0
    OBVIOUS
  <2>1. PICK n \in 0 .. Cardinality(DOMAIN backups) : Takes(a, n)
    BY DEF NameBackup
  <2>2. n \in Nat
    BY <2>1, FS_CardinalityType DEF FilesInv
  <2>3. /\ run'[a].bak = ScriptBackup(n) /\ run'[a].at = "named_backup"
        /\ run[a].at = "naming" /\ backups' = backups
    BY <2>1, <1>1 DEF Takes, Run, Is, dirVars
  <2>4. QED
    BY <2>2, <2>3, <1>1, ScriptBackupNames DEF Second
<1>4. \A c \in Apply : c # a \/ run[a].at # "naming" => run'[c].bak = run[c].bak
  BY DEF RunMoves
<1>5. ASSUME NEW c \in Apply,
             run'[c].at \in {"idle", "named", "written", "pruning", "valid",
                             "copied", "dropping", "script", "naming"}
      PROVE  run'[c].bak = <<>>
  <2>1. CASE c # a
    BY <2>1, <1>5 DEF RunMoves, BackupInv
  <2>2. CASE c = a
    <3>1. run[a].at \in {"idle", "named", "written", "pruning", "valid",
                         "copied", "dropping", "script"}
      BY <2>2, <1>5, PanelPlaces, ScriptPlaces DEF PanelGoes, ScriptGoes, Goes
    <3>2. QED
      BY <2>2, <3>1, <1>4 DEF BackupInv
  <2>3. QED
    BY <2>1, <2>2
<1>6. ASSUME NEW b \in DOMAIN backups', b[2] # 0, b[1] >= 1
      PROVE  \E c \in Apply : run'[c].bak = b
  <2>1. ASSUME b \in DOMAIN backups
        PROVE  \E c \in Apply : run'[c].bak = b
    <3>1. PICK c \in Apply : run[c].bak = b
      BY <1>6, <2>1 DEF BackupInv
    <3>2. b # <<>>
      BY <2>1, <1>2, NamesHaveParts
    <3>3. run[c].at # "naming"
      BY <3>1, <3>2 DEF BackupInv
    <3>4. run'[c].bak = b
      BY <3>1, <3>3, <1>4
    <3>5. QED
      BY <3>4
  <2>2. CASE b = PanelBackup(seq + 1)
    <3>1. PanelBackup(seq + 1)[2] = 0
      BY DEF PanelBackup
    <3>2. QED
      BY <2>2, <3>1, <1>6
  <2>3. CASE b = run[a].bak /\ CopyBackup(a)
    <3>1. run[a].at = "named_backup"
      BY <2>3 DEF CopyBackup, Is
    <3>2. run'[a].bak = run[a].bak
      BY <3>1, <1>4
    <3>3. QED
      BY <2>3, <3>2
  <2>4. QED
    BY <2>1, <2>2, <2>3, WhereFrom
<1>7. ASSUME stepsBack = 0
      PROVE  /\ clock >= TickRate
             /\ \A b \in DOMAIN backups' : b[1] <= Second
             /\ \A c \in Apply : run'[c].at = "named_backup" =>
                                   run'[c].bak[1] <= Second
             /\ \A c \in alone' : OwnBackup(c)'
  <2>1. /\ clock >= TickRate /\ \A b \in DOMAIN backups : b[1] <= Second
        /\ \A c \in Apply : run[c].at = "named_backup" => run[c].bak[1] <= Second
        /\ \A c \in alone : OwnBackup(c)
    BY <1>7 DEF BackupInv
  <2>2. \A b \in DOMAIN backups' : b[1] <= Second
    <3>1. PanelBackup(seq + 1)[1] = Second
      BY DEF PanelBackup
    <3>2. CopyBackup(a) => run[a].bak[1] <= Second
      BY <2>1 DEF CopyBackup, Is
    <3>3. QED
      BY <2>1, <3>1, <3>2, <1>1, WhereFrom
  <2>3. ASSUME NEW c \in Apply, run'[c].at = "named_backup"
        PROVE  run'[c].bak[1] <= Second
    <3>1. CASE c # a
      BY <2>1, <2>3, <3>1 DEF RunMoves
    <3>2. CASE c = a
      <4>1. NameBackup(a)
        BY <2>3, <3>2, PanelPlaces, ScriptPlaces DEF PanelGoes, ScriptGoes, Goes
      <4>2. QED
        BY <3>2, <4>1, <1>1, <1>3
    <3>3. QED
      BY <3>1, <3>2
  <2>4. ASSUME NEW c \in alone', c # a
        PROVE  OwnBackup(c)'
    <3>1. run'[c] = run[c] /\ run[c].at \in Ended \cup {"idle"}
      BY <2>4, OthersRest
    <3>2. QED
      BY <3>1 DEF OwnBackup, Ended, Failed
  <2>5. ASSUME a \in alone'
        PROVE  OwnBackup(a)'
    <3>1. OwnBackup(a) /\ a \in alone
      BY <2>1, <2>5, <1>1
    <3>2. run[a].at # "naming" => /\ run'[a].bak = run[a].bak
                                  /\ Spared(a)' => Spared(a)
      <4>1. SUFFICES ASSUME run[a].at # "naming"
                     PROVE  run'[a].bak = run[a].bak /\ (Spared(a)' => Spared(a))
        OBVIOUS
      <4>2. \A c \in Apply : run'[c].bak = run[c].bak
        BY <4>1, <1>4
      <4>3. \A s : TookIn(s)' = TookIn(s)
        BY <4>2 DEF TookIn
      <4>4. QED
        BY <4>2, <4>3, <1>1 DEF Spared
    <3>3. CASE NameBackup(a)
      <4>1. /\ run'[a].at = "named_backup" /\ backups' = backups
            /\ run'[a].bak[1] = Second
        BY <3>3, <1>3
      <4>2. Second >= 1
        BY <2>1, <1>1, Seconds DEF Second
      <4>3. QED
        BY <4>1, <4>2, <2>1 DEF OwnBackup
    <3>4. CASE CopyBackup(a)
      <4>1. /\ run[a].at = "named_backup" /\ run'[a].at = "saved"
            /\ Backed(run[a].bak) /\ installed' = installed
        <5>1. GoOn(a, "saved", <<>>)
          BY <3>4 DEF CopyBackup
        <5>2. QED
          BY <3>4, <5>1, WhereItGoes DEF CopyBackup, Is
      <4>2. /\ run[a].bak[1] >= 1 /\ run[a].bak \in BackupNames
            /\ run[a].bak[2] # 0
            /\ \A b \in DOMAIN backups : b[1] <= run[a].bak[1]
        BY <3>1, <4>1 DEF OwnBackup, FilesInv
      <4>3. run[a].bak[1] \in Nat
        BY <4>2, NamesHaveParts
      <4> DEFINE mine == run[a].bak
      <4>4. /\ DOMAIN backups' = DOMAIN backups \cup {mine}
            /\ backups'[mine] = installed
        BY <4>1, Adding
      <4>5. \A b \in DOMAIN backups' : b[1] <= mine[1]
        BY <4>2, <4>3, <4>4
      <4>6. run'[a].bak = mine
        BY <3>2, <4>1
      <4> HIDE DEF mine
      <4>7. mine[1] >= 1 /\ mine[2] # 0
        BY <4>2 DEF mine
      <4>8. QED
        BY <4>1, <4>4, <4>5, <4>6, <4>7 DEF OwnBackup
    <3>5. CASE ListBackups(a)
      <4>1. /\ run[a].at = "saved" /\ run'[a].at = "rotating"
            /\ run'[a].todo = Oldest(DOMAIN backups)
            /\ backups' = backups /\ installed' = installed
        BY <3>5, WhereItGoes DEF ListBackups, Is, dirVars
      <4>2. /\ run[a].bak \in DOMAIN backups /\ backups[run[a].bak] = installed
            /\ run[a].bak[1] >= 1 /\ run[a].bak[2] # 0
            /\ \A b \in DOMAIN backups : b[1] <= run[a].bak[1]
        BY <3>1, <4>1 DEF OwnBackup
      <4>3. Spared(a) => run[a].bak \notin Range(Oldest(DOMAIN backups))
        BY <4>2, RotationSpares
      <4>4. run'[a].bak = run[a].bak /\ (Spared(a)' => Spared(a))
        BY <3>2, <4>1
      <4>5. QED
        BY <4>1, <4>2, <4>3, <4>4 DEF OwnBackup
    <3>6. CASE RotateBackup(a)
      <4>1. /\ run[a].at = "rotating" /\ run[a].todo # <<>>
            /\ Drop(Head(run[a].todo)) /\ installed' = installed
            /\ run'[a].at = "rotating" /\ run'[a].todo = Tail(run[a].todo)
        BY <3>6, WhereItGoes DEF RotateBackup, Is
      <4>2. run'[a].bak = run[a].bak /\ (Spared(a)' => Spared(a))
        BY <3>2, <4>1
      <4> SUFFICES ASSUME Spared(a)
                   PROVE  OwnBackup(a)'
        BY <4>1, <4>2 DEF OwnBackup
      <4>3. /\ run[a].bak \in DOMAIN backups /\ backups[run[a].bak] = installed
            /\ run[a].bak \notin Range(run[a].todo)
        BY <3>1, <4>1 DEF OwnBackup
      <4>4. run[a].todo \in Seq(CandidateNames \cup BackupNames)
        BY <1>1 DEF Run
      <4>5. Head(run[a].todo) \in Range(run[a].todo)
            /\ Range(Tail(run[a].todo)) \subseteq Range(run[a].todo)
        <5> DEFINE s == run[a].todo
        <5>1. Head(s) = s[1] /\ 1 \in DOMAIN s
          BY <4>1, <4>4
        <5>2. \A i \in DOMAIN Tail(s) : i + 1 \in DOMAIN s /\ Tail(s)[i] = s[i + 1]
          BY <4>1, <4>4
        <5> HIDE DEF s
        <5>3. Head(s) \in Range(s) /\ Range(Tail(s)) \subseteq Range(s)
          BY <5>1, <5>2 DEF Range
        <5>4. QED
          BY <5>3 DEF s
      <4>6. run[a].bak # Head(run[a].todo)
            /\ run[a].bak \notin Range(Tail(run[a].todo))
        BY <4>3, <4>5
      <4>7. /\ run[a].bak \in DOMAIN backups'
            /\ backups'[run[a].bak] = backups[run[a].bak]
        BY <4>1, <4>3, <4>6, Dropping
      <4>8. QED
        BY <4>1, <4>2, <4>3, <4>6, <4>7 DEF OwnBackup
    <3>7. CASE InstallLive(a)
      <4>1. /\ run[a].at = "rotating" /\ run'[a].at = "restarting"
            /\ run'[a].from = installed /\ backups' = backups
        BY <3>7, <1>1 DEF InstallLive, Is, Run
      <4>2. run'[a].bak = run[a].bak /\ (Spared(a)' => Spared(a))
        BY <3>2, <4>1
      <4>3. Spared(a) => /\ run[a].bak \in DOMAIN backups
                         /\ backups[run[a].bak] = installed
        BY <3>1, <4>1 DEF OwnBackup
      <4>4. QED
        BY <4>1, <4>2, <4>3 DEF OwnBackup
    <3>8. CASE /\ ~NameBackup(a) /\ ~CopyBackup(a) /\ ~ListBackups(a)
               /\ ~RotateBackup(a) /\ ~InstallLive(a)
      <4>1. run'[a].at \notin {"named_backup", "saved", "rotating", "restarting"}
        BY <3>8, PanelPlaces, ScriptPlaces DEF PanelGoes, ScriptGoes, Goes
      <4>2. QED
        BY <4>1 DEF OwnBackup
    <3>9. QED
      BY <3>3, <3>4, <3>5, <3>6, <3>7, <3>8
  <2>6. QED
    BY <2>1, <2>2, <2>3, <2>4, <2>5
<1>8. Second' = Second
  BY <1>1 DEF Second
<1>9. QED
  BY <1>1, <1>5, <1>6, <1>7, <1>8 DEF BackupInv

LEMMA ClockKeepsBackups ==
  ASSUME FilesInv, BackupInv, UNCHANGED <<orderVars, dirVars, run>>,
         clock \in Nat, clock' \in Nat,
         clock' < clock => stepsBack' # 0,
         clock' >= clock => stepsBack' = stepsBack
  PROVE  BackupInv'
<1>1. /\ candidates' = candidates /\ backups' = backups /\ installed' = installed
      /\ keep' = keep /\ run' = run /\ alone' = alone
  BY DEF orderVars, dirVars
<1>2. /\ \A a \in Apply : run[a].at \in {"idle", "named", "written", "pruning",
                              "valid", "copied", "dropping", "script", "naming"} =>
                            run[a].bak = <<>>
      /\ \A b \in DOMAIN backups : b[2] # 0 /\ b[1] >= 1 =>
                                     \E c \in Apply : run[c].bak = b
  BY DEF BackupInv
<1>3. ASSUME stepsBack' = 0
      PROVE  /\ clock' >= TickRate
             /\ \A b \in DOMAIN backups : b[1] <= Second'
             /\ \A a \in Apply : run[a].at = "named_backup" =>
                                   run[a].bak[1] <= Second'
             /\ \A a \in alone : OwnBackup(a)
  <2>1. stepsBack = 0 /\ clock <= clock'
    BY <1>3
  <2>2. /\ clock >= TickRate /\ \A b \in DOMAIN backups : b[1] <= Second
        /\ \A a \in Apply : run[a].at = "named_backup" => run[a].bak[1] <= Second
        /\ \A a \in alone : OwnBackup(a)
    BY <2>1 DEF BackupInv
  <2>3. Second <= Second' /\ Second \in Nat /\ Second' \in Nat
    BY <2>1, Seconds DEF Second
  <2>4. \A b \in BackupNames : b[1] \in Nat
    BY NamesHaveParts
  <2>5. \A b \in DOMAIN backups : b[1] <= Second'
    BY <2>2, <2>3, <2>4 DEF FilesInv
  <2>6. \A a \in Apply : run[a].at = "named_backup" => run[a].bak[1] <= Second'
    BY <2>2, <2>3, <2>4 DEF FilesInv
  <2>7. clock' >= TickRate
    BY <2>1, <2>2, FilesAssumption DEF FilesAssumption
  <2>8. QED
    BY <2>2, <2>5, <2>6, <2>7
<1>4. \A a \in Apply : OwnBackup(a)' <=> OwnBackup(a)
  BY <1>1 DEF OwnBackup, Spared, TookIn
<1>5. alone \subseteq Apply
  BY DEF FilesInv
<1>6. QED
  BY <1>1, <1>2, <1>3, <1>4, <1>5 DEF BackupInv

\* BackupInv holds with the other two in every behaviour.
THEOREM BackupInvariant ==
  FilesSpec => []BackupInv
<1>1. FilesInit => BackupInv
  <2> SUFFICES ASSUME FilesInit
               PROVE  BackupInv
    OBVIOUS
  <2>1. \A a \in Apply : run[a].at = "idle" /\ run[a].bak = <<>>
    BY DEF FilesInit, NotBegun
  <2> DEFINE b0 == <<0, 2, 0, 0>>
  <2>2. b0[1] = 0
    OBVIOUS
  <2>3. backups = <<>> \/ backups = [b \in {b0} |-> 0]
    BY DEF FilesInit
  <2> HIDE DEF b0
  <2>4. \A b \in DOMAIN backups : b[1] = 0
    BY <2>2, <2>3
  <2>5. clock = TickRate /\ clock \in Nat /\ alone = Apply
    BY FilesAssumption DEF FilesInit, FilesAssumption
  <2>6. Second \in Nat
    BY <2>5, Seconds DEF Second
  <2>7. \A a \in alone : OwnBackup(a)
    BY <2>1, <2>5 DEF OwnBackup
  <2>8. QED
    BY <2>1, <2>4, <2>5, <2>6, <2>7 DEF BackupInv
<1>2. FilesInv /\ AloneInv /\ BackupInv /\ [FilesNext]_filesVars => BackupInv'
  <2> SUFFICES ASSUME FilesInv, AloneInv, BackupInv, [FilesNext]_filesVars
               PROVE  BackupInv'
    OBVIOUS
  <2>1. ASSUME NEW a \in Apply, PanelStep(a) \/ ScriptStep(a)
        PROVE  BackupInv'
    BY <2>1, PanelMoves, ScriptMoves, StepKeepsBackups
  <2>2. CASE ClockTicks \/ ClockSetBack
    <3>1. /\ UNCHANGED <<orderVars, dirVars, run>>
          /\ clock \in Nat /\ clock' \in Nat
          /\ clock' < clock => stepsBack' = stepsBack + 1 /\ stepsBack \in Nat
          /\ clock' >= clock => stepsBack' = stepsBack
      BY <2>2, ClockMoves
    <3>2. clock' < clock => stepsBack' # 0
      BY <3>1
    <3>3. QED
      BY <3>1, <3>2, ClockKeepsBackups
  <2>3. CASE UNCHANGED filesVars
    <3>1. UNCHANGED <<timeVars, orderVars, dirVars, run>> /\ clock \in Nat
      BY <2>3, FilesAssumption DEF filesVars, FilesInv, FilesAssumption
    <3>2. clock' = clock /\ stepsBack' = stepsBack
      BY <3>1 DEF timeVars
    <3>3. QED
      BY <3>1, <3>2, ClockKeepsBackups
  <2>4. QED
    BY <2>1, <2>2, <2>3 DEF FilesNext
<1>3. QED
  BY <1>1, <1>2, FilesInvariant, AloneInvariant, PTL DEF FilesSpec

\* A rejected restart of a run that overlapped no other puts back what the install
\* replaced, if the clock went forward and the run's backup was the first of its
\* second or shared it with fewer others than are kept.
THEOREM RejectionPutsBack ==
  FilesSpec => SoloRejectionRestores
<1> DEFINE PutsBack ==
      \A a \in alone :
        (/\ run'[a].at \in {"restored", "unrestored"} /\ ~(run[a].at \in Ended)
         /\ stepsBack = 0
         /\ \/ run[a].bak[2] = 2
            \/ Cardinality(TookIn(run[a].bak[1])) <= keep) =>
          Is(a, "restored")' /\ installed' = run[a].from
<1>1. FilesInv /\ BackupInv /\ [FilesNext]_filesVars => [PutsBack]_filesVars
  <2> SUFFICES ASSUME FilesInv, BackupInv, FilesNext, NEW a \in alone,
                      run'[a].at \in {"restored", "unrestored"},
                      ~(run[a].at \in Ended), stepsBack = 0, Spared(a)
               PROVE  run'[a].at = "restored" /\ installed' = run[a].from
    BY DEF Spared, Is
  <2>1. ~(ClockTicks \/ ClockSetBack)
    <3>1. run' # run
      BY DEF Ended
    <3>2. QED
      BY <3>1, ClockMoves
  <2>2. PICK c \in Apply : PanelStep(c) \/ ScriptStep(c)
    BY <2>1 DEF FilesNext
  <2>3. RunMoves(c) /\ a \in Apply
    BY <2>2, PanelMoves, ScriptMoves DEF FilesInv
  <2>4. c = a
    BY <2>3 DEF RunMoves, Ended
  <2>5. RestartRefused(a) /\ run[a].at = "restarting"
        /\ (run[a].bak \in DOMAIN backups => run'[a].at = "restored")
    BY <2>2, <2>4, PanelPlaces, ScriptPlaces DEF PanelGoes, ScriptGoes, Goes
  <2>6. run[a].bak \in DOMAIN backups /\ backups[run[a].bak] = run[a].from
    BY <2>5 DEF BackupInv, OwnBackup
  <2>7. QED
    BY <2>5, <2>6 DEF RestartRefused
<1>2. QED
  BY <1>1, FilesInvariant, BackupInvariant, PTL
     DEF FilesSpec, SoloRejectionRestores
==============================================================================
