----------------------------- MODULE DeployProofs -----------------------------
(***************************************************************************)
(* Theorems about the panel's start and its installer: what wins when a    *)
(* key is set twice, in the environment and in .env or in two lines of     *)
(* .env, and what a run of the installer leaves, for any keys, files and   *)
(* directories, and any number of runs that fail or are cut short.         *)
(***************************************************************************)
EXTENDS ConfigLoad, Install, ListProofs

(* The start.                                                              *)

\* What a key counts for once .env is read: blank is no value.
Setting(v) == IF v \in {Unset, <<>>} THEN Default ELSE v

\* A file that both readers take for the same.
PlainFile ==
  /\ ~Repeated
  /\ \A k \in Key : \A i \in PairsOf(k) : ReadsAlike(dotenv[i].value)

FileValue(i) == unquoteEnvValue(dotenv[i].value)

Past == {"checking", "syncing", "running"}

ConfigTypes ==
  /\ dotenv \in Files
  /\ environ \in Environment /\ exported \in Environment
  /\ startedBy \in Ways \cup {"exported"}
  /\ loading \in {"stopped", "reading"} \cup Past
  /\ loading = "reading" => lineNo \in 1 .. Len(dotenv) + 1
  /\ loading \in Past => lineNo = Len(dotenv) + 1
  /\ DOMAIN loaded = Ways

\* A variable that was exported is never overwritten.
ExportsKept == \A k \in Key : exported[k] # Unset => environ[k] = exported[k]

\* What systemd read of a plain file stays.
SystemdKept ==
  (PlainFile /\ startedBy = "systemd" /\ loading # "stopped") => environ = FromSystemd

\* Without it, the first line of a key that was read has set it.
FirstLineWins ==
  (startedBy = "shell" /\ loading # "stopped") =>
    \A k \in Key :
      /\ \A i \in PairsOf(k) :
           (i < lineNo /\ \A j \in PairsOf(k) : i <= j) => environ[k] = FileValue(i)
      /\ environ[k] # Unset => \E i \in PairsOf(k) : i < lineNo

\* Only what passed the checks becomes a Config.
OnlyChecked ==
  /\ loading \in {"syncing", "running"} => \A k \in Key : ~Refused(k)
  /\ loading = "running" => settings = [k \in Key |-> Setting(environ[k])]

\* A Config that was loaded is the one of .env as it is now.
LoadedFromFile ==
  PlainFile =>
    \A w \in Ways :
      loaded[w] # Unset => loaded[w] = [k \in Key |-> Setting(FromSystemd[k])]

\* The inductive invariant.
ConfigInv ==
  /\ ConfigTypes /\ ExportsKept /\ SystemdKept /\ FirstLineWins /\ OnlyChecked
  /\ LoadedFromFile

------------------------------------------------------------------------------
(* What the environment and .env give a key.                               *)

\* What is written is what is between the quotes, or all of it.
LEMMA Unquoted ==
  ASSUME NEW v \in Seq(Word \cup Mark)
  PROVE  v \in Value /\ unquoteEnvValue(v) \in Value
<1>1. v \in Value /\ Len(v) \in Nat
  BY DEF Value, Piece
<1>2. ASSUME Len(v) >= 2
      PROVE  SubSeq(v, 2, Len(v) - 1) \in Value
  <2>1. \A i \in 2 .. Len(v) - 1 : v[i] \in Piece
    BY <1>1 DEF Value
  <2>2. QED
    BY <1>1, <2>1, SubSeqProperties DEF Value
<1>3. QED
  BY <1>1, <1>2 DEF unquoteEnvValue

\* The lines of .env.
LEMMA PairLines ==
  ASSUME dotenv \in Files, NEW k \in Key
  PROVE  /\ Len(dotenv) \in Nat /\ PairsOf(k) \subseteq 1 .. Len(dotenv)
         /\ \A i \in 1 .. Len(dotenv) : dotenv[i] \in Line
         /\ \A i \in PairsOf(k) : /\ dotenv[i].value \in Seq(Word \cup Mark)
                                  /\ FileValue(i) \in Value \ {Unset}
<1>1. dotenv \in Seq(Line) /\ Unset \notin Value
  BY ConfigAssumption
<1>2. Len(dotenv) \in Nat /\ DOMAIN dotenv = 1 .. Len(dotenv)
  BY <1>1, LenProperties
<1>3. \A i \in 1 .. Len(dotenv) : dotenv[i] \in Line
  BY <1>1, ElementOfSeq
<1>4. PairsOf(k) \subseteq 1 .. Len(dotenv)
  BY <1>2 DEF PairsOf
<1>5. \A l \in Line : l.value \in Seq(Word \cup Mark)
  BY DEF Line
<1>6. \A i \in PairsOf(k) : FileValue(i) \in Value
  BY <1>3, <1>4, <1>5, Unquoted DEF FileValue
<1>7. QED
  BY <1>1, <1>2, <1>3, <1>4, <1>5, <1>6

\* What a piece leads to is a reading.
LEMMA PieceStep ==
  ASSUME NEW s \in Reading, NEW p \in Piece
  PROVE  SystemdPiece(s, p) \in Reading
<1>1. s.at \in Place /\ s.text \in Value
  BY DEF Reading
<1>2. \A at \in Place : [s EXCEPT !.at = at] \in Reading
  BY DEF Reading
<1>3. AfterText[s.at] \in Place
  BY <1>1 DEF AfterText, Place
<1>4. s.text \o <<p>> \in Value /\ s.text \o <<"bs", p>> \in Value
  <2>1. "bs" \in Piece
    BY DEF Piece, Mark
  <2>2. <<p>> \in Seq(Piece) /\ <<"bs", p>> \in Seq(Piece)
    BY <2>1
  <2>3. QED
    BY <1>1, <2>2, ConcatProperties DEF Value
<1>5. /\ [at |-> AfterText[s.at], text |-> s.text \o <<p>>] \in Reading
      /\ [at |-> AfterText[s.at], text |-> s.text \o <<"bs", p>>] \in Reading
  BY <1>3, <1>4 DEF Reading
<1>6. \/ \E at \in Place : SystemdPiece(s, p) = [s EXCEPT !.at = at]
      \/ SystemdPiece(s, p) = [at |-> AfterText[s.at], text |-> s.text \o <<p>>]
      \/ SystemdPiece(s, p) = [at |-> AfterText[s.at], text |-> s.text \o <<"bs", p>>]
  <2>1. {"double", "before", "single", "escape", "double_escape"} \subseteq Place
    BY DEF Place
  <2>2. QED
    BY <2>1 DEF SystemdPiece
<1>7. QED
  BY <1>2, <1>5, <1>6

\* The fold over the pieces of a value goes through readings.
LEMMA PieceRun ==
  ASSUME NEW base \in Reading, NEW v \in Value
  PROVE  \E run \in [0 .. Len(v) -> Reading] :
           /\ run[0] = base
           /\ \A k \in 1 .. Len(v) : run[k] = SystemdPiece(run[k - 1], v[k])
           /\ FoldLeft(SystemdPiece, base, v) = run[Len(v)]
<1> DEFINE n == Len(v)
           Y == Reading
           Step(st, i) == SystemdPiece(st, v[i])
           Folds(f) == f = [s \in SUBSET DOMAIN v |->
                              IF s = {} THEN base
                              ELSE Step(f[s \ {Max(s)}], Max(s))]
           fold == CHOOSE f : Folds(f)
<1>1. n \in Nat /\ DOMAIN v = 1 .. n /\ \A i \in 1 .. n : v[i] \in Piece
  <2>1. v \in Seq(Piece)
    BY DEF Value
  <2>2. QED
    BY <2>1, LenProperties, ElementOfSeq
<1>2. FoldLeft(SystemdPiece, base, v) = fold[1 .. n]
  <2>1. FoldLeft(SystemdPiece, base, v) = fold[DOMAIN v]
    BY DEF FoldLeft, MapThenFoldSet
  <2>2. QED
    BY <1>1, <2>1
<1>3. base \in Y
  OBVIOUS
<1>4. \A st \in Y, i \in 1 .. n : Step(st, i) \in Y
  BY <1>1, PieceStep
<1> HIDE DEF Y, n, Step
<1>5. \E f : Folds(f)
  <2> DEFINE G == [p \in Y \X (1 .. n) |-> Step(p[1], p[2])]
  <2>1. G \in [Y \X (1 .. n) -> Y]
    BY <1>4
  <2>2. \A st \in Y, i \in 1 .. n : G[<<st, i>>] = Step(st, i)
    OBVIOUS
  <2> HIDE DEF G
  <2>3. PICK f \in [SUBSET (1 .. n) -> Y] : FoldsBy(f, n, base, G)
    BY <1>1, <1>3, <2>1, FoldExists
  <2>4. ASSUME NEW s \in SUBSET (1 .. n), s # {}
        PROVE  f[s] = Step(f[s \ {Max(s)}], Max(s))
    <3>1. Max(s) \in 1 .. n
      BY <1>1, <2>4, MaxIsGreatest
    <3>2. f[s \ {Max(s)}] \in Y
      BY <2>3
    <3>3. QED
      BY <2>2, <2>3, <2>4, <3>1, <3>2 DEF FoldsBy
  <2>5. f = [s \in SUBSET (1 .. n) |->
               IF s = {} THEN base ELSE Step(f[s \ {Max(s)}], Max(s))]
    BY <2>3, <2>4 DEF FoldsBy
  <2>6. QED
    BY <1>1, <2>5
<1>6. fold = [s \in SUBSET (1 .. n) |->
                IF s = {} THEN base ELSE Step(fold[s \ {Max(s)}], Max(s))]
  <2>1. Folds(fold)
    <3> HIDE DEF Folds
    <3>1. QED
      BY <1>5
  <2>2. QED
    BY <1>1, <2>1
<1> HIDE DEF fold
<1>7. /\ fold[1 .. 0] = base
      /\ \A k \in 1 .. n : fold[1 .. k] = Step(fold[1 .. k - 1], k)
  <2>1. fold[{}] = base
    BY <1>6
  <2>2. \A s \in SUBSET (1 .. n) :
          s # {} => fold[s] = Step(fold[s \ {Max(s)}], Max(s))
    BY <1>6
  <2>3. \A k \in 1 .. n : fold[1 .. k] = Step(fold[1 .. k - 1], k)
    BY <1>1, <2>2, PrefixTop
  <2>4. QED
    BY <2>1, <2>3, 1 .. 0 = {}
<1> DEFINE T == {k \in 0 .. n : fold[1 .. k] \in Y}
           run == [k \in 0 .. n |-> fold[1 .. k]]
<1>8. T = 0 .. n
  <2>1. T \in SUBSET (0 .. n) /\ 0 \in T
    BY <1>1, <1>3, <1>7
  <2>2. \A k \in 1 .. n : k - 1 \in T => k \in T
    BY <1>1, <1>4, <1>7
  <2> HIDE DEF T
  <2>3. QED
    BY <1>1, <2>1, <2>2, PrefixInduction
<1>9. /\ run \in [0 .. n -> Y] /\ run[0] = base /\ run[n] = fold[1 .. n]
      /\ \A k \in 1 .. n : run[k] = Step(run[k - 1], k)
  <2>1. run \in [0 .. n -> Y]
    BY <1>8
  <2>2. 0 \in 0 .. n /\ n \in 0 .. n /\ \A k \in 1 .. n : k \in 0 .. n /\ k - 1 \in 0 .. n
    BY <1>1
  <2>3. QED
    BY <1>7, <2>1, <2>2
<1> HIDE DEF run
<1>10. QED
  BY <1>2, <1>9 DEF n, Y, Step


\* A value without quotes and backslashes in the way is read as it is written.
LEMMA AlikeRead ==
  ASSUME NEW v \in Seq(Word \cup Mark), ReadsAlike(v)
  PROVE  LET read == FoldLeft(SystemdPiece, NothingRead, v)
         IN read.at \in {"before", "value"} /\ read.text = unquoteEnvValue(v)
<1> DEFINE n == Len(v)
<1>1. v \in Value /\ v \in Seq(Piece) /\ n \in Nat /\ DOMAIN v = 1 .. n
      /\ \A i \in 1 .. n : v[i] \in Piece
  BY Unquoted, LenProperties, ElementOfSeq DEF Value
<1>2. NothingRead \in Reading /\ NothingRead.at = "before" /\ NothingRead.text = <<>>
  BY DEF NothingRead, Reading, Place, Value
<1>3. PICK run \in [0 .. n -> Reading] :
        /\ run[0] = NothingRead
        /\ \A k \in 1 .. n : run[k] = SystemdPiece(run[k - 1], v[k])
        /\ FoldLeft(SystemdPiece, NothingRead, v) = run[n]
  BY <1>1, <1>2, PieceRun
<1>4. \A k \in 1 .. n : /\ SubSeq(v, k, k - 1) = <<>>
                        /\ \A m \in 1 .. k : SubSeq(v, m, k) = SubSeq(v, m, k - 1) \o <<v[k]>>
  <2> TAKE k \in 1 .. n
  <2>1. SubSeq(v, k, k - 1) = <<>>
    BY <1>1, SubSeqEmpty
  <2>2. \A m \in 1 .. k : SubSeq(v, m, k) = SubSeq(v, m, k - 1) \o <<v[k]>>
    BY <1>1, SubSeqRecursiveSecond
  <2>3. QED
    BY <2>1, <2>2
<1>5. ASSUME v = <<>> \/ (v[1] \notin {"dq", "sq"} /\ "bs" \notin ToSet(v))
      PROVE  run[n].at \in {"before", "value"} /\ run[n].text = unquoteEnvValue(v)
  <2>1. unquoteEnvValue(v) = v
    BY <1>5 DEF unquoteEnvValue
  <2>2. CASE n = 0
    BY <1>1, <1>2, <1>3, <2>1, <2>2, EmptySeq
  <2>3. CASE n # 0
    <3>1. 1 \in 1 .. n /\ v # <<>>
      BY <1>1, <2>3, EmptySeq
    <3>2. \A i \in 1 .. n : v[i] # "bs"
      BY <1>1, <1>5, <3>1 DEF ToSet
    <3>3. ASSUME NEW k \in 1 .. n, run[k - 1].at = IF k = 1 THEN "before" ELSE "value"
          PROVE  run[k].at = "value" /\ run[k].text = run[k - 1].text \o <<v[k]>>
      <4>1. SystemdPiece(run[k - 1], v[k]) =
              [at |-> AfterText[run[k - 1].at], text |-> run[k - 1].text \o <<v[k]>>]
        BY <1>5, <3>1, <3>2, <3>3 DEF SystemdPiece
      <4>2. AfterText[run[k - 1].at] = "value"
        BY <3>3 DEF AfterText
      <4>3. QED
        BY <1>3, <4>1, <4>2
    <3> DEFINE T == {k \in 0 .. n : /\ run[k].at = IF k = 0 THEN "before" ELSE "value"
                                    /\ run[k].text = SubSeq(v, 1, k)}
    <3>4. 0 \in T
      <4>1. SubSeq(v, 1, 0) = <<>>
        BY <1>1, SubSeqEmpty
      <4>2. run[0].at = "before" /\ run[0].text = <<>>
        BY <1>2, <1>3
      <4>3. 0 \in 0 .. n
        BY <1>1
      <4>4. QED
        BY <4>1, <4>2, <4>3
    <3>5. ASSUME NEW k \in 1 .. n, k - 1 \in T
          PROVE  k \in T
      <4>1. run[k - 1].at = (IF k = 1 THEN "before" ELSE "value")
            /\ run[k - 1].text = SubSeq(v, 1, k - 1)
        BY <1>1, <3>5
      <4>2. run[k].at = "value" /\ run[k].text = SubSeq(v, 1, k - 1) \o <<v[k]>>
        BY <3>3, <4>1
      <4>3. SubSeq(v, 1, k) = SubSeq(v, 1, k - 1) \o <<v[k]>>
        BY <1>1, <1>4
      <4>4. k # 0 /\ k \in 0 .. n
        BY <1>1
      <4>5. QED
        BY <4>2, <4>3, <4>4
    <3>6. n \in T
      <4>1. T \in SUBSET (0 .. n)
        OBVIOUS
      <4> HIDE DEF T
      <4>2. T = 0 .. n
        BY <1>1, <3>4, <3>5, <4>1, PrefixInduction
      <4>3. QED
        BY <1>1, <4>2
    <3>7. SubSeq(v, 1, n) = v
      BY <1>1, SubSeqFull
    <3>8. QED
      BY <2>1, <2>3, <3>6, <3>7
  <2>4. QED
    BY <2>2, <2>3
<1>6. ASSUME NEW mark \in {"dq", "sq"}, NEW without,
             Quoted(v, mark, without), mark \in without, mark = "dq" => "bs" \in without
      PROVE  run[n].at \in {"before", "value"} /\ run[n].text = unquoteEnvValue(v)
  <2> DEFINE inside == IF mark = "dq" THEN "double" ELSE "single"
  <2>1. /\ n >= 2 /\ v[1] = mark /\ v[n] = mark
        /\ \A i \in 2 .. n - 1 : v[i] # mark /\ (mark = "dq" => v[i] # "bs")
    BY <1>6 DEF Quoted
  <2>2. unquoteEnvValue(v) = SubSeq(v, 2, n - 1)
    BY <1>6, <2>1 DEF unquoteEnvValue
  <2>3. run[1].at = inside /\ run[1].text = <<>>
    <3>1. 1 \in 1 .. n /\ 1 - 1 = 0
      BY <1>1, <2>1
    <3>2. run[1] = SystemdPiece(NothingRead, mark)
      BY <1>3, <2>1, <3>1
    <3>3. SystemdPiece(NothingRead, mark) = [NothingRead EXCEPT !.at = inside]
      BY <1>2, <1>6 DEF SystemdPiece
    <3>4. QED
      BY <1>2, <3>2, <3>3 DEF NothingRead
  <2>4. ASSUME NEW k \in 2 .. n - 1, run[k - 1].at = inside
        PROVE  run[k].at = inside /\ run[k].text = run[k - 1].text \o <<v[k]>>
    <3>1. k \in 1 .. n /\ v[k] # mark /\ (mark = "dq" => v[k] # "bs")
      BY <1>1, <2>1
    <3>2. SystemdPiece(run[k - 1], v[k]) =
            [at |-> AfterText[inside], text |-> run[k - 1].text \o <<v[k]>>]
      BY <1>6, <2>4, <3>1 DEF SystemdPiece
    <3>3. AfterText[inside] = inside
      BY <1>6 DEF AfterText
    <3>4. QED
      BY <1>3, <3>1, <3>2, <3>3
  <2> HIDE DEF inside
  <2> DEFINE T == {k \in 0 .. n - 1 : k # 0 =>
                     run[k].at = inside /\ run[k].text = SubSeq(v, 2, k)}
  <2>5. 0 \in T
    BY <1>1, <2>1
  <2>6. ASSUME NEW k \in 1 .. n - 1, k - 1 \in T
        PROVE  k \in T
    <3>1. CASE k = 1
      <4>1. 2 \in 1 .. n /\ 2 - 1 = 1
        BY <1>1, <2>1
      <4>2. SubSeq(v, 2, 1) = <<>>
        BY <1>4, <4>1
      <4>3. QED
        BY <1>1, <2>3, <3>1, <4>2
    <3>2. CASE k # 1
      <4>1. k \in 2 .. n - 1 /\ k - 1 # 0 /\ k \in 1 .. n /\ 2 \in 1 .. k
        BY <1>1, <3>2
      <4>2. run[k - 1].at = inside /\ run[k - 1].text = SubSeq(v, 2, k - 1)
        BY <2>6, <4>1
      <4>3. run[k].at = inside /\ run[k].text = SubSeq(v, 2, k - 1) \o <<v[k]>>
        BY <2>4, <4>1, <4>2
      <4>4. SubSeq(v, 2, k) = SubSeq(v, 2, k - 1) \o <<v[k]>>
        BY <1>4, <4>1
      <4>5. QED
        BY <1>1, <4>3, <4>4
    <3>3. QED
      BY <3>1, <3>2
  <2>7. n - 1 \in T
    <3>1. T \in SUBSET (0 .. n - 1) /\ n - 1 \in Nat
      BY <1>1, <2>1
    <3> HIDE DEF T
    <3>2. T = 0 .. n - 1
      BY <2>5, <2>6, <3>1, PrefixInduction
    <3>3. QED
      BY <3>1, <3>2
  <2>8. run[n - 1].at = inside /\ run[n - 1].text = SubSeq(v, 2, n - 1)
    BY <1>1, <2>1, <2>7
  <2>9. run[n] = [run[n - 1] EXCEPT !.at = "before"]
    <3>1. n \in 1 .. n
      BY <1>1, <2>1
    <3>2. run[n] = SystemdPiece(run[n - 1], mark)
      BY <1>3, <2>1, <3>1
    <3>3. QED
      BY <1>6, <2>8, <3>2 DEF SystemdPiece, inside
  <2>10. run[n - 1] \in Reading
    BY <1>1, <1>3, <2>1
  <2>11. run[n].at = "before" /\ run[n].text = SubSeq(v, 2, n - 1)
    BY <2>8, <2>9, <2>10 DEF Reading
  <2>12. QED
    BY <2>2, <2>11
<1>7. QED
  BY <1>3, <1>5, <1>6 DEF ReadsAlike

\* The whole value of a line, or as much of it as was read before.
LEMMA LineValue ==
  ASSUME NEW base \in Reading, NEW v \in Value
  PROVE  FoldLeft(SystemdPiece, base, v) \in Reading
<1>1. Len(v) \in Nat
  BY DEF Value
<1>2. PICK run \in [0 .. Len(v) -> Reading] :
        FoldLeft(SystemdPiece, base, v) = run[Len(v)]
  BY PieceRun
<1>3. QED
  BY <1>1, <1>2

LEMMA LineEnds ==
  ASSUME NEW s \in Reading
  PROVE  SystemdLineEnd(s) \in Reading
<1>1. s.text \in Value /\ Append(s.text, "nl") \in Value
  BY DEF Reading, Value, Piece
<1>2. {"value", "double"} \subseteq Place
  BY DEF Place
<1>3. QED
  BY <1>1, <1>2 DEF SystemdLineEnd, Reading

\* What a line leads to is the reading of a file.
LEMMA LineStep ==
  ASSUME NEW st \in FileReading, NEW line \in Line
  PROVE  /\ SystemdLine(st, line) \in FileReading
         /\ ~st.open =>
              LET read == FoldLeft(SystemdPiece, NothingRead, line.value)
              IN IF line.kind = "pair"
                   THEN /\ SystemdLine(st, line).env =
                             [st.env EXCEPT ![line.key] = read.text]
                        /\ SystemdLine(st, line).open =
                             (read.at \notin {"before", "value"})
                   ELSE SystemdLine(st, line) = st
<1>1. /\ st.env \in Environment /\ st.key \in Key /\ st.open \in BOOLEAN
      /\ st.value \in Reading
  BY DEF FileReading
<1>2. /\ line.kind \in {"pair", "comment", "junk"} /\ line.key \in Key
      /\ line.value \in Value
  BY Unquoted DEF Line
<1> DEFINE pieces == IF ~st.open THEN line.value
                     ELSE IF line.kind = "pair" THEN <<"name">> \o line.value
                     ELSE <<"line">>
           key == IF st.open THEN st.key ELSE line.key
           base == IF st.open THEN st.value ELSE NothingRead
           value == FoldLeft(SystemdPiece, base, pieces)
           after == [env |-> [st.env EXCEPT ![key] = value.text], key |-> key,
                     open |-> value.at \notin {"before", "value"},
                     value |-> SystemdLineEnd(value)]
<1>3. SystemdLine(st, line) = IF ~st.open /\ line.kind # "pair" THEN st ELSE after
  BY DEF SystemdLine
<1>4. pieces \in Value
  <2>1. "name" \in Piece /\ "line" \in Piece
    BY DEF Piece
  <2>2. <<"name">> \in Seq(Piece) /\ <<"line">> \in Seq(Piece)
    BY <2>1
  <2>3. <<"name">> \o line.value \in Seq(Piece)
    BY <1>2, <2>2, ConcatProperties DEF Value
  <2>4. QED
    BY <1>2, <2>2, <2>3 DEF Value
<1>5. base \in Reading /\ key \in Key
  BY <1>1, <1>2 DEF NothingRead, Reading, Place, Value
<1> HIDE DEF pieces, base, key
<1>6. value \in Reading
  BY <1>4, <1>5, LineValue
<1> HIDE DEF value
<1>7. [st.env EXCEPT ![key] = value.text] \in Environment
  BY <1>1, <1>5, <1>6 DEF Environment, Reading
<1>8. SystemdLineEnd(value) \in Reading
  BY <1>6, LineEnds
<1>9. after \in FileReading
  BY <1>5, <1>7, <1>8 DEF FileReading
<1>10. ~st.open => /\ key = line.key /\ value = FoldLeft(SystemdPiece, NothingRead, line.value)
  BY DEF key, value, base, pieces
<1>11. QED
  BY <1>3, <1>9, <1>10

\* The fold over the lines of a file goes through such readings.
LEMMA LineRun ==
  ASSUME NEW v \in Seq(Line), NothingOpen \in FileReading
  PROVE  \E run \in [0 .. Len(v) -> FileReading] :
           /\ run[0] = NothingOpen
           /\ \A k \in 1 .. Len(v) : run[k] = SystemdLine(run[k - 1], v[k])
           /\ FoldLeft(SystemdLine, NothingOpen, v) = run[Len(v)]
<1> DEFINE n == Len(v)
           base == NothingOpen
           Y == FileReading
           Step(st, i) == SystemdLine(st, v[i])
           Folds(f) == f = [s \in SUBSET DOMAIN v |->
                              IF s = {} THEN base
                              ELSE Step(f[s \ {Max(s)}], Max(s))]
           fold == CHOOSE f : Folds(f)
<1>1. n \in Nat /\ DOMAIN v = 1 .. n /\ \A i \in 1 .. n : v[i] \in Line
  BY LenProperties, ElementOfSeq
<1>2. FoldLeft(SystemdLine, NothingOpen, v) = fold[1 .. n]
  <2>1. FoldLeft(SystemdLine, NothingOpen, v) = fold[DOMAIN v]
    BY DEF FoldLeft, MapThenFoldSet
  <2>2. QED
    BY <1>1, <2>1
<1>3. base \in Y
  OBVIOUS
<1>4. \A st \in Y, i \in 1 .. n : Step(st, i) \in Y
  BY <1>1, LineStep
<1> HIDE DEF base, Y, n, Step
<1>5. \E f : Folds(f)
  <2> DEFINE G == [p \in Y \X (1 .. n) |-> Step(p[1], p[2])]
  <2>1. G \in [Y \X (1 .. n) -> Y]
    BY <1>4
  <2>2. \A st \in Y, i \in 1 .. n : G[<<st, i>>] = Step(st, i)
    OBVIOUS
  <2> HIDE DEF G
  <2>3. PICK f \in [SUBSET (1 .. n) -> Y] : FoldsBy(f, n, base, G)
    BY <1>1, <1>3, <2>1, FoldExists
  <2>4. ASSUME NEW s \in SUBSET (1 .. n), s # {}
        PROVE  f[s] = Step(f[s \ {Max(s)}], Max(s))
    <3>1. Max(s) \in 1 .. n
      BY <1>1, <2>4, MaxIsGreatest
    <3>2. f[s \ {Max(s)}] \in Y
      BY <2>3
    <3>3. QED
      BY <2>2, <2>3, <2>4, <3>1, <3>2 DEF FoldsBy
  <2>5. f = [s \in SUBSET (1 .. n) |->
               IF s = {} THEN base ELSE Step(f[s \ {Max(s)}], Max(s))]
    BY <2>3, <2>4 DEF FoldsBy
  <2>6. QED
    BY <1>1, <2>5
<1>6. fold = [s \in SUBSET (1 .. n) |->
                IF s = {} THEN base ELSE Step(fold[s \ {Max(s)}], Max(s))]
  <2>1. Folds(fold)
    <3> HIDE DEF Folds
    <3>1. QED
      BY <1>5
  <2>2. QED
    BY <1>1, <2>1
<1> HIDE DEF fold
<1>7. /\ fold[1 .. 0] = base
      /\ \A k \in 1 .. n : fold[1 .. k] = Step(fold[1 .. k - 1], k)
  <2>1. fold[{}] = base
    BY <1>6
  <2>2. \A s \in SUBSET (1 .. n) :
          s # {} => fold[s] = Step(fold[s \ {Max(s)}], Max(s))
    BY <1>6
  <2>3. \A k \in 1 .. n : fold[1 .. k] = Step(fold[1 .. k - 1], k)
    BY <1>1, <2>2, PrefixTop
  <2>4. QED
    BY <2>1, <2>3, 1 .. 0 = {}
<1> DEFINE T == {k \in 0 .. n : fold[1 .. k] \in Y}
           run == [k \in 0 .. n |-> fold[1 .. k]]
<1>8. T = 0 .. n
  <2>1. T \in SUBSET (0 .. n) /\ 0 \in T
    BY <1>1, <1>3, <1>7
  <2>2. \A k \in 1 .. n : k - 1 \in T => k \in T
    BY <1>1, <1>4, <1>7
  <2> HIDE DEF T
  <2>3. QED
    BY <1>1, <2>1, <2>2, PrefixInduction
<1>9. /\ run \in [0 .. n -> Y] /\ run[0] = base /\ run[n] = fold[1 .. n]
      /\ \A k \in 1 .. n : run[k] = Step(run[k - 1], k)
  <2>1. run \in [0 .. n -> Y]
    BY <1>8
  <2>2. 0 \in 0 .. n /\ n \in 0 .. n /\ \A k \in 1 .. n : k \in 0 .. n /\ k - 1 \in 0 .. n
    BY <1>1
  <2>3. QED
    BY <1>7, <2>1, <2>2
<1> HIDE DEF run
<1>10. QED
  BY <1>2, <1>9 DEF n, base, Y, Step

\* So what systemd reads is the last of them.
LEMMA FileRun ==
  ASSUME dotenv \in Files, Key # {}
  PROVE  \E run \in [0 .. Len(dotenv) -> FileReading] :
           /\ run[0] = NothingOpen /\ NothingOpen \in FileReading
           /\ \A k \in 1 .. Len(dotenv) : run[k] = SystemdLine(run[k - 1], dotenv[k])
           /\ FromSystemd = run[Len(dotenv)].env
<1>1. dotenv \in Seq(Line)
  BY ConfigAssumption
<1>2. NothingOpen \in FileReading
  <2>1. (CHOOSE k \in Key : TRUE) \in Key
    OBVIOUS
  <2>2. NothingRead \in Reading /\ NothingSet \in Environment
    BY DEF NothingRead, Reading, Place, Value, NothingSet, Environment
  <2>3. QED
    BY <2>1, <2>2 DEF NothingOpen, FileReading
<1>3. PICK run \in [0 .. Len(dotenv) -> FileReading] :
        /\ run[0] = NothingOpen
        /\ \A k \in 1 .. Len(dotenv) : run[k] = SystemdLine(run[k - 1], dotenv[k])
        /\ FoldLeft(SystemdLine, NothingOpen, dotenv) = run[Len(dotenv)]
  BY <1>1, <1>2, LineRun
<1>4. QED
  BY <1>2, <1>3 DEF FromSystemd

\* It sets variables to values.
LEMMA SystemdTypes ==
  ASSUME dotenv \in Files
  PROVE  FromSystemd \in Environment
<1>1. Key # {} /\ Len(dotenv) \in Nat
  BY ConfigAssumption, LenProperties DEF Key
<1>2. PICK run \in [0 .. Len(dotenv) -> FileReading] : FromSystemd = run[Len(dotenv)].env
  BY <1>1, FileRun
<1>3. run[Len(dotenv)] \in FileReading
  BY <1>1
<1>4. QED
  BY <1>2, <1>3 DEF FileReading

\* Of a plain file systemd takes for each key what its line says.
LEMMA SystemdReads ==
  ASSUME dotenv \in Files, PlainFile, NEW k \in Key
  PROVE  /\ PairsOf(k) = {} => FromSystemd[k] = Unset
         /\ \A i \in PairsOf(k) : FromSystemd[k] = FileValue(i)
<1> DEFINE n == Len(dotenv)
<1>1. /\ n \in Nat /\ PairsOf(k) \subseteq 1 .. n
      /\ \A i \in 1 .. n : dotenv[i] \in Line
      /\ \A i \in PairsOf(k) : dotenv[i].value \in Seq(Word \cup Mark)
  BY PairLines
<1>2. PICK run \in [0 .. n -> FileReading] :
        /\ run[0] = NothingOpen /\ NothingOpen \in FileReading
        /\ \A j \in 1 .. n : run[j] = SystemdLine(run[j - 1], dotenv[j])
        /\ FromSystemd = run[n].env
  BY FileRun
<1>3. NothingOpen.open = FALSE /\ NothingOpen.env[k] = Unset
  BY DEF NothingOpen, NothingSet
<1>4. ASSUME NEW j \in 1 .. n, run[j - 1].open = FALSE
      PROVE  /\ run[j].open = FALSE
             /\ run[j].env[k] = IF j \in PairsOf(k) THEN FileValue(j)
                                ELSE run[j - 1].env[k]
  <2>1. run[j - 1] \in FileReading /\ dotenv[j] \in Line /\ j \in DOMAIN dotenv
    <3>1. j - 1 \in 0 .. n
      BY <1>1
    <3>2. dotenv \in Seq(Line)
      BY ConfigAssumption
    <3>3. QED
      BY <1>1, <1>2, <3>1, <3>2
  <2> DEFINE read == FoldLeft(SystemdPiece, NothingRead, dotenv[j].value)
             key == dotenv[j].key
  <2>2. IF dotenv[j].kind = "pair"
          THEN /\ run[j].env = [run[j - 1].env EXCEPT ![key] = read.text]
               /\ run[j].open = (read.at \notin {"before", "value"})
          ELSE run[j] = run[j - 1]
    <3>1. run[j] = SystemdLine(run[j - 1], dotenv[j]) /\ ~run[j - 1].open
      BY <1>2, <1>4
    <3> HIDE DEF read, key
    <3>2. ~run[j - 1].open =>
            IF dotenv[j].kind = "pair"
              THEN /\ SystemdLine(run[j - 1], dotenv[j]).env =
                        [run[j - 1].env EXCEPT ![key] = read.text]
                   /\ SystemdLine(run[j - 1], dotenv[j]).open =
                        (read.at \notin {"before", "value"})
              ELSE SystemdLine(run[j - 1], dotenv[j]) = run[j - 1]
      BY <2>1, LineStep DEF read, key
    <3>3. QED
      BY <3>1, <3>2
  <2>3. CASE dotenv[j].kind # "pair"
    BY <1>4, <2>2, <2>3 DEF PairsOf
  <2>4. CASE dotenv[j].kind = "pair"
    <3>1. key \in Key /\ dotenv[j].value \in Seq(Word \cup Mark)
      BY <2>1 DEF Line
    <3>2. j \in PairsOf(key)
      BY <2>1, <2>4 DEF PairsOf
    <3>3. ReadsAlike(dotenv[j].value)
      BY <3>1, <3>2 DEF PlainFile
    <3>4. read.at \in {"before", "value"} /\ read.text = FileValue(j)
      BY <3>1, <3>3, AlikeRead DEF FileValue
    <3>5. j \in PairsOf(k) <=> key = k
      BY <2>1, <2>4 DEF PairsOf
    <3>6. run[j - 1].env \in Environment
      BY <2>1 DEF FileReading
    <3> HIDE DEF read, key
    <3>7. run[j].env[k] = IF key = k THEN FileValue(j) ELSE run[j - 1].env[k]
      BY <2>2, <2>4, <3>1, <3>4, <3>6 DEF Environment
    <3>8. QED
      BY <2>2, <2>4, <3>4, <3>5, <3>7
  <2>5. QED
    BY <2>3, <2>4
<1>5. \A i, j \in PairsOf(k) : i = j
  BY DEF PlainFile, Repeated
<1> DEFINE T == {j \in 0 .. n :
                   /\ run[j].open = FALSE
                   /\ \A i \in PairsOf(k) :
                        run[j].env[k] = IF i <= j THEN FileValue(i) ELSE Unset
                   /\ PairsOf(k) = {} => run[j].env[k] = Unset}
<1>6. 0 \in T
  BY <1>1, <1>2, <1>3
<1>7. ASSUME NEW j \in 1 .. n, j - 1 \in T
      PROVE  j \in T
  <2>1. /\ run[j - 1].open = FALSE /\ j \in 0 .. n
        /\ \A i \in PairsOf(k) :
             run[j - 1].env[k] = IF i <= j - 1 THEN FileValue(i) ELSE Unset
        /\ PairsOf(k) = {} => run[j - 1].env[k] = Unset
    BY <1>1, <1>7
  <2>2. /\ run[j].open = FALSE
        /\ run[j].env[k] = IF j \in PairsOf(k) THEN FileValue(j) ELSE run[j - 1].env[k]
    BY <1>4, <2>1
  <2>3. ASSUME NEW i \in PairsOf(k)
        PROVE  run[j].env[k] = IF i <= j THEN FileValue(i) ELSE Unset
    <3>1. CASE i = j
      BY <1>1, <2>2, <3>1
    <3>2. CASE i # j
      <4>1. j \notin PairsOf(k)
        BY <1>5, <3>2
      <4>2. i <= j <=> i <= j - 1
        BY <1>1, <3>2
      <4>3. QED
        BY <2>1, <2>2, <4>1, <4>2
    <3>3. QED
      BY <3>1, <3>2
  <2>4. QED
    BY <2>1, <2>2, <2>3
<1>8. n \in T
  <2>1. T \in SUBSET (0 .. n)
    OBVIOUS
  <2> HIDE DEF T
  <2>2. T = 0 .. n
    BY <1>1, <1>6, <1>7, <2>1, PrefixInduction
  <2>3. QED
    BY <1>1, <2>2
<1>9. \A i \in PairsOf(k) : i <= n
  BY <1>1
<1>10. QED
  BY <1>2, <1>8, <1>9

------------------------------------------------------------------------------
(* The steps of a start.                                                   *)

\* What depends on the file and the environment alone.
LEMMA SameFile ==
  ASSUME dotenv' = dotenv
  PROVE  /\ FromSystemd' = FromSystemd /\ Repeated' = Repeated
         /\ \A k \in Key : PairsOf(k)' = PairsOf(k)
         /\ PlainFile' = PlainFile /\ \A i : FileValue(i)' = FileValue(i)
         /\ environ' = environ => \A k \in Key : Refused(k)' = Refused(k)
<1>1. \A k \in Key : PairsOf(k)' = PairsOf(k)
  BY DEF PairsOf
<1>2. FromSystemd' = FromSystemd
  BY DEF FromSystemd
<1>3. Repeated' = Repeated
  BY <1>1 DEF Repeated
<1>4. environ' = environ => \A k \in Key : Refused(k)' = Refused(k)
  BY DEF Refused, Missing
<1>5. \A i : FileValue(i)' = FileValue(i)
  BY DEF FileValue
<1>6. PlainFile' = PlainFile
  BY <1>1, <1>3 DEF PlainFile
<1>7. QED
  BY <1>1, <1>2, <1>3, <1>4, <1>5, <1>6

\* A start begins with what systemd read, with nothing or with one variable.
LEMMA BeginKeeps ==
  ASSUME ConfigInv, LoadBegins
  PROVE  ConfigInv'
<1>1. PICK way \in Ways \cup {"exported"}, env \in Environment :
        /\ Begins(way, env)
        /\ way = "systemd" => env = FromSystemd
        /\ way = "shell" => env = NothingSet
  <2>1. NothingSet \in Environment
    BY DEF NothingSet, Environment
  <2>2. FromSystemd \in Environment
    BY SystemdTypes DEF ConfigInv, ConfigTypes
  <2>3. \A k \in Key, v \in {<<>>, <<"better">>, <<"bad">>} :
          [NothingSet EXCEPT ![k] = v] \in Environment
    <3>1. "better" \in Piece /\ "bad" \in Piece
      BY DEF Piece, Word
    <3>2. {<<>>, <<"better">>, <<"bad">>} \subseteq Value
      BY <3>1 DEF Value
    <3>3. QED
      BY <3>2 DEF NothingSet, Environment
  <2>4. CASE Begins("systemd", FromSystemd)
    BY <2>2, <2>4 DEF Ways
  <2>5. CASE Begins("shell", NothingSet)
    BY <2>1, <2>5 DEF Ways
  <2>6. CASE \E env \in Environment : Begins("exported", env)
    <3>1. "exported" \in Ways \cup {"exported"}
      OBVIOUS
    <3>2. QED
      BY <2>6, <3>1
  <2>7. (\E k \in Key, v \in {<<>>, <<"better">>, <<"bad">>} :
           Begins("exported", [NothingSet EXCEPT ![k] = v])) =>
          \E env \in Environment : Begins("exported", env)
    BY <2>3
  <2>8. QED
    BY <2>4, <2>5, <2>6, <2>7 DEF LoadBegins
<1>2. /\ startedBy' = way /\ environ' = env /\ exported' = env
      /\ lineNo' = 1 /\ loading' = "reading"
      /\ dotenv' = dotenv /\ loaded' = loaded
      /\ FromSystemd' = FromSystemd /\ PlainFile' = PlainFile
      /\ \A i : FileValue(i)' = FileValue(i)
      /\ \A k \in Key : PairsOf(k)' = PairsOf(k)
  BY <1>1, SameFile DEF Begins, filesVars
<1>3. dotenv \in Files /\ Len(dotenv) \in Nat /\ DOMAIN loaded = Ways
  BY ConfigAssumption, LenProperties DEF ConfigInv, ConfigTypes
<1>4. ConfigTypes'
  BY <1>1, <1>2, <1>3 DEF ConfigTypes, Past
<1>5. ExportsKept' /\ SystemdKept' /\ OnlyChecked'
  BY <1>1, <1>2 DEF ExportsKept, SystemdKept, OnlyChecked
<1>6. FirstLineWins'
  <2> SUFFICES ASSUME way = "shell", NEW k \in Key
               PROVE  /\ \A i \in PairsOf(k) : ~(i < lineNo')
                      /\ environ'[k] = Unset
    BY <1>2 DEF FirstLineWins
  <2>1. environ'[k] = Unset
    BY <1>1, <1>2 DEF NothingSet
  <2>2. \A i \in PairsOf(k) : ~(i < 1)
    BY <1>3, PairLines
  <2>3. QED
    BY <1>2, <2>1, <2>2
<1>7. LoadedFromFile'
  BY <1>2 DEF LoadedFromFile, ConfigInv
<1>8. QED
  BY <1>4, <1>5, <1>6, <1>7 DEF ConfigInv

\* A line sets its key unless it is set: what was exported, what systemd read and
\* what an earlier line gave stays.
LEMMA ReadPairKeeps ==
  ASSUME ConfigInv, ReadPair
  PROVE  ConfigInv'
<1> DEFINE key == CurrentLine.key
           value == ValueRead
<1>1. /\ loading = "reading" /\ loading' = loading /\ lineNo' = lineNo + 1
      /\ lineNo <= Len(dotenv) /\ CurrentLine.kind = "pair"
      /\ environ' = [environ EXCEPT ![key] = IF environ[key] = Unset THEN value
                                             ELSE environ[key]]
      /\ startedBy' = startedBy /\ exported' = exported
      /\ dotenv' = dotenv /\ loaded' = loaded
      /\ FromSystemd' = FromSystemd /\ PlainFile' = PlainFile
      /\ \A i : FileValue(i)' = FileValue(i)
      /\ \A k \in Key : PairsOf(k)' = PairsOf(k)
  BY SameFile DEF ReadPair, filesVars
<1>2. /\ dotenv \in Files /\ Len(dotenv) \in Nat /\ lineNo \in 1 .. Len(dotenv)
      /\ environ \in Environment /\ DOMAIN dotenv = 1 .. Len(dotenv)
  <2>1. dotenv \in Files /\ environ \in Environment /\ lineNo \in 1 .. Len(dotenv) + 1
    BY <1>1 DEF ConfigInv, ConfigTypes
  <2>2. dotenv \in Seq(Line)
    BY <2>1, ConfigAssumption
  <2>3. QED
    BY <1>1, <2>1, <2>2, LenProperties
<1>3. /\ key \in Key /\ lineNo \in PairsOf(key) /\ value = FileValue(lineNo)
      /\ value \in Value \ {Unset}
  <2>1. CurrentLine \in Line
    <3>1. dotenv \in Seq(Line)
      BY <1>2, ConfigAssumption
    <3>2. QED
      BY <1>2, <3>1, ElementOfSeq DEF CurrentLine
  <2>2. key \in Key
    BY <2>1 DEF Line
  <2>3. lineNo \in PairsOf(key) /\ value = FileValue(lineNo)
    BY <1>1, <1>2 DEF PairsOf, CurrentLine, ValueRead, FileValue
  <2>4. QED
    BY <1>2, <2>2, <2>3, PairLines
<1> HIDE DEF key, value
<1>4. /\ \A k \in Key : environ[k] # Unset => environ'[k] = environ[k]
      /\ environ[key] = Unset => environ'[key] = value
      /\ \A k \in Key \ {key} : environ'[k] = environ[k]
      /\ environ' \in Environment
  BY <1>1, <1>2, <1>3 DEF Environment
<1>5. ConfigTypes'
  BY <1>1, <1>2, <1>4 DEF ConfigInv, ConfigTypes, Past
<1>6. ExportsKept'
  BY <1>1, <1>4 DEF ConfigInv, ExportsKept
<1>7. SystemdKept'
  <2> SUFFICES ASSUME PlainFile, startedBy = "systemd"
               PROVE  environ' = FromSystemd
    BY <1>1 DEF SystemdKept
  <2>1. environ = FromSystemd
    BY <1>1 DEF ConfigInv, SystemdKept
  <2>2. FromSystemd[key] # Unset
    BY <1>2, <1>3, SystemdReads, PairLines
  <2>3. \A k \in Key : environ'[k] = environ[k]
    BY <1>3, <1>4, <2>1, <2>2
  <2>4. QED
    BY <1>2, <1>4, <2>1, <2>3 DEF Environment
<1>8. FirstLineWins'
  <2> SUFFICES ASSUME startedBy = "shell", NEW k \in Key
               PROVE  /\ \A i \in PairsOf(k) :
                           (i < lineNo + 1 /\ \A j \in PairsOf(k) : i <= j) =>
                             environ'[k] = FileValue(i)
                      /\ environ'[k] # Unset => \E i \in PairsOf(k) : i < lineNo + 1
    BY <1>1 DEF FirstLineWins
  <2>1. /\ \A i \in PairsOf(k) :
             (i < lineNo /\ \A j \in PairsOf(k) : i <= j) => environ[k] = FileValue(i)
        /\ environ[k] # Unset => \E i \in PairsOf(k) : i < lineNo
    BY <1>1 DEF ConfigInv, FirstLineWins
  <2>2. PairsOf(k) \subseteq Nat /\ \A i \in PairsOf(k) : FileValue(i) # Unset
    BY <1>2, PairLines
  <2>3. lineNo \in PairsOf(k) => k = key
    BY <1>3 DEF PairsOf, key, CurrentLine
  <2>4. environ'[k] # Unset => \E i \in PairsOf(k) : i < lineNo + 1
    BY <1>2, <1>3, <1>4, <2>1, <2>2
  <2>5. ASSUME NEW i \in PairsOf(k), i < lineNo + 1, \A j \in PairsOf(k) : i <= j
        PROVE  environ'[k] = FileValue(i)
    <3>1. CASE environ[k] # Unset
      <4>1. i < lineNo
        BY <1>2, <2>1, <2>2, <2>5, <3>1
      <4>2. QED
        BY <1>4, <2>1, <2>5, <3>1, <4>1
    <3>2. CASE environ[k] = Unset
      <4>1. i = lineNo
        BY <1>2, <2>1, <2>2, <2>5, <3>2
      <4>2. QED
        BY <1>3, <1>4, <2>3, <3>2, <4>1
    <3>3. QED
      BY <3>1, <3>2
  <2>6. QED
    BY <2>4, <2>5
<1>9. OnlyChecked' /\ LoadedFromFile'
  BY <1>1 DEF ConfigInv, OnlyChecked, LoadedFromFile
<1>10. QED
  BY <1>5, <1>6, <1>7, <1>8, <1>9 DEF ConfigInv

\* A line without a key only counts.
LEMMA ReadCommentKeeps ==
  ASSUME ConfigInv, ReadComment
  PROVE  ConfigInv'
<1>1. /\ loading = "reading" /\ loading' = loading /\ lineNo' = lineNo + 1
      /\ lineNo <= Len(dotenv) /\ CurrentLine.kind = "comment"
      /\ environ' = environ /\ startedBy' = startedBy /\ exported' = exported
      /\ dotenv' = dotenv /\ loaded' = loaded
      /\ FromSystemd' = FromSystemd /\ PlainFile' = PlainFile
      /\ \A i : FileValue(i)' = FileValue(i)
      /\ \A k \in Key : PairsOf(k)' = PairsOf(k)
  BY SameFile DEF ReadComment, filesVars
<1>2. dotenv \in Files /\ Len(dotenv) \in Nat /\ lineNo \in 1 .. Len(dotenv) + 1
  BY <1>1, ConfigAssumption, LenProperties DEF ConfigInv, ConfigTypes
<1>3. ConfigTypes'
  BY <1>1, <1>2 DEF ConfigInv, ConfigTypes, Past
<1>4. ExportsKept' /\ SystemdKept' /\ OnlyChecked' /\ LoadedFromFile'
  BY <1>1 DEF ConfigInv, ExportsKept, SystemdKept, OnlyChecked, LoadedFromFile
<1>5. FirstLineWins'
  <2> SUFFICES ASSUME startedBy = "shell", NEW k \in Key
               PROVE  /\ \A i \in PairsOf(k) :
                           (i < lineNo + 1 /\ \A j \in PairsOf(k) : i <= j) =>
                             environ[k] = FileValue(i)
                      /\ environ[k] # Unset => \E i \in PairsOf(k) : i < lineNo + 1
    BY <1>1 DEF FirstLineWins
  <2>1. /\ \A i \in PairsOf(k) :
             (i < lineNo /\ \A j \in PairsOf(k) : i <= j) => environ[k] = FileValue(i)
        /\ environ[k] # Unset => \E i \in PairsOf(k) : i < lineNo
    BY <1>1 DEF ConfigInv, FirstLineWins
  <2>2. PairsOf(k) \subseteq Nat /\ lineNo \notin PairsOf(k)
    BY <1>1, <1>2, PairLines DEF PairsOf, CurrentLine
  <2>3. \A i \in PairsOf(k) : i < lineNo + 1 <=> i < lineNo
    BY <1>2, <2>2
  <2>4. QED
    BY <2>1, <2>3
<1>6. QED
  BY <1>3, <1>4, <1>5 DEF ConfigInv

\* The end of the file, its errors and the checks.
LEMMA StagesKeep ==
  ASSUME ConfigInv, ReadEnds \/ CheckAll
  PROVE  ConfigInv'
<1>1. /\ environ' = environ /\ startedBy' = startedBy /\ exported' = exported
      /\ lineNo' = lineNo /\ loading # "stopped"
      /\ dotenv' = dotenv /\ loaded' = loaded
      /\ FromSystemd' = FromSystemd /\ PlainFile' = PlainFile
      /\ \A i : FileValue(i)' = FileValue(i)
      /\ \A k \in Key : PairsOf(k)' = PairsOf(k)
      /\ \A k \in Key : Refused(k)' = Refused(k)
  BY SameFile DEF ReadEnds, CheckAll, Leaves, filesVars
<1>2. \/ loading = "reading" /\ lineNo > Len(dotenv) /\ loading' = "checking"
      \/ loading' = "stopped"
      \/ loading = "checking" /\ loading' = "syncing" /\ \A k \in Key : ~Refused(k)
  BY DEF ReadEnds, CheckAll, Leaves
<1>3. dotenv \in Files /\ Len(dotenv) \in Nat
  BY ConfigAssumption, LenProperties DEF ConfigInv, ConfigTypes
<1>4. ConfigTypes'
  <2>1. loading' \in Past => lineNo = Len(dotenv) + 1
    BY <1>2, <1>3 DEF ConfigInv, ConfigTypes, Past
  <2>2. loading' # "reading" /\ loading' \in {"stopped", "reading"} \cup Past
    BY <1>2 DEF Past
  <2>3. QED
    BY <1>1, <2>1, <2>2 DEF ConfigInv, ConfigTypes
<1>5. ExportsKept' /\ SystemdKept' /\ FirstLineWins' /\ LoadedFromFile'
  BY <1>1 DEF ConfigInv, ExportsKept, SystemdKept, FirstLineWins, LoadedFromFile
<1>6. OnlyChecked'
  BY <1>1, <1>2 DEF OnlyChecked
<1>7. QED
  BY <1>4, <1>5, <1>6 DEF ConfigInv

\* Both ways of reading a plain .env end in the value of a key's only line.
LEMMA EitherWay ==
  ASSUME ConfigInv, PlainFile, startedBy \in Ways, loading \in Past
  PROVE  environ = FromSystemd
<1>1. CASE startedBy = "systemd"
  BY <1>1 DEF ConfigInv, SystemdKept, Past
<1>2. CASE startedBy = "shell"
  <2>1. dotenv \in Files /\ lineNo = Len(dotenv) + 1 /\ environ \in Environment
    BY DEF ConfigInv, ConfigTypes
  <2>2. ASSUME NEW k \in Key
        PROVE  environ[k] = FromSystemd[k]
    <3>1. /\ \A i \in PairsOf(k) :
               (i < lineNo /\ \A j \in PairsOf(k) : i <= j) =>
                 environ[k] = FileValue(i)
          /\ environ[k] # Unset => \E i \in PairsOf(k) : i < lineNo
      BY <1>2 DEF ConfigInv, FirstLineWins, Past
    <3>2. PairsOf(k) \subseteq 1 .. Len(dotenv) /\ Len(dotenv) \in Nat
      BY <2>1, PairLines
    <3>3. CASE PairsOf(k) = {}
      BY <2>1, <3>1, <3>3, SystemdReads
    <3>4. CASE PairsOf(k) # {}
      <4>1. PICK i \in PairsOf(k) : FromSystemd[k] = FileValue(i)
        BY <2>1, <3>4, SystemdReads
      <4>2. \A j \in PairsOf(k) : j = i
        BY DEF PlainFile, Repeated
      <4>3. i < lineNo /\ \A j \in PairsOf(k) : i <= j
        BY <2>1, <3>2, <4>2
      <4>4. QED
        BY <3>1, <4>1, <4>3
    <3>5. QED
      BY <3>3, <3>4
  <2>3. FromSystemd \in Environment
    BY <2>1, SystemdTypes
  <2>4. QED
    BY <2>1, <2>2, <2>3 DEF Environment
<1>3. QED
  BY <1>1, <1>2 DEF Ways

\* A Config is what was checked, with the defaults filled in.
LEMMA SyncKeeps ==
  ASSUME ConfigInv, SyncHostname
  PROVE  ConfigInv'
<1>1. /\ environ' = environ /\ startedBy' = startedBy /\ exported' = exported
      /\ lineNo' = lineNo /\ loading = "syncing" /\ loading' \in {"stopped", "running"}
      /\ dotenv' = dotenv
      /\ FromSystemd' = FromSystemd /\ PlainFile' = PlainFile
      /\ \A i : FileValue(i)' = FileValue(i)
      /\ \A k \in Key : PairsOf(k)' = PairsOf(k)
      /\ \A k \in Key : Refused(k)' = Refused(k)
  BY SameFile DEF SyncHostname, filesVars
<1>2. /\ loading' = "running" => settings' = [k \in Key |-> Setting(environ[k])]
      /\ \/ loaded' = loaded
         \/ /\ startedBy \in Ways
            /\ loaded' = [loaded EXCEPT ![startedBy] = [k \in Key |-> Setting(environ[k])]]
  BY DEF SyncHostname, Missing, Setting
<1>3. ConfigTypes' /\ ExportsKept' /\ SystemdKept' /\ FirstLineWins'
  BY <1>1, <1>2 DEF ConfigInv, ConfigTypes, ExportsKept, SystemdKept, FirstLineWins, Past
<1>4. OnlyChecked'
  BY <1>1, <1>2 DEF ConfigInv, OnlyChecked
<1>5. LoadedFromFile'
  <2>1. (PlainFile /\ startedBy \in Ways) => environ = FromSystemd
    BY <1>1, EitherWay DEF Past
  <2>2. DOMAIN loaded = Ways
    BY DEF ConfigInv, ConfigTypes
  <2>3. QED
    BY <1>1, <1>2, <2>1, <2>2 DEF ConfigInv, LoadedFromFile
<1>6. QED
  BY <1>3, <1>4, <1>5 DEF ConfigInv

\* The process ends, and files are edited while it is down.
LEMMA AdministratorKeeps ==
  ASSUME ConfigInv, ProcessEnds \/ Edit
  PROVE  ConfigInv'
<1>1. CASE ProcessEnds
  <2>1. /\ environ' = environ /\ exported' = exported /\ startedBy' = startedBy
        /\ loading' = "stopped" /\ dotenv' = dotenv /\ loaded' = loaded
        /\ FromSystemd' = FromSystemd /\ PlainFile' = PlainFile
        /\ \A i : FileValue(i)' = FileValue(i)
    BY <1>1, SameFile DEF ProcessEnds, filesVars
  <2>2. QED
    BY <2>1 DEF ConfigInv, ConfigTypes, ExportsKept, SystemdKept, FirstLineWins,
       OnlyChecked, LoadedFromFile, Past
<1>2. CASE Edit
  <2>1. /\ environ' = NothingSet /\ exported' = NothingSet /\ startedBy' = startedBy
        /\ loading' = "stopped" /\ dotenv' \in Files
        /\ loaded' = [w \in Ways |-> Unset]
    BY <1>2 DEF Edit
  <2>2. NothingSet \in Environment
    BY DEF NothingSet, Environment
  <2>3. QED
    BY <2>1, <2>2 DEF ConfigInv, ConfigTypes, ExportsKept, SystemdKept, FirstLineWins,
       OnlyChecked, LoadedFromFile, Past
<1>3. QED
  BY <1>1, <1>2

\* The panel starts with the configuration it has to, however often it starts and
\* whatever is edited in between.
THEOREM ConfigInvariant == ConfigSpec => []ConfigInv
<1>1. ConfigInit => ConfigInv
  <2> SUFFICES ASSUME ConfigInit
               PROVE  ConfigInv
    OBVIOUS
  <2>1. NothingSet \in Environment
    BY DEF NothingSet, Environment
  <2>2. QED
    BY <2>1 DEF ConfigInit, ConfigInv, ConfigTypes, ExportsKept, SystemdKept,
       FirstLineWins, OnlyChecked, LoadedFromFile, Past, Ways
<1>2. ConfigInv /\ [ConfigNext]_configVars => ConfigInv'
  <2> SUFFICES ASSUME ConfigInv, [ConfigNext]_configVars
               PROVE  ConfigInv'
    OBVIOUS
  <2>1. CASE UNCHANGED configVars
    <3>1. /\ FromSystemd' = FromSystemd /\ PlainFile' = PlainFile
          /\ \A i : FileValue(i)' = FileValue(i)
          /\ \A k \in Key : PairsOf(k)' = PairsOf(k)
          /\ \A k \in Key : Refused(k)' = Refused(k)
          /\ environ' = environ /\ exported' = exported /\ startedBy' = startedBy
          /\ loading' = loading /\ dotenv' = dotenv /\ loaded' = loaded
          /\ lineNo' = lineNo /\ settings' = settings
      BY <2>1, SameFile DEF configVars, filesVars, loadVars
    <3>2. QED
      BY <3>1 DEF ConfigInv, ConfigTypes, ExportsKept, SystemdKept, FirstLineWins,
         OnlyChecked, LoadedFromFile
  <2>2. QED
    BY <2>1, BeginKeeps, ReadPairKeeps, ReadCommentKeeps, StagesKeep, SyncKeeps,
       AdministratorKeeps DEF ConfigNext
<1>3. QED
  BY <1>1, <1>2, PTL DEF ConfigSpec

\* The process's environment overrides .env for every key and every file, also
\* where a key has several lines or is exported blank.
THEOREM EnvironmentOverrides == ConfigSpec => []EnvironmentWins
<1>1. ConfigInv => EnvironmentWins
  BY DEF ConfigInv, ExportsKept, OnlyChecked, Setting, EnvironmentWins
<1>2. QED
  BY <1>1, ConfigInvariant, PTL

\* Started by hand or by systemd the panel has the same settings, for every file
\* that gives no key twice and no value quotes or backslashes that systemd reads
\* otherwise: to it they may change the value or join the next line, to loadDotEnv a
\* pair of quotes around the value is all they are.
THEOREM ReadersAgree == ConfigSpec => []SameEitherWay
<1>1. ConfigInv => SameEitherWay
  BY DEF ConfigInv, LoadedFromFile, SameEitherWay, PlainFile, Ways
<1>2. QED
  BY <1>1, ConfigInvariant, PTL

\* A running panel has a usable value for every key it requires.
THEOREM ConfigTyped == ConfigSpec => []ConfigTypeOK
<1>1. ConfigInv => ConfigTypeOK
  BY DEF ConfigInv, ConfigTypes, OnlyChecked, Setting, Refused, Missing, Environment,
     Value, Key, ConfigTypeOK
<1>2. QED
  BY <1>1, ConfigInvariant, PTL

------------------------------------------------------------------------------
(* The installer.                                                          *)

Carries(file, token) == [part |-> "route", token |-> token] \in ToSet(file)

Serving == {"binary", "script", "sudoers", "env", "unit", "start"}

InstallRun ==
  [at : InstallStep, dir : Dir \cup {Nothing}, token : 0 .. MaxInstalls,
   saved : Seq(CaddyLine), patched : Seq(CaddyLine)]

InstallTypes ==
  /\ InstallTypeOK
  /\ install \in InstallRun
  /\ installs \in 0 .. MaxInstalls /\ mishaps \in Nat /\ enabled \in BOOLEAN
  /\ install.at # "none" => install.dir \in Dir /\ install.token \in 1 .. installs
  /\ enabled => unit \in Dir

\* The panel's path is in the file from the patch on, which restarts with a file
\* that was validated, and in what Caddy serves after it.
RouteFollows ==
  /\ install.at \in {"validate", "copy"} => Carries(install.patched, install.token)
  /\ install.at = "copy" => Valid(install.patched)
  /\ install.at = "restart" => Valid(caddyfile) /\ Carries(caddyfile, install.token)
  /\ install.at \in Serving =>
       /\ Carries(caddyfile, install.token)
       /\ caddy # Nothing => Carries(caddy, install.token)

\* The steps that are done have written the directory and the token of the run.
FilesFollow ==
  /\ install.at \in {"sudoers", "env", "unit", "start"} => applyEnv = install.dir
  /\ install.at \in {"env", "unit", "start"} => grant = install.dir
  /\ install.at \in {"unit", "start"} => dotenvs[install.dir] = install.token
  /\ install.at = "start" => unit = install.dir

\* What a run that succeeded leaves until the next one or an edit.
InstalledHolds ==
  (outcome = "ok" /\ install.at = "none") =>
    /\ enabled /\ dotenvs[unit] # Nothing /\ panel = Started
    /\ applyEnv = unit /\ grant = unit
    /\ Carries(caddyfile, dotenvs[unit])
    /\ caddy # Nothing => Carries(caddy, dotenvs[unit])

\* Only what is counted brings Caddy down.
DownIsCounted ==
  /\ CaddyStaysUp
  /\ install.at \in {"restore", "again"} => mishaps > 0

\* The inductive invariant.
InstallInv ==
  InstallTypes /\ RouteFollows /\ FilesFollow /\ InstalledHolds /\ DownIsCounted

------------------------------------------------------------------------------
(* The patch.                                                              *)

UpdateState == [lines : Seq(CaddyLine), skip : BOOLEAN]

FreshState == [lines : Seq(CaddyLine), depth : Int]

\* What the awk programs do with a line.
UpdateAwk(st, line, token) ==
  CASE line.part = "begin" ->
         [lines |-> st.lines \o ManagedBlock(token), skip |-> TRUE]
    [] line.part = "end" -> [st EXCEPT !.skip = FALSE]
    [] OTHER ->
         [st EXCEPT !.lines = IF st.skip THEN @ ELSE Append(@, line)]

FreshAwk(st, line, token) ==
  CASE st.depth = 0 /\ line.part = "proxy" ->
         [lines |-> st.lines \o ManagedBlock(token) \o <<L("wrap"), line>>,
          depth |-> 1]
    [] st.depth # 0 /\ st.depth + Nesting(line) = 0 ->
         [lines |-> st.lines \o <<line, L("close")>>, depth |-> 0]
    [] st.depth # 0 /\ st.depth + Nesting(line) # 0 ->
         [lines |-> Append(st.lines, line),
          depth |-> st.depth + Nesting(line)]
    [] OTHER -> [st EXCEPT !.lines = Append(@, line)]

\* The lines of a block are lines of the file.
LEMMA BlockLines ==
  ASSUME NEW token \in 0 .. MaxInstalls
  PROVE  /\ ManagedBlock(token) \in Seq(CaddyLine)
         /\ Carries(ManagedBlock(token), token)
         /\ \A line \in CaddyLine : /\ <<L("wrap"), line>> \in Seq(CaddyLine)
                                    /\ <<line, L("close")>> \in Seq(CaddyLine)
                                    /\ Nesting(line) \in Int
<1>1. \A part \in Part : L(part) \in CaddyLine
  BY InstallAssumption DEF L, CaddyLine
<1>2. [part |-> "route", token |-> token] \in CaddyLine
  BY DEF CaddyLine, Part
<1>3. ManagedBlock(token) \in Seq(CaddyLine)
  BY <1>1, <1>2 DEF ManagedBlock, Part
<1>4. Carries(ManagedBlock(token), token)
  <2>1. 2 \in DOMAIN ManagedBlock(token)
    BY DEF ManagedBlock
  <2>2. ManagedBlock(token)[2] = [part |-> "route", token |-> token]
    BY DEF ManagedBlock
  <2>3. QED
    BY <2>1, <2>2 DEF Carries, ToSet
<1>5. \A line \in CaddyLine : /\ <<L("wrap"), line>> \in Seq(CaddyLine)
                              /\ <<line, L("close")>> \in Seq(CaddyLine)
  BY <1>1 DEF Part
<1>6. \A line \in CaddyLine : Nesting(line) \in Int
  BY DEF Nesting
<1>7. QED
  BY <1>3, <1>4, <1>5, <1>6

\* Nothing is lost when lines are added.
LEMMA AddedLines ==
  ASSUME NEW s \in Seq(CaddyLine), NEW t \in Seq(CaddyLine), NEW token
  PROVE  /\ s \o t \in Seq(CaddyLine)
         /\ Carries(s, token) \/ Carries(t, token) => Carries(s \o t, token)
<1>1. /\ s \o t \in Seq(CaddyLine) /\ Len(s) \in Nat /\ Len(t) \in Nat
      /\ Len(s \o t) = Len(s) + Len(t)
      /\ \A i \in 1 .. Len(s) : (s \o t)[i] = s[i]
      /\ \A i \in 1 .. Len(t) : (s \o t)[Len(s) + i] = t[i]
      /\ DOMAIN s = 1 .. Len(s) /\ DOMAIN t = 1 .. Len(t)
      /\ DOMAIN (s \o t) = 1 .. Len(s \o t)
  BY ConcatProperties, LenProperties
<1> DEFINE u == s \o t
<1>2. \A i \in DOMAIN s : i \in DOMAIN u /\ u[i] = s[i]
  BY <1>1
<1>3. \A i \in DOMAIN t : Len(s) + i \in DOMAIN u /\ u[Len(s) + i] = t[i]
  BY <1>1
<1> HIDE DEF u
<1>4. Carries(s, token) \/ Carries(t, token) => Carries(u, token)
  BY <1>2, <1>3 DEF Carries, ToSet
<1>5. QED
  BY <1>1, <1>4 DEF u

\* A line keeps the route once it is there, and a begin marker brings it.
LEMMA UpdateStep ==
  ASSUME NEW st \in UpdateState, NEW line \in CaddyLine, NEW token \in 0 .. MaxInstalls
  PROVE  /\ UpdateAwk(st, line, token) \in UpdateState
         /\ Carries(st.lines, token) \/ line.part = "begin" =>
              Carries(UpdateAwk(st, line, token).lines, token)
<1>1. st.lines \in Seq(CaddyLine) /\ st.skip \in BOOLEAN
  BY DEF UpdateState
<1>2. CASE line.part = "begin"
  <2>1. UpdateAwk(st, line, token) =
          [lines |-> st.lines \o ManagedBlock(token), skip |-> TRUE]
    BY <1>2 DEF UpdateAwk
  <2>2. /\ st.lines \o ManagedBlock(token) \in Seq(CaddyLine)
        /\ Carries(st.lines \o ManagedBlock(token), token)
    BY <1>1, BlockLines, AddedLines
  <2>3. QED
    BY <2>1, <2>2 DEF UpdateState
<1>3. CASE line.part = "end"
  <2>1. UpdateAwk(st, line, token) = [st EXCEPT !.skip = FALSE]
    BY <1>3 DEF UpdateAwk
  <2>2. QED
    BY <1>3, <2>1 DEF UpdateState
<1>4. CASE line.part \notin {"begin", "end"}
  <2> DEFINE ls == IF st.skip THEN st.lines ELSE Append(st.lines, line)
  <2>1. UpdateAwk(st, line, token) = [st EXCEPT !.lines = ls]
    BY <1>4 DEF UpdateAwk
  <2>2. Append(st.lines, line) = st.lines \o <<line>> /\ <<line>> \in Seq(CaddyLine)
    BY <1>1, AppendIsConcat
  <2>3. ls \in Seq(CaddyLine) /\ (Carries(st.lines, token) => Carries(ls, token))
    BY <1>1, <2>2, AddedLines
  <2> HIDE DEF ls
  <2>4. [st EXCEPT !.lines = ls] \in UpdateState /\ [st EXCEPT !.lines = ls].lines = ls
    BY <2>3 DEF UpdateState
  <2>5. QED
    BY <1>4, <2>1, <2>3, <2>4
<1>5. QED
  BY <1>2, <1>3, <1>4

\* The same of the first patch, where the first reverse_proxy brings the route: up
\* to there no brace is counted.
LEMMA FreshStep ==
  ASSUME NEW st \in FreshState, NEW line \in CaddyLine, NEW token \in 0 .. MaxInstalls
  PROVE  /\ FreshAwk(st, line, token) \in FreshState
         /\ (st.depth # 0 => Carries(st.lines, token)) =>
              ( \/ Carries(st.lines, token) \/ line.part = "proxy"
                \/ FreshAwk(st, line, token).depth # 0
                => Carries(FreshAwk(st, line, token).lines, token) )
<1> DEFINE new == FreshAwk(st, line, token)
<1>1. st.lines \in Seq(CaddyLine) /\ st.depth \in Int /\ Nesting(line) \in Int
  BY BlockLines DEF FreshState
<1>2. /\ <<L("wrap"), line>> \in Seq(CaddyLine) /\ <<line, L("close")>> \in Seq(CaddyLine)
      /\ ManagedBlock(token) \in Seq(CaddyLine) /\ Carries(ManagedBlock(token), token)
      /\ Append(st.lines, line) = st.lines \o <<line>> /\ <<line>> \in Seq(CaddyLine)
  BY <1>1, BlockLines, AppendIsConcat
<1>3. CASE st.depth = 0 /\ line.part = "proxy"
  <2> DEFINE ls == st.lines \o ManagedBlock(token)
  <2>1. new = [lines |-> ls \o <<L("wrap"), line>>, depth |-> 1]
    BY <1>3 DEF FreshAwk
  <2>2. ls \in Seq(CaddyLine) /\ Carries(ls, token)
    BY <1>1, <1>2, AddedLines
  <2> HIDE DEF ls
  <2>3. /\ ls \o <<L("wrap"), line>> \in Seq(CaddyLine)
        /\ Carries(ls \o <<L("wrap"), line>>, token)
    BY <1>2, <2>2, AddedLines
  <2>4. QED
    BY <2>1, <2>3 DEF FreshState
<1>4. CASE st.depth # 0 /\ st.depth + Nesting(line) = 0
  <2>1. new = [lines |-> st.lines \o <<line, L("close")>>, depth |-> 0]
    BY <1>4 DEF FreshAwk
  <2>2. /\ st.lines \o <<line, L("close")>> \in Seq(CaddyLine)
        /\ Carries(st.lines, token) =>
             Carries(st.lines \o <<line, L("close")>>, token)
    BY <1>1, <1>2, AddedLines
  <2>3. QED
    BY <1>4, <2>1, <2>2 DEF FreshState
<1>5. CASE st.depth # 0 /\ st.depth + Nesting(line) # 0
  <2>1. new = [lines |-> Append(st.lines, line), depth |-> st.depth + Nesting(line)]
    BY <1>5 DEF FreshAwk
  <2>2. /\ Append(st.lines, line) \in Seq(CaddyLine)
        /\ Carries(st.lines, token) => Carries(Append(st.lines, line), token)
    BY <1>1, <1>2, AddedLines
  <2>3. QED
    BY <1>1, <1>5, <2>1, <2>2 DEF FreshState
<1>6. CASE st.depth = 0 /\ line.part # "proxy"
  <2>1. new = [st EXCEPT !.lines = Append(@, line)]
    BY <1>6 DEF FreshAwk
  <2>2. /\ Append(st.lines, line) \in Seq(CaddyLine)
        /\ Carries(st.lines, token) => Carries(Append(st.lines, line), token)
    BY <1>1, <1>2, AddedLines
  <2>3. /\ new \in FreshState /\ new.lines = Append(st.lines, line)
        /\ new.depth = st.depth
    BY <1>1, <2>1, <2>2 DEF FreshState
  <2>4. QED
    BY <1>6, <2>2, <2>3
<1>7. QED
  BY <1>3, <1>4, <1>5, <1>6


\* The state of each program after a file.
UpdateEnd(file, token) ==
  FoldLeft(LAMBDA st, line : UpdateAwk(st, line, token),
           [lines |-> <<>>, skip |-> FALSE], file)

FreshEnd(file, token) ==
  FoldLeft(LAMBDA st, line : FreshAwk(st, line, token),
           [lines |-> <<>>, depth |-> 0], file)

\* The fold of the second patch goes through states.
LEMMA UpdateRun ==
  ASSUME NEW file \in Seq(CaddyLine), NEW token \in 0 .. MaxInstalls
  PROVE  \E run \in [0 .. Len(file) -> UpdateState] :
           /\ run[0] = [lines |-> <<>>, skip |-> FALSE]
           /\ \A k \in 1 .. Len(file) :
                run[k] = UpdateAwk(run[k - 1], file[k], token)
           /\ UpdateEnd(file, token) = run[Len(file)]
<1> DEFINE n == Len(file)
           base == [lines |-> <<>>, skip |-> FALSE]
           Y == UpdateState
           Step(st, i) == UpdateAwk(st, file[i], token)
           Folds(f) == f = [s \in SUBSET DOMAIN file |->
                              IF s = {} THEN base
                              ELSE Step(f[s \ {Max(s)}], Max(s))]
           fold == CHOOSE f : Folds(f)
<1>1. n \in Nat /\ DOMAIN file = 1 .. n /\ \A i \in 1 .. n : file[i] \in CaddyLine
  BY LenProperties, ElementOfSeq
<1>2. UpdateEnd(file, token) = fold[1 .. n]
  <2>1. UpdateEnd(file, token) = fold[DOMAIN file]
    BY DEF UpdateEnd, FoldLeft, MapThenFoldSet
  <2>2. QED
    BY <1>1, <2>1
<1>3. base \in Y
  BY EmptySeq DEF UpdateState
<1>4. \A st \in Y, i \in 1 .. n : Step(st, i) \in Y
  BY <1>1, UpdateStep
<1> HIDE DEF base, Y, n, Step
<1>5. \E f : Folds(f)
  <2> DEFINE G == [p \in Y \X (1 .. n) |-> Step(p[1], p[2])]
  <2>1. G \in [Y \X (1 .. n) -> Y]
    BY <1>4
  <2>2. \A st \in Y, i \in 1 .. n : G[<<st, i>>] = Step(st, i)
    OBVIOUS
  <2> HIDE DEF G
  <2>3. PICK f \in [SUBSET (1 .. n) -> Y] : FoldsBy(f, n, base, G)
    BY <1>1, <1>3, <2>1, FoldExists
  <2>4. ASSUME NEW s \in SUBSET (1 .. n), s # {}
        PROVE  f[s] = Step(f[s \ {Max(s)}], Max(s))
    <3>1. Max(s) \in 1 .. n
      BY <1>1, <2>4, MaxIsGreatest
    <3>2. f[s \ {Max(s)}] \in Y
      BY <2>3
    <3>3. QED
      BY <2>2, <2>3, <2>4, <3>1, <3>2 DEF FoldsBy
  <2>5. f = [s \in SUBSET (1 .. n) |->
               IF s = {} THEN base ELSE Step(f[s \ {Max(s)}], Max(s))]
    BY <2>3, <2>4 DEF FoldsBy
  <2>6. QED
    BY <1>1, <2>5
<1>6. fold = [s \in SUBSET (1 .. n) |->
                IF s = {} THEN base ELSE Step(fold[s \ {Max(s)}], Max(s))]
  <2>1. Folds(fold)
    <3> HIDE DEF Folds
    <3>1. QED
      BY <1>5
  <2>2. QED
    BY <1>1, <2>1
<1> HIDE DEF fold
<1>7. /\ fold[1 .. 0] = base
      /\ \A k \in 1 .. n : fold[1 .. k] = Step(fold[1 .. k - 1], k)
  <2>1. fold[{}] = base
    BY <1>6
  <2>2. \A s \in SUBSET (1 .. n) :
          s # {} => fold[s] = Step(fold[s \ {Max(s)}], Max(s))
    BY <1>6
  <2>3. \A k \in 1 .. n : fold[1 .. k] = Step(fold[1 .. k - 1], k)
    BY <1>1, <2>2, PrefixTop
  <2>4. QED
    BY <2>1, <2>3, 1 .. 0 = {}
<1> DEFINE T == {k \in 0 .. n : fold[1 .. k] \in Y}
           run == [k \in 0 .. n |-> fold[1 .. k]]
<1>8. T = 0 .. n
  <2>1. T \in SUBSET (0 .. n) /\ 0 \in T
    BY <1>1, <1>3, <1>7
  <2>2. \A k \in 1 .. n : k - 1 \in T => k \in T
    BY <1>1, <1>4, <1>7
  <2> HIDE DEF T
  <2>3. QED
    BY <1>1, <2>1, <2>2, PrefixInduction
<1>9. /\ run \in [0 .. n -> Y] /\ run[0] = base /\ run[n] = fold[1 .. n]
      /\ \A k \in 1 .. n : run[k] = Step(run[k - 1], k)
  <2>1. run \in [0 .. n -> Y]
    BY <1>8
  <2>2. 0 \in 0 .. n /\ n \in 0 .. n /\ \A k \in 1 .. n : k \in 0 .. n /\ k - 1 \in 0 .. n
    BY <1>1
  <2>3. QED
    BY <1>7, <2>1, <2>2
<1> HIDE DEF run
<1>10. QED
  BY <1>2, <1>9 DEF n, base, Y, Step

\* Line by line.
LEMMA UpdateAppends ==
  ASSUME NEW s \in Seq(CaddyLine), NEW line \in CaddyLine,
         NEW token \in 0 .. MaxInstalls
  PROVE  /\ UpdateEnd(<<>>, token) = [lines |-> <<>>, skip |-> FALSE]
         /\ UpdateEnd(s, token) \in UpdateState
         /\ UpdateEnd(Append(s, line), token) =
              UpdateAwk(UpdateEnd(s, token), line, token)
<1> DEFINE n == Len(s)
           t == Append(s, line)
<1>1. /\ n \in Nat /\ t \in Seq(CaddyLine) /\ Len(t) = n + 1 /\ t[n + 1] = line
      /\ \A k \in 1 .. n : t[k] = s[k]
      /\ <<>> \in Seq(CaddyLine) /\ Len(<<>>) = 0
  BY AppendProperties, LenProperties, EmptySeq
<1>2. UpdateEnd(<<>>, token) = [lines |-> <<>>, skip |-> FALSE]
  <2>1. PICK run \in [0 .. Len(<<>>) -> UpdateState] :
           run[0] = [lines |-> <<>>, skip |-> FALSE] /\ UpdateEnd(<<>>, token) = run[Len(<<>>)]
    BY <1>1, UpdateRun
  <2>2. QED
    BY <1>1, <2>1
<1>3. PICK g \in [0 .. n -> UpdateState] :
         /\ g[0] = [lines |-> <<>>, skip |-> FALSE]
         /\ \A k \in 1 .. n : g[k] = UpdateAwk(g[k - 1], s[k], token)
         /\ UpdateEnd(s, token) = g[n]
  BY UpdateRun
<1> HIDE DEF t
<1>4. PICK h \in [0 .. n + 1 -> UpdateState] :
         /\ h[0] = [lines |-> <<>>, skip |-> FALSE]
         /\ \A k \in 1 .. n + 1 : h[k] = UpdateAwk(h[k - 1], t[k], token)
         /\ UpdateEnd(t, token) = h[n + 1]
  <2>1. \E h \in [0 .. Len(t) -> UpdateState] :
           /\ h[0] = [lines |-> <<>>, skip |-> FALSE]
           /\ \A k \in 1 .. Len(t) : h[k] = UpdateAwk(h[k - 1], t[k], token)
           /\ UpdateEnd(t, token) = h[Len(t)]
    BY <1>1, UpdateRun
  <2>2. QED
    BY <1>1, <2>1
<1> HIDE DEF n
<1> DEFINE T == {k \in 0 .. n : g[k] = h[k]}
<1>5. T = 0 .. n
  <2>1. T \in SUBSET (0 .. n)
    OBVIOUS
  <2>2. 0 \in T
    <3>1. 0 \in 0 .. n /\ g[0] = h[0]
      BY <1>1, <1>3, <1>4
    <3>2. QED
      BY <3>1
  <2>3. ASSUME NEW k \in 1 .. n, k - 1 \in T
        PROVE  k \in T
    <3>1. k \in 1 .. n + 1 /\ k \in 0 .. n
      BY <1>1
    <3>2. t[k] = s[k] /\ g[k - 1] = h[k - 1]
      BY <1>1, <2>3
    <3>3. QED
      BY <1>3, <1>4, <3>1, <3>2
  <2> HIDE DEF T
  <2>4. QED
    BY <1>1, <2>1, <2>2, <2>3, PrefixInduction
<1>6. g[n] = h[n] /\ h[n + 1] = UpdateAwk(h[n], line, token)
  <2>1. n \in 0 .. n /\ n + 1 \in 1 .. n + 1 /\ (n + 1) - 1 = n
    BY <1>1
  <2>2. QED
    BY <1>1, <1>4, <1>5, <2>1
<1>7. g[n] \in UpdateState
  BY <1>1, <1>3
<1>8. QED
  BY <1>2, <1>3, <1>4, <1>6, <1>7 DEF t

\* The fold of the first patch goes through states.
LEMMA FreshRun ==
  ASSUME NEW file \in Seq(CaddyLine), NEW token \in 0 .. MaxInstalls
  PROVE  \E run \in [0 .. Len(file) -> FreshState] :
           /\ run[0] = [lines |-> <<>>, depth |-> 0]
           /\ \A k \in 1 .. Len(file) :
                run[k] = FreshAwk(run[k - 1], file[k], token)
           /\ FreshEnd(file, token) = run[Len(file)]
<1> DEFINE n == Len(file)
           base == [lines |-> <<>>, depth |-> 0]
           Y == FreshState
           Step(st, i) == FreshAwk(st, file[i], token)
           Folds(f) == f = [s \in SUBSET DOMAIN file |->
                              IF s = {} THEN base
                              ELSE Step(f[s \ {Max(s)}], Max(s))]
           fold == CHOOSE f : Folds(f)
<1>1. n \in Nat /\ DOMAIN file = 1 .. n /\ \A i \in 1 .. n : file[i] \in CaddyLine
  BY LenProperties, ElementOfSeq
<1>2. FreshEnd(file, token) = fold[1 .. n]
  <2>1. FreshEnd(file, token) = fold[DOMAIN file]
    BY DEF FreshEnd, FoldLeft, MapThenFoldSet
  <2>2. QED
    BY <1>1, <2>1
<1>3. base \in Y
  BY EmptySeq DEF FreshState
<1>4. \A st \in Y, i \in 1 .. n : Step(st, i) \in Y
  BY <1>1, FreshStep
<1> HIDE DEF base, Y, n, Step
<1>5. \E f : Folds(f)
  <2> DEFINE G == [p \in Y \X (1 .. n) |-> Step(p[1], p[2])]
  <2>1. G \in [Y \X (1 .. n) -> Y]
    BY <1>4
  <2>2. \A st \in Y, i \in 1 .. n : G[<<st, i>>] = Step(st, i)
    OBVIOUS
  <2> HIDE DEF G
  <2>3. PICK f \in [SUBSET (1 .. n) -> Y] : FoldsBy(f, n, base, G)
    BY <1>1, <1>3, <2>1, FoldExists
  <2>4. ASSUME NEW s \in SUBSET (1 .. n), s # {}
        PROVE  f[s] = Step(f[s \ {Max(s)}], Max(s))
    <3>1. Max(s) \in 1 .. n
      BY <1>1, <2>4, MaxIsGreatest
    <3>2. f[s \ {Max(s)}] \in Y
      BY <2>3
    <3>3. QED
      BY <2>2, <2>3, <2>4, <3>1, <3>2 DEF FoldsBy
  <2>5. f = [s \in SUBSET (1 .. n) |->
               IF s = {} THEN base ELSE Step(f[s \ {Max(s)}], Max(s))]
    BY <2>3, <2>4 DEF FoldsBy
  <2>6. QED
    BY <1>1, <2>5
<1>6. fold = [s \in SUBSET (1 .. n) |->
                IF s = {} THEN base ELSE Step(fold[s \ {Max(s)}], Max(s))]
  <2>1. Folds(fold)
    <3> HIDE DEF Folds
    <3>1. QED
      BY <1>5
  <2>2. QED
    BY <1>1, <2>1
<1> HIDE DEF fold
<1>7. /\ fold[1 .. 0] = base
      /\ \A k \in 1 .. n : fold[1 .. k] = Step(fold[1 .. k - 1], k)
  <2>1. fold[{}] = base
    BY <1>6
  <2>2. \A s \in SUBSET (1 .. n) :
          s # {} => fold[s] = Step(fold[s \ {Max(s)}], Max(s))
    BY <1>6
  <2>3. \A k \in 1 .. n : fold[1 .. k] = Step(fold[1 .. k - 1], k)
    BY <1>1, <2>2, PrefixTop
  <2>4. QED
    BY <2>1, <2>3, 1 .. 0 = {}
<1> DEFINE T == {k \in 0 .. n : fold[1 .. k] \in Y}
           run == [k \in 0 .. n |-> fold[1 .. k]]
<1>8. T = 0 .. n
  <2>1. T \in SUBSET (0 .. n) /\ 0 \in T
    BY <1>1, <1>3, <1>7
  <2>2. \A k \in 1 .. n : k - 1 \in T => k \in T
    BY <1>1, <1>4, <1>7
  <2> HIDE DEF T
  <2>3. QED
    BY <1>1, <2>1, <2>2, PrefixInduction
<1>9. /\ run \in [0 .. n -> Y] /\ run[0] = base /\ run[n] = fold[1 .. n]
      /\ \A k \in 1 .. n : run[k] = Step(run[k - 1], k)
  <2>1. run \in [0 .. n -> Y]
    BY <1>8
  <2>2. 0 \in 0 .. n /\ n \in 0 .. n /\ \A k \in 1 .. n : k \in 0 .. n /\ k - 1 \in 0 .. n
    BY <1>1
  <2>3. QED
    BY <1>7, <2>1, <2>2
<1> HIDE DEF run
<1>10. QED
  BY <1>2, <1>9 DEF n, base, Y, Step

\* Line by line.
LEMMA FreshAppends ==
  ASSUME NEW s \in Seq(CaddyLine), NEW line \in CaddyLine,
         NEW token \in 0 .. MaxInstalls
  PROVE  /\ FreshEnd(<<>>, token) = [lines |-> <<>>, depth |-> 0]
         /\ FreshEnd(s, token) \in FreshState
         /\ FreshEnd(Append(s, line), token) =
              FreshAwk(FreshEnd(s, token), line, token)
<1> DEFINE n == Len(s)
           t == Append(s, line)
<1>1. /\ n \in Nat /\ t \in Seq(CaddyLine) /\ Len(t) = n + 1 /\ t[n + 1] = line
      /\ \A k \in 1 .. n : t[k] = s[k]
      /\ <<>> \in Seq(CaddyLine) /\ Len(<<>>) = 0
  BY AppendProperties, LenProperties, EmptySeq
<1>2. FreshEnd(<<>>, token) = [lines |-> <<>>, depth |-> 0]
  <2>1. PICK run \in [0 .. Len(<<>>) -> FreshState] :
           run[0] = [lines |-> <<>>, depth |-> 0] /\ FreshEnd(<<>>, token) = run[Len(<<>>)]
    BY <1>1, FreshRun
  <2>2. QED
    BY <1>1, <2>1
<1>3. PICK g \in [0 .. n -> FreshState] :
         /\ g[0] = [lines |-> <<>>, depth |-> 0]
         /\ \A k \in 1 .. n : g[k] = FreshAwk(g[k - 1], s[k], token)
         /\ FreshEnd(s, token) = g[n]
  BY FreshRun
<1> HIDE DEF t
<1>4. PICK h \in [0 .. n + 1 -> FreshState] :
         /\ h[0] = [lines |-> <<>>, depth |-> 0]
         /\ \A k \in 1 .. n + 1 : h[k] = FreshAwk(h[k - 1], t[k], token)
         /\ FreshEnd(t, token) = h[n + 1]
  <2>1. \E h \in [0 .. Len(t) -> FreshState] :
           /\ h[0] = [lines |-> <<>>, depth |-> 0]
           /\ \A k \in 1 .. Len(t) : h[k] = FreshAwk(h[k - 1], t[k], token)
           /\ FreshEnd(t, token) = h[Len(t)]
    BY <1>1, FreshRun
  <2>2. QED
    BY <1>1, <2>1
<1> HIDE DEF n
<1> DEFINE T == {k \in 0 .. n : g[k] = h[k]}
<1>5. T = 0 .. n
  <2>1. T \in SUBSET (0 .. n)
    OBVIOUS
  <2>2. 0 \in T
    <3>1. 0 \in 0 .. n /\ g[0] = h[0]
      BY <1>1, <1>3, <1>4
    <3>2. QED
      BY <3>1
  <2>3. ASSUME NEW k \in 1 .. n, k - 1 \in T
        PROVE  k \in T
    <3>1. k \in 1 .. n + 1 /\ k \in 0 .. n
      BY <1>1
    <3>2. t[k] = s[k] /\ g[k - 1] = h[k - 1]
      BY <1>1, <2>3
    <3>3. QED
      BY <1>3, <1>4, <3>1, <3>2
  <2> HIDE DEF T
  <2>4. QED
    BY <1>1, <2>1, <2>2, <2>3, PrefixInduction
<1>6. g[n] = h[n] /\ h[n + 1] = FreshAwk(h[n], line, token)
  <2>1. n \in 0 .. n /\ n + 1 \in 1 .. n + 1 /\ (n + 1) - 1 = n
    BY <1>1
  <2>2. QED
    BY <1>1, <1>4, <1>5, <2>1
<1>7. g[n] \in FreshState
  BY <1>1, <1>3
<1>8. QED
  BY <1>2, <1>3, <1>4, <1>6, <1>7 DEF t

\* The fold of validate goes through states.
LEMMA BracesRun ==
  ASSUME NEW file \in Seq(CaddyLine)
  PROVE  \E run \in [0 .. Len(file) -> Int] :
           /\ run[0] = 0
           /\ \A k \in 1 .. Len(file) :
                run[k] = run[k - 1] + Nesting(file[k])
           /\ OpenBraces(file) = run[Len(file)]
<1> DEFINE n == Len(file)
           base == 0
           Y == Int
           Step(st, i) == st + Nesting(file[i])
           Folds(f) == f = [s \in SUBSET DOMAIN file |->
                              IF s = {} THEN base
                              ELSE Step(f[s \ {Max(s)}], Max(s))]
           fold == CHOOSE f : Folds(f)
<1>1. n \in Nat /\ DOMAIN file = 1 .. n /\ \A i \in 1 .. n : file[i] \in CaddyLine
  BY LenProperties, ElementOfSeq
<1>2. OpenBraces(file) = fold[1 .. n]
  <2>1. OpenBraces(file) = fold[DOMAIN file]
    BY DEF OpenBraces, FoldLeft, MapThenFoldSet
  <2>2. QED
    BY <1>1, <2>1
<1>3. base \in Y
  OBVIOUS
<1>4. \A st \in Y, i \in 1 .. n : Step(st, i) \in Y
  <2>1. \A line \in CaddyLine : Nesting(line) \in Int
    BY DEF Nesting
  <2>2. QED
    BY <1>1, <2>1
<1> HIDE DEF base, Y, n, Step
<1>5. \E f : Folds(f)
  <2> DEFINE G == [p \in Y \X (1 .. n) |-> Step(p[1], p[2])]
  <2>1. G \in [Y \X (1 .. n) -> Y]
    BY <1>4
  <2>2. \A st \in Y, i \in 1 .. n : G[<<st, i>>] = Step(st, i)
    OBVIOUS
  <2> HIDE DEF G
  <2>3. PICK f \in [SUBSET (1 .. n) -> Y] : FoldsBy(f, n, base, G)
    BY <1>1, <1>3, <2>1, FoldExists
  <2>4. ASSUME NEW s \in SUBSET (1 .. n), s # {}
        PROVE  f[s] = Step(f[s \ {Max(s)}], Max(s))
    <3>1. Max(s) \in 1 .. n
      BY <1>1, <2>4, MaxIsGreatest
    <3>2. f[s \ {Max(s)}] \in Y
      BY <2>3
    <3>3. QED
      BY <2>2, <2>3, <2>4, <3>1, <3>2 DEF FoldsBy
  <2>5. f = [s \in SUBSET (1 .. n) |->
               IF s = {} THEN base ELSE Step(f[s \ {Max(s)}], Max(s))]
    BY <2>3, <2>4 DEF FoldsBy
  <2>6. QED
    BY <1>1, <2>5
<1>6. fold = [s \in SUBSET (1 .. n) |->
                IF s = {} THEN base ELSE Step(fold[s \ {Max(s)}], Max(s))]
  <2>1. Folds(fold)
    <3> HIDE DEF Folds
    <3>1. QED
      BY <1>5
  <2>2. QED
    BY <1>1, <2>1
<1> HIDE DEF fold
<1>7. /\ fold[1 .. 0] = base
      /\ \A k \in 1 .. n : fold[1 .. k] = Step(fold[1 .. k - 1], k)
  <2>1. fold[{}] = base
    BY <1>6
  <2>2. \A s \in SUBSET (1 .. n) :
          s # {} => fold[s] = Step(fold[s \ {Max(s)}], Max(s))
    BY <1>6
  <2>3. \A k \in 1 .. n : fold[1 .. k] = Step(fold[1 .. k - 1], k)
    BY <1>1, <2>2, PrefixTop
  <2>4. QED
    BY <2>1, <2>3, 1 .. 0 = {}
<1> DEFINE T == {k \in 0 .. n : fold[1 .. k] \in Y}
           run == [k \in 0 .. n |-> fold[1 .. k]]
<1>8. T = 0 .. n
  <2>1. T \in SUBSET (0 .. n) /\ 0 \in T
    BY <1>1, <1>3, <1>7
  <2>2. \A k \in 1 .. n : k - 1 \in T => k \in T
    BY <1>1, <1>4, <1>7
  <2> HIDE DEF T
  <2>3. QED
    BY <1>1, <2>1, <2>2, PrefixInduction
<1>9. /\ run \in [0 .. n -> Y] /\ run[0] = base /\ run[n] = fold[1 .. n]
      /\ \A k \in 1 .. n : run[k] = Step(run[k - 1], k)
  <2>1. run \in [0 .. n -> Y]
    BY <1>8
  <2>2. 0 \in 0 .. n /\ n \in 0 .. n /\ \A k \in 1 .. n : k \in 0 .. n /\ k - 1 \in 0 .. n
    BY <1>1
  <2>3. QED
    BY <1>7, <2>1, <2>2
<1> HIDE DEF run
<1>10. QED
  BY <1>2, <1>9 DEF n, base, Y, Step

\* Line by line.
LEMMA BracesAppends ==
  ASSUME NEW s \in Seq(CaddyLine), NEW line \in CaddyLine
  PROVE  /\ OpenBraces(<<>>) = 0
         /\ OpenBraces(s) \in Int
         /\ OpenBraces(Append(s, line)) =
              OpenBraces(s) + Nesting(line)
<1> DEFINE n == Len(s)
           t == Append(s, line)
<1>1. /\ n \in Nat /\ t \in Seq(CaddyLine) /\ Len(t) = n + 1 /\ t[n + 1] = line
      /\ \A k \in 1 .. n : t[k] = s[k]
      /\ <<>> \in Seq(CaddyLine) /\ Len(<<>>) = 0
  BY AppendProperties, LenProperties, EmptySeq
<1>2. OpenBraces(<<>>) = 0
  <2>1. PICK run \in [0 .. Len(<<>>) -> Int] :
           run[0] = 0 /\ OpenBraces(<<>>) = run[Len(<<>>)]
    BY <1>1, BracesRun
  <2>2. QED
    BY <1>1, <2>1
<1>3. PICK g \in [0 .. n -> Int] :
         /\ g[0] = 0
         /\ \A k \in 1 .. n : g[k] = g[k - 1] + Nesting(s[k])
         /\ OpenBraces(s) = g[n]
  BY BracesRun
<1> HIDE DEF t
<1>4. PICK h \in [0 .. n + 1 -> Int] :
         /\ h[0] = 0
         /\ \A k \in 1 .. n + 1 : h[k] = h[k - 1] + Nesting(t[k])
         /\ OpenBraces(t) = h[n + 1]
  <2>1. \E h \in [0 .. Len(t) -> Int] :
           /\ h[0] = 0
           /\ \A k \in 1 .. Len(t) : h[k] = h[k - 1] + Nesting(t[k])
           /\ OpenBraces(t) = h[Len(t)]
    BY <1>1, BracesRun
  <2>2. QED
    BY <1>1, <2>1
<1> HIDE DEF n
<1> DEFINE T == {k \in 0 .. n : g[k] = h[k]}
<1>5. T = 0 .. n
  <2>1. T \in SUBSET (0 .. n)
    OBVIOUS
  <2>2. 0 \in T
    <3>1. 0 \in 0 .. n /\ g[0] = h[0]
      BY <1>1, <1>3, <1>4
    <3>2. QED
      BY <3>1
  <2>3. ASSUME NEW k \in 1 .. n, k - 1 \in T
        PROVE  k \in T
    <3>1. k \in 1 .. n + 1 /\ k \in 0 .. n
      BY <1>1
    <3>2. t[k] = s[k] /\ g[k - 1] = h[k - 1]
      BY <1>1, <2>3
    <3>3. QED
      BY <1>3, <1>4, <3>1, <3>2
  <2> HIDE DEF T
  <2>4. QED
    BY <1>1, <2>1, <2>2, <2>3, PrefixInduction
<1>6. g[n] = h[n] /\ h[n + 1] = h[n] + Nesting(line)
  <2>1. n \in 0 .. n /\ n + 1 \in 1 .. n + 1 /\ (n + 1) - 1 = n
    BY <1>1
  <2>2. QED
    BY <1>1, <1>4, <1>5, <2>1
<1>7. g[n] \in Int
  BY <1>1, <1>3
<1>8. QED
  BY <1>2, <1>3, <1>4, <1>6, <1>7 DEF t

\* A file with the panel's block has it with the run's token.
LEMMA UpdateCarries ==
  ASSUME NEW file \in Seq(CaddyLine), NEW token \in 0 .. MaxInstalls
  PROVE  /\ UpdatePatch(file, token) \in Seq(CaddyLine)
         /\ UpdatePatch(file, token) = UpdateEnd(file, token).lines
         /\ Has(file, "begin") => Carries(UpdatePatch(file, token), token)
<1> DEFINE n == Len(file)
<1>1. n \in Nat /\ DOMAIN file = 1 .. n /\ \A i \in 1 .. n : file[i] \in CaddyLine
  BY LenProperties, ElementOfSeq
<1>2. UpdatePatch(file, token) = UpdateEnd(file, token).lines
  BY DEF UpdatePatch, UpdateEnd, FoldLeft, MapThenFoldSet, UpdateAwk
<1>3. PICK run \in [0 .. n -> UpdateState] :
         /\ run[0] = [lines |-> <<>>, skip |-> FALSE]
         /\ \A k \in 1 .. n : run[k] = UpdateAwk(run[k - 1], file[k], token)
         /\ UpdateEnd(file, token) = run[n]
  BY UpdateRun
<1> HIDE DEF n
<1> DEFINE Reached(k) == \E i \in 1 .. k : file[i].part = "begin"
           T == {k \in 0 .. n : Reached(k) => Carries(run[k].lines, token)}
<1>4. T = 0 .. n
  <2>1. T \in SUBSET (0 .. n)
    OBVIOUS
  <2>2. 0 \in T
    BY <1>1, <1>3
  <2>3. ASSUME NEW k \in 1 .. n, k - 1 \in T
        PROVE  k \in T
    <3>1. Reached(k) => Reached(k - 1) \/ file[k].part = "begin"
      BY <1>1
    <3>2. /\ run[k - 1] \in UpdateState /\ file[k] \in CaddyLine /\ k \in 0 .. n
          /\ run[k] = UpdateAwk(run[k - 1], file[k], token)
      BY <1>1, <1>3
    <3> HIDE DEF Reached
    <3>3. QED
      BY <2>3, <3>1, <3>2, UpdateStep
  <2> HIDE DEF T
  <2>4. QED
    BY <1>1, <2>1, <2>2, <2>3, PrefixInduction
<1>5. run[n] \in UpdateState /\ (Reached(n) => Carries(run[n].lines, token))
  BY <1>1, <1>3, <1>4
<1>6. run[n].lines \in Seq(CaddyLine)
  BY <1>5 DEF UpdateState
<1>7. Has(file, "begin") => Reached(n)
  BY <1>1 DEF Has
<1>8. QED
  BY <1>2, <1>3, <1>5, <1>6, <1>7

\* A file with a reverse_proxy has the panel's block before it.
LEMMA FreshCarries ==
  ASSUME NEW file \in Seq(CaddyLine), NEW token \in 0 .. MaxInstalls
  PROVE  /\ FreshPatch(file, token) \in Seq(CaddyLine)
         /\ FreshPatch(file, token) = FreshEnd(file, token).lines
         /\ Has(file, "proxy") => Carries(FreshPatch(file, token), token)
<1> DEFINE n == Len(file)
<1>1. n \in Nat /\ DOMAIN file = 1 .. n /\ \A i \in 1 .. n : file[i] \in CaddyLine
  BY LenProperties, ElementOfSeq
<1>2. FreshPatch(file, token) = FreshEnd(file, token).lines
  BY DEF FreshPatch, FreshEnd, FoldLeft, MapThenFoldSet, FreshAwk
<1>3. PICK run \in [0 .. n -> FreshState] :
         /\ run[0] = [lines |-> <<>>, depth |-> 0]
         /\ \A k \in 1 .. n : run[k] = FreshAwk(run[k - 1], file[k], token)
         /\ FreshEnd(file, token) = run[n]
  BY FreshRun
<1> HIDE DEF n
<1> DEFINE Reached(k) == \E i \in 1 .. k : file[i].part = "proxy"
           T == {k \in 0 .. n : /\ Reached(k) => Carries(run[k].lines, token)
                                /\ run[k].depth # 0 => Carries(run[k].lines, token)}
<1>4. T = 0 .. n
  <2>1. T \in SUBSET (0 .. n)
    OBVIOUS
  <2>2. 0 \in T
    BY <1>1, <1>3
  <2>3. ASSUME NEW k \in 1 .. n, k - 1 \in T
        PROVE  k \in T
    <3>1. Reached(k) => Reached(k - 1) \/ file[k].part = "proxy"
      BY <1>1
    <3>2. /\ run[k - 1] \in FreshState /\ file[k] \in CaddyLine /\ k \in 0 .. n
          /\ run[k] = FreshAwk(run[k - 1], file[k], token)
      BY <1>1, <1>3
    <3> HIDE DEF Reached
    <3>3. QED
      BY <2>3, <3>1, <3>2, FreshStep
  <2> HIDE DEF T
  <2>4. QED
    BY <1>1, <2>1, <2>2, <2>3, PrefixInduction
<1>5. run[n] \in FreshState /\ (Reached(n) => Carries(run[n].lines, token))
  <2>1. n \in 0 .. n /\ n \in T
    BY <1>1, <1>4
  <2>2. QED
    BY <1>3, <2>1
<1>6. run[n].lines \in Seq(CaddyLine)
  BY <1>5 DEF FreshState
<1>7. Has(file, "proxy") => Reached(n)
  BY <1>1 DEF Has
<1>8. QED
  BY <1>2, <1>3, <1>5, <1>6, <1>7

------------------------------------------------------------------------------
(* The steps of the installer.                                             *)

\* Parts of a file are files.
LEMMA FileParts ==
  ASSUME NEW file \in Seq(CaddyLine)
  PROVE  /\ Len(file) \in Nat
         /\ \A n \in 0 .. Len(file) - 1 : SubSeq(file, 1, n) \in Seq(CaddyLine)
         /\ \A i \in DOMAIN file : RemoveAt(file, i) \in Seq(CaddyLine)
         /\ <<L("text")>> \o file \in Seq(CaddyLine)
<1>1. Len(file) \in Nat /\ DOMAIN file = 1 .. Len(file)
  BY LenProperties
<1>2. \A m, n \in Int : SubSeq(file, m, n) \in Seq(CaddyLine)
                        \/ ~(1 <= m /\ n <= Len(file))
  <2> SUFFICES ASSUME NEW m \in Int, NEW n \in Int, 1 <= m, n <= Len(file)
               PROVE  SubSeq(file, m, n) \in Seq(CaddyLine)
    OBVIOUS
  <2>1. \A i \in 1 .. Len(file) : file[i] \in CaddyLine
    BY ElementOfSeq
  <2>2. \A i \in m .. n : file[i] \in CaddyLine
    BY <1>1, <2>1
  <2>3. QED
    BY <2>2, SubSeqProperties
<1>3. \A n \in 0 .. Len(file) - 1 : SubSeq(file, 1, n) \in Seq(CaddyLine)
  BY <1>1, <1>2
<1>4. ASSUME NEW i \in DOMAIN file
      PROVE  RemoveAt(file, i) \in Seq(CaddyLine)
  <2>1. SubSeq(file, 1, i - 1) \in Seq(CaddyLine)
    BY <1>1, <1>2
  <2>2. SubSeq(file, i + 1, Len(file)) \in Seq(CaddyLine)
    BY <1>1, <1>2
  <2>3. QED
    BY <2>1, <2>2, ConcatProperties DEF RemoveAt
<1>5. <<L("text")>> \in Seq(CaddyLine)
  BY InstallAssumption DEF L, CaddyLine, Part
<1>6. <<L("text")>> \o file \in Seq(CaddyLine)
  BY <1>5, ConcatProperties
<1>7. QED
  BY <1>1, <1>3, <1>4, <1>6

\* A run goes on with what it has.
LEMMA RunGoesOn ==
  ASSUME InstallTypes, NEW at \in InstallStep, GoesOn(at)
  PROVE  /\ install' \in InstallRun /\ install'.at = at
         /\ install'.dir = install.dir /\ install'.token = install.token
         /\ install'.saved = install.saved /\ install'.patched = install.patched
<1>1. install \in InstallRun /\ install' = [install EXCEPT !.at = at]
  BY DEF InstallTypes, GoesOn
<1>2. install' \in InstallRun
  BY <1>1 DEF InstallRun
<1>3. QED
  BY <1>1, <1>2 DEF InstallRun

\* A run that ends leaves nothing of its own.
LEMMA RunEnds ==
  ASSUME NEW how, Ends(how)
  PROVE  /\ install' \in InstallRun /\ install'.at = "none"
         /\ install'.dir = Nothing /\ install'.token = 0
         /\ install'.saved \in Seq(CaddyLine) /\ install'.patched \in Seq(CaddyLine)
         /\ outcome' = how
<1>1. NoInstall \in InstallRun
  <2>1. <<>> \in Seq(CaddyLine) /\ 0 \in 0 .. MaxInstalls
    BY EmptySeq, InstallAssumption
  <2>2. QED
    BY <2>1 DEF NoInstall, InstallRun, InstallStep
<1>2. install' = NoInstall /\ outcome' = how
  BY DEF Ends
<1>3. QED
  BY <1>1, <1>2, EmptySeq DEF NoInstall

\* An end without success promises nothing.
LEMMA EndKeeps ==
  ASSUME NEW how, Ends(how), how # "ok"
  PROVE  /\ RouteFollows' /\ FilesFollow' /\ InstalledHolds'
         /\ CaddyStaysUp' => DownIsCounted'
<1>1. install'.at = "none" /\ outcome' # "ok"
  BY RunEnds
<1>2. QED
  BY <1>1 DEF RouteFollows, FilesFollow, InstalledHolds, DownIsCounted, Serving

\* What the types say, field by field.
LEMMA InstallFields ==
  ASSUME InstallTypes
  PROVE  /\ caddyfile \in Seq(CaddyLine) /\ kept \in Seq(CaddyLine)
         /\ install.saved \in Seq(CaddyLine) /\ install.patched \in Seq(CaddyLine)
         /\ caddy = Nothing \/ caddy \in Seq(CaddyLine)
         /\ applyEnv \in Dir \cup {Nothing} /\ grant \in Dir \cup {Nothing}
         /\ unit \in Dir \cup {Nothing} /\ install.dir \in Dir \cup {Nothing}
         /\ install.at \in InstallStep /\ install.token \in 0 .. installs
         /\ install.token \in 0 .. MaxInstalls
         /\ installs \in 0 .. MaxInstalls /\ MaxInstalls \in Nat /\ mishaps \in Nat
         /\ install.at # "none" => install.dir \in Dir /\ install.token \in 1 .. installs
<1>1. installs \in 0 .. MaxInstalls /\ MaxInstalls \in Nat
  BY InstallAssumption DEF InstallTypes
<1>2. QED
  BY <1>1 DEF InstallTypes, InstallTypeOK

\* The files and processes keep their types when nothing else is touched.
LEMMA SamePanelTypes ==
  ASSUME InstallTypes, panelVars' = panelVars, installs' = installs,
         caddyfile' \in Seq(CaddyLine), kept' \in Seq(CaddyLine),
         caddy' = Nothing \/ caddy' \in Seq(CaddyLine), mishaps' \in Nat,
         install' \in InstallRun, install'.at \in InstallStep,
         install'.saved \in Seq(CaddyLine), install'.patched \in Seq(CaddyLine),
         install'.dir \in Dir \cup {Nothing}, install'.token \in 0 .. installs,
         install'.at # "none" => install'.dir \in Dir /\ install'.token \in 1 .. installs
  PROVE  InstallTypes'
<1>1. /\ applyEnv' = applyEnv /\ grant' = grant /\ dotenvs' = dotenvs /\ unit' = unit
      /\ enabled' = enabled /\ panel' = panel
  BY DEF panelVars
<1>2. InstallTypeOK'
  BY <1>1 DEF InstallTypes, InstallTypeOK
<1>3. QED
  BY <1>1, <1>2 DEF InstallTypes

\* A run begins with a token of its own.
LEMMA InstallBeginsKeeps ==
  ASSUME InstallInv, InstallBegins
  PROVE  InstallInv'
<1>1. PICK d \in Dir :
        install' = [NoInstall EXCEPT !.at = "backup", !.dir = d, !.token = installs']
  BY DEF InstallBegins
<1>2. /\ install.at = "none" /\ installs < MaxInstalls /\ installs' = installs + 1
      /\ caddyfile' = caddyfile /\ caddy' = caddy /\ kept' = kept
      /\ applyEnv' = applyEnv /\ grant' = grant /\ dotenvs' = dotenvs
      /\ unit' = unit /\ enabled' = enabled /\ panel' = panel /\ mishaps' = mishaps
  BY DEF InstallBegins, caddyVars, panelVars
<1>3. /\ install'.at = "backup" /\ install'.dir = d /\ install'.token = installs'
      /\ install'.saved = <<>> /\ install'.patched = <<>>
  BY <1>1 DEF NoInstall
<1>4. InstallTypes /\ installs \in 0 .. MaxInstalls /\ MaxInstalls \in Nat
  BY InstallFields DEF InstallInv
<1>5. installs' \in 1 .. MaxInstalls /\ installs' \in 1 .. installs'
  BY <1>2, <1>4
<1>6. install' \in InstallRun
  <2>1. install' = [at |-> "backup", dir |-> d, token |-> installs',
                    saved |-> <<>>, patched |-> <<>>]
    BY <1>1 DEF NoInstall
  <2>2. QED
    BY <1>5, <2>1, EmptySeq DEF InstallRun, InstallStep
<1>7. InstallTypeOK'
  <2>1. dotenvs' \in [Dir -> (1 .. installs') \cup {Nothing}]
    <3>1. dotenvs \in [Dir -> (1 .. installs) \cup {Nothing}]
      BY <1>4 DEF InstallTypes, InstallTypeOK
    <3>2. 1 .. installs \subseteq 1 .. installs'
      BY <1>2, <1>4
    <3>3. QED
      BY <1>2, <3>1, <3>2
  <2>2. panel' = Nothing \/ panel' \in [dir : Dir, token : 1 .. installs']
    <3>1. panel = Nothing \/ panel \in [dir : Dir, token : 1 .. installs]
      BY <1>4 DEF InstallTypes, InstallTypeOK
    <3>2. 1 .. installs \subseteq 1 .. installs'
      BY <1>2, <1>4
    <3>3. QED
      BY <1>2, <3>1, <3>2
  <2>3. install'.at \in InstallStep /\ install'.token \in 0 .. installs'
    BY <1>3, <1>5 DEF InstallStep
  <2>4. QED
    BY <1>2, <1>3, <1>4, <2>1, <2>2, <2>3, EmptySeq
       DEF InstallTypes, InstallTypeOK
<1>8. InstallTypes'
  BY <1>2, <1>3, <1>4, <1>5, <1>6, <1>7 DEF InstallTypes
<1>9. RouteFollows' /\ FilesFollow' /\ InstalledHolds' /\ DownIsCounted'
  BY <1>2, <1>3
     DEF InstallInv, RouteFollows, FilesFollow, InstalledHolds, DownIsCounted,
         CaddyStaysUp, Serving
<1>10. QED
  BY <1>8, <1>9 DEF InstallInv

\* The backup, the patch and its validation touch the files of the run only.
LEMMA PatchingKeeps ==
  ASSUME InstallInv, Backup \/ Patch \/ Validate
  PROVE  InstallInv'
<1> DEFINE token == install.token
<1>1. /\ caddyfile' = caddyfile /\ caddy' = caddy /\ kept' = kept
      /\ panelVars' = panelVars /\ installs' = installs /\ mishaps' = mishaps
  BY DEF Backup, Patch, Validate, caddyVars, boundVars
<1>2. InstallTypes /\ install \in InstallRun /\ CaddyStaysUp'
  BY <1>1 DEF InstallInv, InstallTypes, DownIsCounted, CaddyStaysUp
<1>3. CASE Backup
  <2>1. /\ install.at = "backup"
        /\ install' = [install EXCEPT !.at = "patch", !.saved = caddyfile]
    BY <1>3 DEF Backup
  <2>2. caddyfile \in Seq(CaddyLine)
    BY <1>2, InstallFields
  <2>3. install' \in InstallRun
    BY <1>2, <2>1, <2>2 DEF InstallRun, InstallStep
  <2>4. /\ install'.at = "patch" /\ install'.saved = caddyfile
        /\ install'.dir = install.dir /\ install'.token = install.token
        /\ install'.patched = install.patched
    BY <1>2, <2>1 DEF InstallRun
  <2>5. InstallTypes'
    BY <1>1, <1>2, <2>1, <2>2, <2>3, <2>4, InstallFields, SamePanelTypes DEF InstallStep
  <2>6. RouteFollows' /\ FilesFollow' /\ InstalledHolds' /\ DownIsCounted'
    BY <1>2, <2>4 DEF RouteFollows, FilesFollow, InstalledHolds, DownIsCounted, Serving
  <2>7. QED
    BY <2>5, <2>6 DEF InstallInv
<1>4. CASE \E how \in {"refused"} : Ends(how)
  <2>1. PICK how \in {"refused"} : Ends(how)
    BY <1>4
  <2>2. /\ install' \in InstallRun /\ install'.at = "none" /\ install'.dir = Nothing
        /\ install'.token = 0 /\ install'.saved \in Seq(CaddyLine)
        /\ install'.patched \in Seq(CaddyLine)
    BY <2>1, RunEnds
  <2>3. InstallTypes'
    BY <1>1, <1>2, <2>2, InstallFields, SamePanelTypes DEF InstallStep
  <2>4. RouteFollows' /\ FilesFollow' /\ InstalledHolds' /\ DownIsCounted'
    BY <1>2, <2>1, EndKeeps
  <2>5. QED
    BY <2>3, <2>4 DEF InstallInv
<1>5. ASSUME Patch, ~Ends("refused")
      PROVE  InstallInv'
  <2> DEFINE patched == IF PatchMode(caddyfile) = "fresh"
                        THEN FreshPatch(caddyfile, token)
                        ELSE UpdatePatch(caddyfile, token)
  <2>1. /\ install.at = "patch" /\ PatchMode(caddyfile) # "neither"
        /\ install' = [install EXCEPT !.at = "validate", !.patched = patched]
    BY <1>5 DEF Patch
  <2>2. patched \in Seq(CaddyLine) /\ Carries(patched, token)
    <3>1. caddyfile \in Seq(CaddyLine) /\ token \in 0 .. MaxInstalls
      BY <1>2, InstallFields
    <3>2. CASE PatchMode(caddyfile) = "fresh"
      <4>1. Has(caddyfile, "proxy")
        BY <3>2 DEF PatchMode
      <4>2. QED
        BY <3>1, <3>2, <4>1, FreshCarries
    <3>3. CASE PatchMode(caddyfile) # "fresh"
      <4>1. Has(caddyfile, "begin")
        BY <2>1, <3>3 DEF PatchMode
      <4>2. QED
        BY <3>1, <3>3, <4>1, UpdateCarries
    <3>4. QED
      BY <3>2, <3>3
  <2> HIDE DEF patched
  <2>3. install' \in InstallRun
    BY <1>2, <2>1, <2>2 DEF InstallRun, InstallStep
  <2>4. /\ install'.at = "validate" /\ install'.patched = patched
        /\ install'.dir = install.dir /\ install'.token = install.token
        /\ install'.saved = install.saved
    BY <1>2, <2>1 DEF InstallRun
  <2>5. InstallTypes'
    BY <1>1, <1>2, <2>1, <2>2, <2>3, <2>4, InstallFields, SamePanelTypes DEF InstallStep
  <2>6. RouteFollows'
    BY <2>2, <2>4 DEF RouteFollows, Serving, Carries
  <2>7. FilesFollow' /\ InstalledHolds' /\ DownIsCounted'
    BY <1>2, <2>4 DEF FilesFollow, InstalledHolds, DownIsCounted
  <2>8. QED
    BY <2>5, <2>6, <2>7 DEF InstallInv
<1>6. ASSUME Validate, ~Ends("refused")
      PROVE  InstallInv'
  <2>1. /\ install.at = "validate" /\ Valid(install.patched) /\ GoesOn("copy")
        /\ Carries(install.patched, install.token)
    BY <1>6 DEF Validate, InstallInv, RouteFollows
  <2>2. /\ install' \in InstallRun /\ install'.at = "copy"
        /\ install'.dir = install.dir /\ install'.token = install.token
        /\ install'.saved = install.saved /\ install'.patched = install.patched
    <3>1. "copy" \in InstallStep
      BY DEF InstallStep
    <3>2. QED
      BY <1>2, <2>1, <3>1, RunGoesOn
  <2>3. InstallTypes'
    BY <1>1, <1>2, <2>1, <2>2, InstallFields, SamePanelTypes DEF InstallStep
  <2>4. RouteFollows'
    <3>1. Valid(install'.patched) /\ Carries(install'.patched, install'.token)
      BY <2>1, <2>2
    <3>2. QED
      BY <2>2, <3>1 DEF RouteFollows, Serving
  <2>5. FilesFollow' /\ InstalledHolds' /\ DownIsCounted'
    BY <1>2, <2>2 DEF FilesFollow, InstalledHolds, DownIsCounted
  <2>6. QED
    BY <2>3, <2>4, <2>5 DEF InstallInv
<1>7. QED
  BY <1>3, <1>4, <1>5, <1>6

\* The patched file takes its place, and the backup if Caddy does not start.
LEMMA CopiesKeep ==
  ASSUME InstallInv, CopyPatched \/ RestoreCaddyfile
  PROVE  InstallInv'
<1>1. /\ caddy' = caddy /\ kept' = kept /\ panelVars' = panelVars
      /\ installs' = installs /\ mishaps' = mishaps
  BY DEF CopyPatched, RestoreCaddyfile, boundVars
<1>2. InstallTypes /\ CaddyStaysUp' /\ install.saved \in Seq(CaddyLine)
      /\ install.patched \in Seq(CaddyLine)
  BY <1>1, InstallFields DEF InstallInv, DownIsCounted, CaddyStaysUp
<1>3. CASE CopyPatched
  <2>1. /\ install.at = "copy" /\ caddyfile' = install.patched /\ GoesOn("restart")
        /\ Valid(install.patched) /\ Carries(install.patched, install.token)
    BY <1>3 DEF CopyPatched, InstallInv, RouteFollows
  <2>2. /\ install' \in InstallRun /\ install'.at = "restart"
        /\ install'.dir = install.dir /\ install'.token = install.token
        /\ install'.saved = install.saved /\ install'.patched = install.patched
    <3>1. "restart" \in InstallStep
      BY DEF InstallStep
    <3>2. QED
      BY <1>2, <2>1, <3>1, RunGoesOn
  <2>3. InstallTypes'
    BY <1>1, <1>2, <2>1, <2>2, InstallFields, SamePanelTypes DEF InstallStep, InstallTypes
  <2>4. RouteFollows'
    <3>1. Valid(caddyfile') /\ Carries(caddyfile', install'.token)
      BY <2>1, <2>2
    <3>2. QED
      BY <2>2, <3>1 DEF RouteFollows, Serving
  <2>5. FilesFollow' /\ InstalledHolds' /\ DownIsCounted'
    BY <1>2, <2>2 DEF FilesFollow, InstalledHolds, DownIsCounted
  <2>6. QED
    BY <2>3, <2>4, <2>5 DEF InstallInv
<1>4. CASE RestoreCaddyfile
  <2>1. /\ install.at = "restore" /\ caddyfile' = install.saved /\ GoesOn("again")
        /\ mishaps > 0
    BY <1>4 DEF RestoreCaddyfile, InstallInv, DownIsCounted
  <2>2. /\ install' \in InstallRun /\ install'.at = "again"
        /\ install'.dir = install.dir /\ install'.token = install.token
        /\ install'.saved = install.saved /\ install'.patched = install.patched
    <3>1. "again" \in InstallStep
      BY DEF InstallStep
    <3>2. QED
      BY <1>2, <2>1, <3>1, RunGoesOn
  <2>3. InstallTypes'
    BY <1>1, <1>2, <2>1, <2>2, InstallFields, SamePanelTypes DEF InstallStep, InstallTypes
  <2>4. RouteFollows' /\ FilesFollow' /\ InstalledHolds' /\ DownIsCounted'
    BY <1>1, <1>2, <2>1, <2>2
       DEF RouteFollows, Serving, FilesFollow, InstalledHolds, DownIsCounted
  <2>5. QED
    BY <2>3, <2>4 DEF InstallInv
<1>5. QED
  BY <1>3, <1>4

\* Caddy serves the file from its restart on, or its failure is counted: the file
\* it fails with is valid, or the run is in its way back.
LEMMA RestartsKeep ==
  ASSUME InstallInv, RestartCaddy \/ RestartAgain
  PROVE  InstallInv'
<1>1. /\ caddyfile' = caddyfile /\ kept' = kept /\ panelVars' = panelVars
      /\ installs' = installs
  BY DEF RestartCaddy, RestartAgain
<1>2. /\ InstallTypes /\ caddyfile \in Seq(CaddyLine)
      /\ install.saved \in Seq(CaddyLine) /\ install.patched \in Seq(CaddyLine)
      /\ mishaps \in Nat
  BY InstallFields DEF InstallInv
<1>3. CASE RestartCaddy
  <2>1. install.at = "restart" /\ Valid(caddyfile) /\ Carries(caddyfile, install.token)
    BY <1>3 DEF RestartCaddy, InstallInv, RouteFollows
  <2>2. \/ /\ caddy' = caddyfile /\ GoesOn("binary") /\ mishaps' = mishaps
        \/ /\ caddy' = Nothing /\ GoesOn("restore") /\ mishaps' = mishaps + 1
    BY <1>3, <2>1 DEF RestartCaddy, CaddyRestarts
  <2>3. PICK at \in {"binary", "restore"} : GoesOn(at)
    BY <2>2
  <2>4. /\ install' \in InstallRun /\ install'.at = at
        /\ install'.dir = install.dir /\ install'.token = install.token
        /\ install'.saved = install.saved /\ install'.patched = install.patched
    <3>1. at \in InstallStep
      BY <2>3 DEF InstallStep
    <3>2. QED
      BY <1>2, <2>3, <3>1, RunGoesOn
  <2>5. /\ install'.at = "binary" => caddy' = caddyfile
        /\ install'.at = "restore" \/ caddy' = Nothing => mishaps' > 0
        /\ mishaps' \in Nat
        /\ caddy' = Nothing \/ caddy' \in Seq(CaddyLine)
    <3>1. CASE GoesOn("binary") /\ caddy' = caddyfile /\ mishaps' = mishaps
      <4>1. install'.at = "binary"
        BY <1>2, <3>1, RunGoesOn DEF InstallStep
      <4>2. caddyfile # Nothing
        BY <1>2, InstallAssumption
      <4>3. QED
        BY <1>2, <3>1, <4>1, <4>2
    <3>2. CASE GoesOn("restore") /\ caddy' = Nothing /\ mishaps' = mishaps + 1
      <4>1. install'.at = "restore"
        BY <1>2, <3>2, RunGoesOn DEF InstallStep
      <4>2. QED
        BY <1>2, <3>2, <4>1
    <3>3. QED
      BY <2>2, <3>1, <3>2
  <2>6. InstallTypes'
    BY <1>1, <1>2, <2>1, <2>3, <2>4, <2>5, InstallFields, SamePanelTypes DEF InstallStep
  <2>7. RouteFollows'
    <3>1. Carries(caddyfile', install'.token)
      BY <1>1, <2>1, <2>4
    <3>2. install'.at = "binary" => Carries(caddy', install'.token)
      BY <2>1, <2>4, <2>5
    <3>3. QED
      BY <2>3, <2>4, <3>1, <3>2 DEF RouteFollows, Serving
  <2>8. FilesFollow' /\ InstalledHolds' /\ DownIsCounted'
    BY <2>3, <2>4, <2>5 DEF FilesFollow, InstalledHolds, DownIsCounted, CaddyStaysUp
  <2>9. QED
    BY <2>6, <2>7, <2>8 DEF InstallInv
<1>4. CASE RestartAgain
  <2>1. install.at = "again" /\ mishaps > 0
    BY <1>4 DEF RestartAgain, InstallInv, DownIsCounted
  <2>2. /\ Ends("restored")
        /\ caddy' = caddyfile \/ caddy' = Nothing
        /\ mishaps' = mishaps \/ mishaps' = mishaps + 1
    BY <1>4 DEF RestartAgain, CaddyRestarts
  <2>3. /\ install' \in InstallRun /\ install'.at = "none" /\ install'.dir = Nothing
        /\ install'.token = 0 /\ install'.saved \in Seq(CaddyLine)
        /\ install'.patched \in Seq(CaddyLine)
    BY <2>2, RunEnds
  <2>4. mishaps' \in Nat /\ mishaps' > 0
    BY <1>2, <2>1, <2>2
  <2>5. InstallTypes'
    BY <1>1, <1>2, <2>2, <2>3, <2>4, InstallFields, SamePanelTypes DEF InstallStep
  <2>6. RouteFollows' /\ FilesFollow' /\ InstalledHolds' /\ DownIsCounted'
    BY <2>2, <2>4, EndKeeps DEF CaddyStaysUp
  <2>7. QED
    BY <2>5, <2>6 DEF InstallInv
<1>5. QED
  BY <1>3, <1>4

\* One file after the other gets the directory and the token of the run.
LEMMA WritesKeep ==
  ASSUME InstallInv,
         GetBinary \/ InstallScript \/ InstallSudoers \/ WriteDotenv \/ InstallUnit
  PROVE  InstallInv'
<1> DEFINE At == {"binary", "script", "sudoers", "env", "unit"}
           next == CASE install.at = "binary" -> "script"
                     [] install.at = "script" -> "sudoers"
                     [] install.at = "sudoers" -> "env"
                     [] install.at = "env" -> "unit"
                     [] OTHER -> "start"
<1>1. /\ caddyfile' = caddyfile /\ caddy' = caddy /\ kept' = kept
      /\ installs' = installs /\ mishaps' = mishaps
      /\ enabled' = enabled /\ panel' = panel
  BY DEF GetBinary, InstallScript, InstallSudoers, WriteDotenv, InstallUnit,
         caddyVars, panelVars, boundVars
<1>2. InstallTypes /\ CaddyStaysUp' /\ RouteFollows /\ FilesFollow
  BY <1>1 DEF InstallInv, DownIsCounted, CaddyStaysUp
<1>3. /\ install.at \in At /\ GoesOn(next)
      /\ applyEnv' = IF install.at = "script" THEN install.dir ELSE applyEnv
      /\ grant' = IF install.at = "sudoers" THEN install.dir ELSE grant
      /\ dotenvs' = IF install.at = "env"
                    THEN [dotenvs EXCEPT ![install.dir] = install.token] ELSE dotenvs
      /\ unit' = IF install.at = "unit" THEN install.dir ELSE unit
  BY DEF GetBinary, InstallScript, InstallSudoers, WriteDotenv, InstallUnit, panelVars
<1>4. /\ install' \in InstallRun /\ install'.at = next
      /\ install'.dir = install.dir /\ install'.token = install.token
      /\ install'.saved = install.saved /\ install'.patched = install.patched
  <2>1. next \in InstallStep
    BY <1>3 DEF InstallStep
  <2> HIDE DEF next
  <2>2. QED
    BY <1>2, <1>3, <2>1, RunGoesOn
<1>5. next \in {"script", "sudoers", "env", "unit", "start"}
  BY <1>3
<1>6. install.dir \in Dir /\ install.token \in 1 .. installs
  BY <1>2, <1>3 DEF InstallTypes
<1>7. InstallTypes'
  <2>1. /\ applyEnv' \in Dir \cup {Nothing} /\ grant' \in Dir \cup {Nothing}
        /\ unit' \in Dir \cup {Nothing}
        /\ enabled' => unit' \in Dir
    BY <1>1, <1>2, <1>3, <1>6, InstallFields DEF InstallTypes
  <2>2. dotenvs' \in [Dir -> (1 .. installs) \cup {Nothing}]
    <3>1. dotenvs \in [Dir -> (1 .. installs) \cup {Nothing}]
      BY <1>2 DEF InstallTypes, InstallTypeOK
    <3>2. QED
      BY <1>3, <1>6, <3>1
  <2>3. install'.at \in InstallStep /\ install'.token \in 0 .. installs
    BY <1>2, <1>4, <1>5, InstallFields DEF InstallStep
  <2> HIDE DEF next, At
  <2>4. InstallTypeOK'
    BY <1>1, <1>2, <1>4, <2>1, <2>2, <2>3, InstallFields DEF InstallTypes, InstallTypeOK
  <2>5. QED
    BY <1>1, <1>2, <1>4, <1>6, <2>1, <2>4 DEF InstallTypes
<1>8. RouteFollows'
  <2>1. /\ Carries(caddyfile', install'.token)
        /\ caddy' # Nothing => Carries(caddy', install'.token)
    BY <1>1, <1>2, <1>3, <1>4 DEF RouteFollows, Serving
  <2>2. QED
    BY <1>4, <1>5, <2>1 DEF RouteFollows
<1>9. FilesFollow'
  <2>1. dotenvs \in [Dir -> (1 .. installs) \cup {Nothing}]
    BY <1>2 DEF InstallTypes, InstallTypeOK
  <2>2. /\ install'.at \in {"sudoers", "env", "unit", "start"} => applyEnv' = install'.dir
        /\ install'.at \in {"env", "unit", "start"} => grant' = install'.dir
        /\ install'.at = "start" => unit' = install'.dir
    BY <1>2, <1>3, <1>4 DEF FilesFollow
  <2>3. install'.at \in {"unit", "start"} => dotenvs'[install'.dir] = install'.token
    BY <1>2, <1>3, <1>4, <1>6, <2>1 DEF FilesFollow
  <2>4. QED
    BY <2>2, <2>3 DEF FilesFollow
<1>10. InstalledHolds' /\ DownIsCounted'
  BY <1>2, <1>4, <1>5 DEF InstalledHolds, DownIsCounted
<1>11. QED
  BY <1>7, <1>8, <1>9, <1>10 DEF InstallInv

\* The unit that was started runs with the token its directory has.
LEMMA StartedPanel ==
  ASSUME InstallTypes, unit \in Dir, dotenvs[unit] # Nothing
  PROVE  Started \in [dir : Dir, token : 1 .. installs]
<1>1. dotenvs[unit] \in 1 .. installs
  BY DEF InstallTypes, InstallTypeOK
<1>2. QED
  BY <1>1 DEF Started

\* The last step starts the panel on what the earlier ones wrote.
LEMMA StartKeeps ==
  ASSUME InstallInv, StartPanel
  PROVE  InstallInv'
<1>1. /\ install.at = "start" /\ enabled' = TRUE /\ panel' = Started /\ Ends("ok")
      /\ caddyfile' = caddyfile /\ caddy' = caddy /\ kept' = kept
      /\ applyEnv' = applyEnv /\ grant' = grant /\ dotenvs' = dotenvs /\ unit' = unit
      /\ installs' = installs /\ mishaps' = mishaps
  BY DEF StartPanel, caddyVars, boundVars
<1>2. InstallTypes /\ CaddyStaysUp' /\ RouteFollows /\ FilesFollow
  BY <1>1 DEF InstallInv, DownIsCounted, CaddyStaysUp
<1>3. /\ install' \in InstallRun /\ install'.at = "none" /\ install'.dir = Nothing
      /\ install'.token = 0 /\ install'.saved \in Seq(CaddyLine)
      /\ install'.patched \in Seq(CaddyLine)
  BY <1>1, RunEnds
<1>4. /\ install.dir \in Dir /\ install.token \in 1 .. installs /\ installs \in Nat
      /\ unit = install.dir /\ applyEnv = install.dir /\ grant = install.dir
      /\ dotenvs[unit] = install.token
  BY <1>1, <1>2, InstallFields DEF FilesFollow
<1>5. dotenvs[unit] # Nothing
  BY <1>4, InstallAssumption
<1>6. Started \in [dir : Dir, token : 1 .. installs]
  BY <1>2, <1>4, <1>5, StartedPanel
<1>7. InstallTypeOK'
  BY <1>1, <1>2, <1>3, <1>6, InstallFields DEF InstallTypes, InstallTypeOK, InstallStep
<1>8. InstallTypes'
  BY <1>1, <1>2, <1>3, <1>4, <1>7 DEF InstallTypes
<1>9. RouteFollows' /\ FilesFollow' /\ DownIsCounted'
  BY <1>2, <1>3 DEF RouteFollows, FilesFollow, DownIsCounted, Serving
<1>10. InstalledHolds'
  <2>1. Started' = Started
    BY <1>1 DEF Started
  <2>2. /\ Carries(caddyfile, dotenvs[unit])
        /\ caddy # Nothing => Carries(caddy, dotenvs[unit])
    BY <1>1, <1>2, <1>4 DEF RouteFollows, Serving
  <2>3. QED
    BY <1>1, <1>4, <1>5, <2>1, <2>2 DEF InstalledHolds
<1>11. QED
  BY <1>8, <1>9, <1>10 DEF InstallInv

\* A command that fails ends the run; the last one leaves the unit enabled.
LEMMA FailureKeeps ==
  ASSUME InstallInv, StepFails
  PROVE  InstallInv'
<1>1. /\ install.at # "none" /\ mishaps' = mishaps + 1 /\ Ends("failed")
      /\ caddyfile' = caddyfile /\ caddy' = caddy /\ kept' = kept
      /\ applyEnv' = applyEnv /\ grant' = grant /\ dotenvs' = dotenvs /\ unit' = unit
      /\ installs' = installs
      /\ \/ enabled' = enabled /\ panel' = panel
         \/ install.at = "start" /\ enabled' = TRUE /\ panel' = Nothing
  BY DEF StepFails, Mishap, caddyVars
<1>2. InstallTypes /\ mishaps \in Nat
  BY InstallFields DEF InstallInv
<1>3. /\ install' \in InstallRun /\ install'.at = "none" /\ install'.dir = Nothing
      /\ install'.token = 0 /\ install'.saved \in Seq(CaddyLine)
      /\ install'.patched \in Seq(CaddyLine)
  BY <1>1, RunEnds
<1>4. enabled' \in BOOLEAN /\ (enabled' => unit \in Dir)
  <2>1. enabled \in BOOLEAN /\ (enabled => unit \in Dir)
    BY <1>2 DEF InstallTypes
  <2>2. install.at = "start" => unit \in Dir
    BY <1>1, <1>2, InstallFields DEF InstallInv, FilesFollow
  <2>3. CASE enabled' = enabled
    BY <2>1, <2>3
  <2>4. CASE install.at = "start" /\ enabled' = TRUE
    BY <2>2, <2>4
  <2>5. QED
    BY <1>1, <2>3, <2>4
<1>5. InstallTypeOK'
  BY <1>1, <1>2, <1>3, InstallFields DEF InstallTypes, InstallTypeOK, InstallStep
<1>6. InstallTypes'
  BY <1>1, <1>2, <1>3, <1>4, <1>5 DEF InstallTypes
<1>7. CaddyStaysUp'
  BY <1>1, <1>2 DEF CaddyStaysUp
<1>8. RouteFollows' /\ FilesFollow' /\ InstalledHolds' /\ DownIsCounted'
  BY <1>1, <1>7, EndKeeps
<1>9. QED
  BY <1>6, <1>8 DEF InstallInv

\* A run that is cut short leaves a Caddyfile, whole or torn.
LEMMA CutFiles ==
  ASSUME InstallTypes, Interrupted
  PROVE  /\ caddyfile' \in Seq(CaddyLine) /\ kept' \in Seq(CaddyLine)
         /\ install.at = "none" => caddyfile' = caddyfile
<1>1. /\ caddyfile \in Seq(CaddyLine) /\ kept \in Seq(CaddyLine)
      /\ install.saved \in Seq(CaddyLine) /\ install.patched \in Seq(CaddyLine)
  BY InstallFields
<1>2. CASE install.at \in {"copy", "restore"}
  <2>1. PICK file \in {install.patched, install.saved} : Torn(file)
    BY <1>2 DEF Interrupted
  <2>2. PICK n \in 0 .. Len(file) - 1 :
          caddyfile' = SubSeq(file, 1, n) /\ kept' = caddyfile'
    BY <2>1 DEF Torn
  <2>3. SubSeq(file, 1, n) \in Seq(CaddyLine)
    BY <1>1, FileParts
  <2>4. QED
    BY <1>2, <2>2, <2>3
<1>3. CASE install.at \notin {"copy", "restore"}
  BY <1>1, <1>3 DEF Interrupted
<1>4. QED
  BY <1>2, <1>3

LEMMA KillKeeps ==
  ASSUME InstallInv, InstallKilled
  PROVE  InstallInv'
<1>1. /\ mishaps' = mishaps + 1 /\ Ends("killed") /\ Interrupted
      /\ caddy' = caddy /\ panelVars' = panelVars /\ installs' = installs
  BY DEF InstallKilled, Mishap
<1>2. InstallTypes /\ mishaps \in Nat
  BY InstallFields DEF InstallInv
<1>3. /\ install' \in InstallRun /\ install'.at = "none" /\ install'.dir = Nothing
      /\ install'.token = 0 /\ install'.saved \in Seq(CaddyLine)
      /\ install'.patched \in Seq(CaddyLine)
  BY <1>1, RunEnds
<1>4. caddyfile' \in Seq(CaddyLine) /\ kept' \in Seq(CaddyLine)
  BY <1>1, <1>2, CutFiles
<1>5. InstallTypes'
  BY <1>1, <1>2, <1>3, <1>4, InstallFields, SamePanelTypes DEF InstallStep
<1>6. CaddyStaysUp'
  BY <1>1, <1>2 DEF CaddyStaysUp
<1>7. RouteFollows' /\ FilesFollow' /\ InstalledHolds' /\ DownIsCounted'
  BY <1>1, <1>6, EndKeeps
<1>8. QED
  BY <1>5, <1>7 DEF InstallInv

\* Caddy and the panel come up with the files they find.
LEMMA RebootKeeps ==
  ASSUME InstallInv, Reboot
  PROVE  InstallInv'
<1>1. /\ mishaps' = mishaps + 1 /\ Interrupted
      /\ caddy' = caddyfile' \/ caddy' = Nothing
      /\ panel' = IF enabled /\ dotenvs[unit] # Nothing THEN Started ELSE Nothing
      /\ applyEnv' = applyEnv /\ grant' = grant /\ dotenvs' = dotenvs /\ unit' = unit
      /\ enabled' = enabled /\ installs' = installs
      /\ \/ install.at = "none" /\ install' = install /\ outcome' = outcome
         \/ Ends("killed")
  BY DEF Reboot, Mishap
<1>2. InstallTypes /\ mishaps \in Nat
  BY InstallFields DEF InstallInv
<1>3. /\ install' \in InstallRun /\ install'.at = "none"
      /\ install'.dir \in Dir \cup {Nothing} /\ install'.token \in 0 .. installs
      /\ install'.saved \in Seq(CaddyLine) /\ install'.patched \in Seq(CaddyLine)
  <2>1. CASE install.at = "none" /\ install' = install
    BY <1>2, <2>1, InstallFields DEF InstallTypes
  <2>2. CASE Ends("killed")
    BY <1>2, <2>2, RunEnds, InstallFields
  <2>3. QED
    BY <1>1, <2>1, <2>2
<1>4. /\ caddyfile' \in Seq(CaddyLine) /\ kept' \in Seq(CaddyLine)
      /\ install.at = "none" => caddyfile' = caddyfile
  BY <1>1, <1>2, CutFiles
<1>5. panel' = Nothing \/ panel' \in [dir : Dir, token : 1 .. installs]
  BY <1>1, <1>2, StartedPanel DEF InstallTypes
<1>6. InstallTypeOK'
  BY <1>1, <1>2, <1>3, <1>4, <1>5, InstallFields
     DEF InstallTypes, InstallTypeOK, InstallStep
<1>7. InstallTypes'
  BY <1>1, <1>2, <1>3, <1>6 DEF InstallTypes
<1>8. CaddyStaysUp' /\ DownIsCounted'
  BY <1>1, <1>2, <1>3 DEF CaddyStaysUp, DownIsCounted
<1>9. RouteFollows' /\ FilesFollow'
  BY <1>3 DEF RouteFollows, FilesFollow, Serving
<1>10. InstalledHolds'
  <2> SUFFICES ASSUME install.at = "none", outcome = "ok"
               PROVE  InstalledHolds'
    <3>1. CASE Ends("killed")
      BY <3>1, EndKeeps
    <3>2. CASE install.at = "none" /\ outcome' = outcome
      BY <3>2 DEF InstalledHolds
    <3>3. QED
      BY <1>1, <3>1, <3>2
  <2>1. /\ enabled /\ dotenvs[unit] # Nothing
        /\ applyEnv = unit /\ grant = unit /\ Carries(caddyfile, dotenvs[unit])
    BY DEF InstallInv, InstalledHolds
  <2>2. Started' = Started /\ panel' = Started
    BY <1>1, <2>1 DEF Started
  <2>3. caddy' # Nothing => Carries(caddy', dotenvs[unit])
    BY <1>1, <1>4, <2>1
  <2>4. QED
    BY <1>1, <1>4, <2>1, <2>2, <2>3 DEF InstalledHolds
<1>11. QED
  BY <1>7, <1>8, <1>9, <1>10 DEF InstallInv

\* The administrator edits the Caddyfile while no run is under way.
LEMMA EditKeeps ==
  ASSUME InstallInv, EditCaddyfile
  PROVE  InstallInv'
<1>1. /\ install.at = "none" /\ outcome' = "edited" /\ caddy' = caddy
      /\ panelVars' = panelVars /\ install' = install /\ installs' = installs
      /\ mishaps' = mishaps
      /\ \/ /\ caddyfile' = <<L("text")>> \o caddyfile
            /\ kept' = <<L("text")>> \o kept
         \/ \E i \in DOMAIN caddyfile :
              caddyfile' = RemoveAt(caddyfile, i) /\ kept' = caddyfile'
         \/ caddyfile' \in Sites /\ kept' = caddyfile'
  BY DEF EditCaddyfile
<1>2. InstallTypes /\ caddyfile \in Seq(CaddyLine) /\ kept \in Seq(CaddyLine)
  BY InstallFields DEF InstallInv
<1>3. caddyfile' \in Seq(CaddyLine) /\ kept' \in Seq(CaddyLine)
  <2>1. CASE /\ caddyfile' = <<L("text")>> \o caddyfile
             /\ kept' = <<L("text")>> \o kept
    BY <1>2, <2>1, FileParts
  <2>2. CASE \E i \in DOMAIN caddyfile :
               caddyfile' = RemoveAt(caddyfile, i) /\ kept' = caddyfile'
    BY <1>2, <2>2, FileParts
  <2>3. CASE caddyfile' \in Sites /\ kept' = caddyfile'
    BY <2>3, InstallAssumption
  <2>4. QED
    BY <1>1, <2>1, <2>2, <2>3
<1>4. InstallTypes'
  BY <1>1, <1>2, <1>3, InstallFields, SamePanelTypes DEF InstallTypes
<1>5. RouteFollows' /\ FilesFollow' /\ InstalledHolds'
  BY <1>1 DEF RouteFollows, FilesFollow, InstalledHolds, Serving
<1>6. DownIsCounted'
  BY <1>1 DEF InstallInv, DownIsCounted, CaddyStaysUp
<1>7. QED
  BY <1>4, <1>5, <1>6 DEF InstallInv

LEMMA InstallStutters ==
  ASSUME InstallInv, UNCHANGED installVars
  PROVE  InstallInv'
<1>1. /\ caddyfile' = caddyfile /\ caddy' = caddy /\ kept' = kept
      /\ applyEnv' = applyEnv /\ grant' = grant /\ dotenvs' = dotenvs /\ unit' = unit
      /\ enabled' = enabled /\ panel' = panel /\ installs' = installs
      /\ mishaps' = mishaps /\ install' = install /\ outcome' = outcome
  BY DEF installVars, caddyVars, panelVars, boundVars
<1>2. InstallTypes'
  BY <1>1 DEF InstallInv, InstallTypes, InstallTypeOK
<1>3. RouteFollows' /\ FilesFollow' /\ DownIsCounted'
  BY <1>1 DEF InstallInv, RouteFollows, FilesFollow, DownIsCounted, CaddyStaysUp
<1>4. InstalledHolds'
  BY <1>1 DEF InstallInv, InstalledHolds, Started
<1>5. QED
  BY <1>2, <1>3, <1>4 DEF InstallInv

LEMMA InstallInitHolds ==
  InstallInit => InstallInv
<1> SUFFICES ASSUME InstallInit
             PROVE  InstallInv
  OBVIOUS
<1>1. /\ caddyfile \in Seq(CaddyLine) /\ caddy = caddyfile /\ kept = caddyfile
      /\ applyEnv = Nothing /\ grant = Nothing /\ unit = Nothing /\ enabled = FALSE
      /\ dotenvs = [d \in Dir |-> Nothing] /\ panel = Nothing
      /\ install = NoInstall /\ outcome = "none" /\ installs = 0 /\ mishaps = 0
  BY InstallAssumption DEF InstallInit
<1>2. /\ NoInstall \in InstallRun /\ install.at = "none" /\ install.dir = Nothing
      /\ install.token = 0 /\ install.saved = <<>> /\ install.patched = <<>>
  <2>1. <<>> \in Seq(CaddyLine) /\ 0 \in 0 .. MaxInstalls
    BY EmptySeq, InstallAssumption
  <2>2. QED
    BY <1>1, <2>1 DEF NoInstall, InstallRun, InstallStep
<1>3. InstallTypeOK
  BY <1>1, <1>2, EmptySeq DEF InstallTypeOK, InstallStep
<1>4. InstallTypes
  <2>1. 0 \in 0 .. MaxInstalls /\ 0 \in Nat /\ FALSE \in BOOLEAN
    BY InstallAssumption
  <2>2. install \in InstallRun /\ installs \in 0 .. MaxInstalls /\ mishaps \in Nat
    BY <1>1, <1>2, <2>1
  <2>3. enabled \in BOOLEAN /\ ~enabled
    BY <1>1
  <2>4. QED
    BY <1>2, <1>3, <2>2, <2>3 DEF InstallTypes
<1>5. RouteFollows /\ FilesFollow /\ InstalledHolds
  BY <1>1, <1>2 DEF RouteFollows, FilesFollow, InstalledHolds, Serving
<1>6. DownIsCounted
  BY <1>1, <1>2, InstallAssumption DEF DownIsCounted, CaddyStaysUp
<1>7. QED
  BY <1>4, <1>5, <1>6 DEF InstallInv

\* InstallInv holds after any number of runs of the installer, whichever commands
\* fail, wherever a run is killed or the host restarts, and whatever is edited
\* between runs: the panel's path is in the file that is validated, in the one Caddy
\* restarts with and in what it serves while the rest is installed, and each file
\* that was written has the directory and the token of the run.
THEOREM InstallInvariant ==
  InstallSpec => []InstallInv
<1>1. InstallInit => InstallInv
  BY InstallInitHolds
<1>2. InstallInv /\ [InstallNext]_installVars => InstallInv'
  <2> SUFFICES ASSUME InstallInv, [InstallNext]_installVars
               PROVE  InstallInv'
    OBVIOUS
  <2>1. CASE InstallBegins
    BY <2>1, InstallBeginsKeeps
  <2>2. CASE Backup \/ Patch \/ Validate
    BY <2>2, PatchingKeeps
  <2>3. CASE CopyPatched \/ RestoreCaddyfile
    BY <2>3, CopiesKeep
  <2>4. CASE RestartCaddy \/ RestartAgain
    BY <2>4, RestartsKeep
  <2>5. CASE GetBinary \/ InstallScript \/ InstallSudoers \/ WriteDotenv \/ InstallUnit
    BY <2>5, WritesKeep
  <2>6. CASE StartPanel
    BY <2>6, StartKeeps
  <2>7. CASE StepFails
    BY <2>7, FailureKeeps
  <2>8. CASE InstallKilled
    BY <2>8, KillKeeps
  <2>9. CASE Reboot
    BY <2>9, RebootKeeps
  <2>10. CASE EditCaddyfile
    BY <2>10, EditKeeps
  <2>11. CASE UNCHANGED installVars
    BY <2>11, InstallStutters
  <2>12. QED
    BY <2>1, <2>2, <2>3, <2>4, <2>5, <2>6, <2>7, <2>8, <2>9, <2>10, <2>11
       DEF InstallNext
<1>3. QED
  BY <1>1, <1>2, PTL DEF InstallSpec

\* Every file holds lines and every process runs with a directory and a token that
\* some run gave it.
THEOREM InstallTyped ==
  InstallSpec => []InstallTypeOK
<1>1. InstallInv => InstallTypeOK
  BY DEF InstallInv, InstallTypes
<1>2. QED
  BY <1>1, InstallInvariant, PTL

\* InstalledAgrees: after a run that succeeded the script, the sudoers rule and the
\* unit name the running panel's directory, and Caddy, when it is up, passes that
\* panel's path on.
THEOREM InstallAgrees ==
  InstallSpec => []InstalledAgrees
<1>1. InstallInv => InstalledAgrees
  <2> SUFFICES ASSUME InstallInv, outcome = "ok", install.at = "none"
               PROVE  /\ panel # Nothing
                      /\ applyEnv = panel.dir /\ grant = panel.dir /\ unit = panel.dir
                      /\ caddy # Nothing => Carries(caddy, panel.token)
    BY DEF InstalledAgrees, Carries
  <2>1. /\ InstallTypes /\ enabled /\ dotenvs[unit] # Nothing /\ panel = Started
        /\ applyEnv = unit /\ grant = unit
        /\ caddy # Nothing => Carries(caddy, dotenvs[unit])
    BY DEF InstallInv, InstalledHolds
  <2>2. panel.dir = unit /\ panel.token = dotenvs[unit]
    BY <2>1 DEF Started
  <2>3. panel # Nothing
    <3>1. Started \in [dir : Dir, token : 1 .. installs] /\ installs \in Nat
      BY <2>1, StartedPanel, InstallFields DEF InstallTypes
    <3>2. Started \in [dir : Dir, token : Nat]
      BY <3>1
    <3>3. QED
      BY <2>1, <3>2, InstallAssumption
  <2>4. QED
    BY <2>1, <2>2, <2>3
<1>2. QED
  BY <1>1, InstallInvariant, PTL

\* CaddyStaysUp: the installer takes Caddy down only when Caddy fails with a file it
\* validated, or after something else went wrong.
THEOREM InstallKeepsCaddyUp ==
  InstallSpec => []CaddyStaysUp
<1>1. InstallInv => CaddyStaysUp
  BY DEF InstallInv, DownIsCounted
<1>2. QED
  BY <1>1, InstallInvariant, PTL

------------------------------------------------------------------------------
(* What the two patches make of a file.                                    *)

\* The beginnings of a sequence.
LEMMA PrefixGrows ==
  ASSUME NEW E, NEW s \in Seq(E)
  PROVE  /\ Len(s) \in Nat /\ SubSeq(s, 1, 0) = <<>> /\ SubSeq(s, 1, Len(s)) = s
         /\ \A k \in 0 .. Len(s) :
              /\ SubSeq(s, 1, k) \in Seq(E) /\ Len(SubSeq(s, 1, k)) = k
              /\ \A i \in 1 .. k : SubSeq(s, 1, k)[i] = s[i]
         /\ \A k \in 1 .. Len(s) : SubSeq(s, 1, k) = Append(SubSeq(s, 1, k - 1), s[k])
<1>1. Len(s) \in Nat /\ DOMAIN s = 1 .. Len(s) /\ \A i \in 1 .. Len(s) : s[i] \in E
  BY LenProperties, ElementOfSeq
<1>2. ASSUME NEW k \in 0 .. Len(s)
      PROVE  /\ SubSeq(s, 1, k) \in Seq(E) /\ Len(SubSeq(s, 1, k)) = k
             /\ \A i \in 1 .. k : SubSeq(s, 1, k)[i] = s[i]
  <2>1. \A i \in 1 .. k : s[i] \in E
    BY <1>1
  <2>2. QED
    BY <2>1, SubSeqProperties
<1>3. SubSeq(s, 1, 0) = <<>>
  <2>1. 0 \in 0 .. Len(s)
    BY <1>1
  <2>2. SubSeq(s, 1, 0) \in Seq(E) /\ Len(SubSeq(s, 1, 0)) = 0
    BY <1>2, <2>1
  <2>3. QED
    BY <2>2, EmptySeq
<1>4. SubSeq(s, 1, Len(s)) = s
  <2> DEFINE t == SubSeq(s, 1, Len(s))
  <2>1. Len(s) \in 0 .. Len(s)
    BY <1>1
  <2>2. t \in Seq(E) /\ Len(t) = Len(s) /\ \A i \in 1 .. Len(s) : t[i] = s[i]
    BY <1>2, <2>1
  <2> HIDE DEF t
  <2>3. t = s
    BY <2>2, SeqEqual
  <2>4. QED
    BY <2>3 DEF t
<1>5. ASSUME NEW k \in 1 .. Len(s)
      PROVE  SubSeq(s, 1, k) = Append(SubSeq(s, 1, k - 1), s[k])
  <2> DEFINE t == SubSeq(s, 1, k)
             r == SubSeq(s, 1, k - 1)
             a == Append(r, s[k])
  <2>1. k \in 0 .. Len(s) /\ k - 1 \in 0 .. Len(s) /\ s[k] \in E
    BY <1>1
  <2>2. t \in Seq(E) /\ Len(t) = k /\ \A i \in 1 .. k : t[i] = s[i]
    BY <1>2, <2>1
  <2>3. r \in Seq(E) /\ Len(r) = k - 1 /\ \A i \in 1 .. k - 1 : r[i] = s[i]
    BY <1>2, <2>1
  <2> HIDE DEF t, r
  <2>4. a \in Seq(E) /\ Len(a) = (k - 1) + 1 /\ a[(k - 1) + 1] = s[k]
        /\ \A i \in 1 .. k - 1 : a[i] = r[i]
    BY <2>1, <2>3, AppendProperties
  <2> HIDE DEF a
  <2>5. ASSUME NEW i \in 1 .. Len(t)
        PROVE  t[i] = a[i]
    <3>1. t[i] = s[i] /\ i \in 1 .. k
      BY <2>2
    <3>2. CASE i = k
      <4>1. (k - 1) + 1 = k
        BY <1>1
      <4>2. QED
        BY <2>4, <3>1, <3>2, <4>1
    <3>3. CASE i # k
      <4>1. i \in 1 .. k - 1
        BY <1>1, <3>1, <3>3
      <4>2. QED
        BY <2>3, <2>4, <3>1, <4>1
    <3>4. QED
      BY <3>2, <3>3
  <2>6. t = a
    BY <2>2, <2>4, <2>5, SeqEqual
  <2>7. QED
    BY <2>6 DEF t, r, a
<1>6. QED
  BY <1>1, <1>2, <1>3, <1>4, <1>5

\* The beginnings of a sequence that is joined from two.
LEMMA JoinedPrefix ==
  ASSUME NEW E, NEW a \in Seq(E), NEW b \in Seq(E), NEW n \in 0 .. Len(a) + Len(b)
  PROVE  /\ Len(a) \in Nat /\ Len(b) \in Nat
         /\ a \o b \in Seq(E) /\ Len(a \o b) = Len(a) + Len(b)
         /\ n <= Len(a) => SubSeq(a \o b, 1, n) = SubSeq(a, 1, n)
         /\ n >= Len(a) => SubSeq(a \o b, 1, n) = a \o SubSeq(b, 1, n - Len(a))
<1> DEFINE c == a \o b
           d == SubSeq(c, 1, n)
<1>1. /\ Len(a) \in Nat /\ Len(b) \in Nat /\ c \in Seq(E) /\ Len(c) = Len(a) + Len(b)
      /\ \A i \in 1 .. Len(a) : c[i] = a[i]
      /\ \A i \in 1 .. Len(b) : c[Len(a) + i] = b[i]
  BY ConcatProperties, LenProperties
<1> HIDE DEF c
<1>2. d \in Seq(E) /\ Len(d) = n /\ \A i \in 1 .. n : d[i] = c[i]
  BY <1>1, PrefixGrows
<1> HIDE DEF d
<1>3. ASSUME n <= Len(a)
      PROVE  d = SubSeq(a, 1, n)
  <2> DEFINE e == SubSeq(a, 1, n)
  <2>1. n \in 0 .. Len(a)
    BY <1>1, <1>3
  <2>2. e \in Seq(E) /\ Len(e) = n /\ \A i \in 1 .. n : e[i] = a[i]
    BY <2>1, PrefixGrows
  <2> HIDE DEF e
  <2>3. \A i \in 1 .. Len(d) : d[i] = e[i]
    <3>1. \A i \in 1 .. n : i \in 1 .. Len(a)
      BY <1>1, <1>3
    <3>2. QED
      BY <1>1, <1>2, <2>2, <3>1
  <2>4. d = e
    BY <1>2, <2>2, <2>3, SeqEqual
  <2>5. QED
    BY <2>4 DEF e
<1>4. ASSUME n >= Len(a)
      PROVE  d = a \o SubSeq(b, 1, n - Len(a))
  <2> DEFINE e == SubSeq(b, 1, n - Len(a))
             f == a \o e
  <2>1. n - Len(a) \in 0 .. Len(b)
    BY <1>1, <1>4
  <2>2. /\ e \in Seq(E) /\ Len(e) = n - Len(a)
        /\ \A i \in 1 .. n - Len(a) : e[i] = b[i]
    BY <2>1, PrefixGrows
  <2> HIDE DEF e
  <2>3. /\ f \in Seq(E) /\ Len(f) = Len(a) + Len(e)
        /\ \A i \in 1 .. Len(a) : f[i] = a[i]
        /\ \A i \in 1 .. Len(e) : f[Len(a) + i] = e[i]
    BY <2>2, ConcatProperties, LenProperties
  <2> HIDE DEF f
  <2>4. ASSUME NEW i \in 1 .. n
        PROVE  d[i] = f[i]
    <3>1. CASE i <= Len(a)
      BY <1>1, <1>2, <2>3, <3>1
    <3>2. CASE i > Len(a)
      <4> DEFINE j == i - Len(a)
      <4>1. /\ j \in 1 .. n - Len(a) /\ j \in 1 .. Len(b) /\ j \in 1 .. Len(e)
            /\ Len(a) + j = i
        BY <1>1, <2>1, <2>2, <3>2
      <4> HIDE DEF j
      <4>2. c[Len(a) + j] = b[j]
        BY <1>1, <4>1
      <4>3. f[Len(a) + j] = e[j]
        BY <2>3, <4>1
      <4>4. d[i] = c[i] /\ e[j] = b[j]
        BY <1>2, <2>2, <4>1
      <4>5. QED
        BY <4>1, <4>2, <4>3, <4>4
    <3>3. QED
      BY <1>1, <3>1, <3>2
  <2>5. Len(f) = n
    BY <1>1, <2>1, <2>2, <2>3
  <2>6. d = f
    BY <1>2, <2>3, <2>4, <2>5, SeqEqual
  <2>7. QED
    BY <2>6 DEF e, f
<1>5. QED
  BY <1>1, <1>3, <1>4 DEF c, d

\* What a line adds to the braces.
LEMMA BracesOfLines ==
  ASSUME NEW s \in Seq(CaddyLine)
  PROVE  /\ OpenBraces(<<>>) = 0 /\ OpenBraces(s) \in Int
         /\ \A line \in CaddyLine :
              /\ Append(s, line) \in Seq(CaddyLine) /\ Nesting(line) \in Int
              /\ OpenBraces(Append(s, line)) = OpenBraces(s) + Nesting(line)
<1>1. L("text") \in CaddyLine
  BY InstallAssumption DEF L, CaddyLine, Part
<1>2. \A line \in CaddyLine : Nesting(line) \in Int
  BY DEF Nesting
<1>3. QED
  BY <1>1, <1>2, BracesAppends, AppendProperties

\* Braces of two files add up.
LEMMA BracesJoined ==
  ASSUME NEW s \in Seq(CaddyLine), NEW w \in Seq(CaddyLine)
  PROVE  /\ OpenBraces(s) \in Int /\ OpenBraces(w) \in Int
         /\ OpenBraces(s \o w) = OpenBraces(s) + OpenBraces(w)
<1> DEFINE n == Len(w)
           T == {k \in 0 .. n :
                   OpenBraces(Extended(s, w, k)) =
                     OpenBraces(s) + OpenBraces(SubSeq(w, 1, k))}
<1>1. /\ n \in Nat /\ \A i \in 1 .. n : w[i] \in CaddyLine
      /\ SubSeq(w, 1, 0) = <<>> /\ SubSeq(w, 1, n) = w
      /\ \A k \in 0 .. n : SubSeq(w, 1, k) \in Seq(CaddyLine)
      /\ \A k \in 1 .. n : SubSeq(w, 1, k) = Append(SubSeq(w, 1, k - 1), w[k])
  BY PrefixGrows, ElementOfSeq
<1>2. /\ Extended(s, w, 0) = s /\ Extended(s, w, n) = s \o w
      /\ \A k \in 0 .. n : Extended(s, w, k) \in Seq(CaddyLine)
      /\ \A k \in 1 .. n : Extended(s, w, k) = Append(Extended(s, w, k - 1), w[k])
  BY Extends
<1>3. \A t \in Seq(CaddyLine) : OpenBraces(t) \in Int
  BY BracesOfLines
<1> HIDE DEF n
<1>4. T = 0 .. n
  <2>1. T \in SUBSET (0 .. n)
    OBVIOUS
  <2>2. 0 \in T
    <3>1. OpenBraces(<<>>) = 0 /\ OpenBraces(s) \in Int
      BY BracesOfLines
    <3>2. 0 \in 0 .. n
      BY <1>1
    <3> DEFINE e == Extended(s, w, 0)
               r == SubSeq(w, 1, 0)
    <3>3. OpenBraces(e) = OpenBraces(s) + OpenBraces(r)
      <4>1. e = s /\ r = <<>>
        BY <1>1, <1>2
      <4> HIDE DEF e, r
      <4>2. QED
        BY <3>1, <4>1
    <3>4. QED
      BY <3>2, <3>3
  <2>3. ASSUME NEW k \in 1 .. n, k - 1 \in T
        PROVE  k \in T
    <3> DEFINE e == Extended(s, w, k - 1)
               r == SubSeq(w, 1, k - 1)
    <3>1. k - 1 \in 0 .. n /\ k \in 0 .. n /\ w[k] \in CaddyLine
      BY <1>1
    <3>2. /\ e \in Seq(CaddyLine) /\ r \in Seq(CaddyLine)
          /\ Extended(s, w, k) = Append(e, w[k]) /\ SubSeq(w, 1, k) = Append(r, w[k])
          /\ OpenBraces(e) = OpenBraces(s) + OpenBraces(r)
      BY <1>1, <1>2, <2>3, <3>1
    <3> HIDE DEF e, r
    <3>3. /\ OpenBraces(Append(e, w[k])) = OpenBraces(e) + Nesting(w[k])
          /\ OpenBraces(Append(r, w[k])) = OpenBraces(r) + Nesting(w[k])
      BY <3>1, <3>2, BracesAppends
    <3>4. OpenBraces(s) \in Int /\ OpenBraces(r) \in Int /\ Nesting(w[k]) \in Int
      <4>1. Nesting(w[k]) \in Int
        BY DEF Nesting
      <4>2. QED
        BY <1>3, <3>2, <4>1
    <3> DEFINE f == Extended(s, w, k)
               t == SubSeq(w, 1, k)
    <3>5. OpenBraces(f) = OpenBraces(s) + OpenBraces(t)
      <4>1. f = Append(e, w[k]) /\ t = Append(r, w[k])
        BY <3>2
      <4> HIDE DEF f, t
      <4> DEFINE fe == Append(e, w[k])
                 tr == Append(r, w[k])
      <4>2. /\ OpenBraces(fe) = OpenBraces(e) + Nesting(w[k])
            /\ OpenBraces(tr) = OpenBraces(r) + Nesting(w[k])
        BY <3>3
      <4>3. f = fe /\ t = tr
        BY <4>1
      <4> HIDE DEF fe, tr
      <4>4. QED
        BY <3>2, <3>4, <4>2, <4>3
    <3>6. QED
      BY <3>1, <3>5
  <2> HIDE DEF T
  <2>4. QED
    BY <1>1, <2>1, <2>2, <2>3, PrefixInduction
<1>5. n \in 0 .. n
  BY <1>1
<1>6. QED
  BY <1>1, <1>2, <1>3, <1>4, <1>5

\* The panel's block closes what it opens.
LEMMA BracesOfBlock ==
  ASSUME NEW s \in Seq(CaddyLine), NEW token \in 0 .. MaxInstalls
  PROVE  OpenBraces(s \o ManagedBlock(token)) = OpenBraces(s)
<1> DEFINE a == L("begin")
           b == [part |-> "route", token |-> token]
           c == L("end")
           one == Append(<<>>, a)
           two == Append(one, b)
           three == Append(two, c)
<1>1. a \in CaddyLine /\ b \in CaddyLine /\ c \in CaddyLine
  BY InstallAssumption DEF L, CaddyLine, Part
<1>2. Nesting(a) = 0 /\ Nesting(b) = 0 /\ Nesting(c) = 0
  BY DEF Nesting, L
<1>3. ManagedBlock(token) = three
  BY DEF ManagedBlock
<1> HIDE DEF a, b, c
<1>4. one \in Seq(CaddyLine) /\ OpenBraces(one) = 0
  <2>1. <<>> \in Seq(CaddyLine)
    BY EmptySeq
  <2>2. OpenBraces(<<>>) = 0
    BY BracesOfLines
  <2>3. OpenBraces(one) = OpenBraces(<<>>) + Nesting(a)
    BY <1>1, <2>1, BracesAppends
  <2>4. QED
    BY <1>1, <1>2, <2>1, <2>2, <2>3, AppendProperties
<1> HIDE DEF one
<1>5. two \in Seq(CaddyLine) /\ OpenBraces(two) = 0
  BY <1>1, <1>2, <1>4, BracesAppends, AppendProperties
<1> HIDE DEF two
<1>6. three \in Seq(CaddyLine) /\ OpenBraces(three) = 0
  BY <1>1, <1>2, <1>5, BracesAppends, AppendProperties
<1> HIDE DEF three
<1>7. OpenBraces(s \o three) = OpenBraces(s) + 0
  BY <1>6, BracesJoined
<1>8. QED
  BY BracesOfLines, <1>3, <1>7


\* A part of the state of a program is set.
LEMMA StateParts ==
  ASSUME NEW ls \in Seq(CaddyLine), NEW b \in BOOLEAN
  PROVE  /\ \A st \in UpdateState :
              /\ [st EXCEPT !.lines = ls] = [lines |-> ls, skip |-> st.skip]
              /\ [st EXCEPT !.skip = b] = [lines |-> st.lines, skip |-> b]
         /\ \A st \in FreshState :
              [st EXCEPT !.lines = ls] = [lines |-> ls, depth |-> st.depth]
  BY DEF UpdateState, FreshState

\* What a file has that is put together or cut.
LEMMA HasParts ==
  ASSUME NEW a \in Seq(CaddyLine), NEW b \in Seq(CaddyLine), NEW part
  PROVE  /\ a \o b \in Seq(CaddyLine)
         /\ Has(a \o b, part) <=> Has(a, part) \/ Has(b, part)
         /\ \A line \in CaddyLine :
              /\ Append(a, line) \in Seq(CaddyLine)
              /\ Has(Append(a, line), part) <=> Has(a, part) \/ line.part = part
         /\ \A n \in 0 .. Len(a) :
              /\ SubSeq(a, 1, n) \in Seq(CaddyLine)
              /\ Has(SubSeq(a, 1, n), part) => Has(a, part)
<1> DEFINE c == a \o b
<1>1. /\ Len(a) \in Nat /\ Len(b) \in Nat /\ DOMAIN a = 1 .. Len(a) /\ DOMAIN b = 1 .. Len(b)
      /\ c \in Seq(CaddyLine) /\ DOMAIN c = 1 .. Len(a) + Len(b)
      /\ \A i \in 1 .. Len(a) : c[i] = a[i]
      /\ \A i \in 1 .. Len(b) : c[Len(a) + i] = b[i]
  BY ConcatProperties, LenProperties
<1> HIDE DEF c
<1>2. Has(c, part) <=> Has(a, part) \/ Has(b, part)
  <2>1. ASSUME NEW i \in DOMAIN c, c[i].part = part
        PROVE  Has(a, part) \/ Has(b, part)
    <3>1. CASE i <= Len(a)
      BY <1>1, <2>1, <3>1 DEF Has
    <3>2. CASE i > Len(a)
      <4>1. i - Len(a) \in 1 .. Len(b) /\ Len(a) + (i - Len(a)) = i
        BY <1>1, <3>2
      <4>2. b[i - Len(a)].part = part
        BY <1>1, <2>1, <4>1
      <4>3. QED
        BY <1>1, <4>1, <4>2 DEF Has
    <3>3. QED
      BY <1>1, <3>1, <3>2
  <2>2. ASSUME NEW i \in DOMAIN a, a[i].part = part
        PROVE  Has(c, part)
    BY <1>1, <2>2 DEF Has
  <2>3. ASSUME NEW i \in DOMAIN b, b[i].part = part
        PROVE  Has(c, part)
    <3>1. Len(a) + i \in DOMAIN c /\ c[Len(a) + i].part = part
      BY <1>1, <2>3
    <3>2. QED
      BY <3>1 DEF Has
  <2>4. QED
    BY <2>1, <2>2, <2>3 DEF Has
<1>3. ASSUME NEW line \in CaddyLine
      PROVE  /\ Append(a, line) \in Seq(CaddyLine)
             /\ Has(Append(a, line), part) <=> Has(a, part) \/ line.part = part
  <2> DEFINE d == Append(a, line)
  <2>1. /\ d \in Seq(CaddyLine) /\ DOMAIN d = 1 .. Len(a) + 1 /\ d[Len(a) + 1] = line
        /\ \A i \in 1 .. Len(a) : d[i] = a[i]
    BY AppendProperties, LenProperties
  <2> HIDE DEF d
  <2>2. Has(d, part) => Has(a, part) \/ line.part = part
    BY <1>1, <2>1 DEF Has
  <2>3. Has(a, part) => Has(d, part)
    BY <1>1, <2>1 DEF Has
  <2>4. line.part = part => Has(d, part)
    <3>1. Len(a) + 1 \in DOMAIN d
      BY <1>1, <2>1
    <3>2. QED
      BY <2>1, <3>1 DEF Has
  <2>5. QED
    BY <2>1, <2>2, <2>3, <2>4 DEF d
<1>4. ASSUME NEW n \in 0 .. Len(a)
      PROVE  /\ SubSeq(a, 1, n) \in Seq(CaddyLine)
             /\ Has(SubSeq(a, 1, n), part) => Has(a, part)
  <2> DEFINE d == SubSeq(a, 1, n)
  <2>1. d \in Seq(CaddyLine) /\ Len(d) = n /\ \A i \in 1 .. n : d[i] = a[i]
    BY PrefixGrows
  <2> HIDE DEF d
  <2>2. DOMAIN d = 1 .. n
    BY <2>1, LenProperties
  <2>3. Has(d, part) => Has(a, part)
    BY <1>1, <2>1, <2>2 DEF Has
  <2>4. QED
    BY <2>1, <2>3 DEF d
<1>5. QED
  BY <1>1, <1>2, <1>3, <1>4 DEF c

\* The order in which files are joined makes no difference.
LEMMA JoinsAgree ==
  ASSUME NEW E, NEW a \in Seq(E), NEW b \in Seq(E), NEW c \in Seq(E), NEW e \in E
  PROVE  /\ (a \o b) \o c = a \o (b \o c)
         /\ Append(a, e) = a \o <<e>> /\ <<e>> \in Seq(E)
         /\ a \o Append(b, e) = Append(a \o b, e)
<1>1. (a \o b) \o c = a \o (b \o c)
  BY ConcatAssociative
<1>2. Append(a, e) = a \o <<e>> /\ <<e>> \in Seq(E)
  BY AppendIsConcat
<1>3. a \o Append(b, e) = Append(a \o b, e)
  <2>1. a \o b \in Seq(E)
    BY ConcatProperties
  <2>2. Append(b, e) = b \o <<e>>
    BY AppendIsConcat
  <2> DEFINE ab == a \o b
  <2>3. Append(ab, e) = ab \o <<e>>
    BY <2>1, AppendIsConcat
  <2>4. ab \o <<e>> = a \o (b \o <<e>>)
    BY <1>2, ConcatAssociative
  <2>5. QED
    BY <2>2, <2>3, <2>4
<1>4. QED
  BY <1>1, <1>2, <1>3
\* No line of a managed block's ends is in the file.
Unmarked(file) == ~Has(file, "begin") /\ ~Has(file, "end")

\* A file that has a begin marker, and one that has an end marker after it.
Begun(u, w) == Append(u, L("begin")) \o w
Enclosed(u, w, x) == Append(Begun(u, w), L("end")) \o x

\* The second patch takes over lines without markers, or skips them.
LEMMA UpdatePasses ==
  ASSUME NEW s \in Seq(CaddyLine), NEW w \in Seq(CaddyLine),
         NEW token \in 0 .. MaxInstalls, Unmarked(w)
  PROVE  UpdateEnd(s \o w, token) =
           IF UpdateEnd(s, token).skip THEN UpdateEnd(s, token)
           ELSE [lines |-> UpdateEnd(s, token).lines \o w, skip |-> FALSE]
<1> DEFINE n == Len(w)
           e == UpdateEnd(s, token)
           Since(k) == IF e.skip THEN e
                       ELSE [lines |-> Extended(e.lines, w, k), skip |-> FALSE]
           Reached(k) == UpdateEnd(Extended(s, w, k), token)
           T == {k \in 0 .. n : Reached(k) = Since(k)}
<1>1. /\ n \in Nat /\ DOMAIN w = 1 .. n
      /\ \A i \in 1 .. n : w[i] \in CaddyLine /\ w[i].part \notin {"begin", "end"}
  BY LenProperties, ElementOfSeq DEF Unmarked, Has
<1>2. e \in UpdateState /\ e.lines \in Seq(CaddyLine) /\ e.skip \in BOOLEAN
  <2>1. L("text") \in CaddyLine
    BY InstallAssumption DEF L, CaddyLine, Part
  <2>2. e \in UpdateState
    BY <2>1, UpdateAppends
  <2>3. QED
    BY <2>2 DEF UpdateState
<1> HIDE DEF e
<1>3. /\ Extended(s, w, 0) = s /\ Extended(s, w, n) = s \o w
      /\ \A k \in 0 .. n : Extended(s, w, k) \in Seq(CaddyLine)
      /\ \A k \in 1 .. n : Extended(s, w, k) = Append(Extended(s, w, k - 1), w[k])
  BY Extends
<1>4. /\ Extended(e.lines, w, 0) = e.lines /\ Extended(e.lines, w, n) = e.lines \o w
      /\ \A k \in 1 .. n :
           Extended(e.lines, w, k) = Append(Extended(e.lines, w, k - 1), w[k])
  <2> DEFINE ls == e.lines
  <2>1. ls \in Seq(CaddyLine) /\ w \in Seq(CaddyLine)
    BY <1>2
  <2> HIDE DEF ls
  <2>2. /\ Extended(ls, w, 0) = ls /\ Extended(ls, w, Len(w)) = ls \o w
        /\ \A k \in 1 .. Len(w) :
             Extended(ls, w, k) = Append(Extended(ls, w, k - 1), w[k])
    BY <2>1, Extends
  <2>3. QED
    BY <2>2 DEF ls
<1>5. Reached(0) = e /\ Since(0) = e
  <2>1. Reached(0) = e
    BY <1>3 DEF e
  <2>2. e = [lines |-> e.lines, skip |-> e.skip]
    BY <1>2 DEF UpdateState
  <2>3. QED
    BY <1>2, <1>4, <2>1, <2>2
<1>6. ASSUME NEW k \in 1 .. n, Reached(k - 1) = Since(k - 1)
      PROVE  Reached(k) = Since(k)
  <2> DEFINE b == Extended(s, w, k - 1)
             a == Append(b, w[k])
             st == Since(k - 1)
             ls == Extended(e.lines, w, k - 1)
  <2>1. /\ k - 1 \in 0 .. n /\ w[k] \in CaddyLine /\ w[k].part \notin {"begin", "end"}
        /\ b \in Seq(CaddyLine) /\ Extended(s, w, k) = a
    BY <1>1, <1>3
  <2> DEFINE c == Extended(s, w, k)
  <2>10. Reached(k) = UpdateEnd(a, token)
    <3>1. c = a /\ Reached(k) = UpdateEnd(c, token)
      BY <2>1
    <3> HIDE DEF c, a, Reached
    <3>2. QED
      BY <3>1
  <2>2. UpdateEnd(b, token) = st
    BY <1>6
  <2> HIDE DEF b, st
  <2>3. UpdateEnd(a, token) = UpdateAwk(st, w[k], token)
    BY <2>1, <2>2, UpdateAppends
  <2>4. UpdateAwk(st, w[k], token) =
          [st EXCEPT !.lines = IF st.skip THEN @ ELSE Append(@, w[k])]
    BY <2>1 DEF UpdateAwk
  <2> HIDE DEF a, Reached
  <2>5. CASE e.skip
    <3>1. st = e /\ Since(k) = e
      BY <2>5 DEF st
    <3>2. [st EXCEPT !.lines = IF st.skip THEN @ ELSE Append(@, w[k])] = e
      BY <1>2, <2>5, <3>1 DEF UpdateState
    <3>3. QED
      BY <2>10, <2>3, <2>4, <3>1, <3>2
  <2>6. CASE ~e.skip
    <3>1. st = [lines |-> ls, skip |-> FALSE]
          /\ Since(k) = [lines |-> Append(ls, w[k]), skip |-> FALSE]
      BY <1>4, <2>6 DEF st
    <3> DEFINE grown == Append(ls, w[k])
    <3>2. st.skip = FALSE /\ Append(st.lines, w[k]) = grown
      BY <3>1
    <3> HIDE DEF ls, grown
    <3>3. [st EXCEPT !.lines = IF st.skip THEN @ ELSE Append(@, w[k])] =
            [st EXCEPT !.lines = grown]
      BY <3>2
    <3>4. [st EXCEPT !.lines = grown] = [lines |-> grown, skip |-> FALSE]
      <4>1. ls \in Seq(CaddyLine)
        BY <1>2, <2>1, Extends DEF ls
      <4>2. grown \in Seq(CaddyLine)
        BY <2>1, <4>1, AppendProperties DEF grown
      <4>3. st \in UpdateState
        BY <3>1, <4>1 DEF UpdateState
      <4>4. [st EXCEPT !.lines = grown] = [lines |-> grown, skip |-> st.skip]
        BY <4>2, <4>3, StateParts
      <4>5. QED
        BY <3>1, <4>4
    <3>5. Since(k) = [lines |-> grown, skip |-> FALSE]
      BY <3>1 DEF grown
    <3>6. QED
      BY <2>10, <2>3, <2>4, <3>3, <3>4, <3>5
  <2>7. QED
    BY <2>5, <2>6
<1> HIDE DEF Reached, Since, n
<1>7. T = 0 .. n
  <2>1. T \in SUBSET (0 .. n)
    OBVIOUS
  <2>2. 0 \in T
    BY <1>1, <1>5
  <2>3. \A k \in 1 .. n : k - 1 \in T => k \in T
    BY <1>1, <1>6
  <2> HIDE DEF T
  <2>4. QED
    BY <1>1, <2>1, <2>2, <2>3, PrefixInduction
<1>8. Reached(n) = Since(n)
  <2>1. n \in T
    BY <1>1, <1>7
  <2>2. QED
    BY <2>1
<1>9. UpdateEnd(s \o w, token) = Reached(n)
  BY <1>3 DEF Reached
<1>10. QED
  BY <1>4, <1>8, <1>9 DEF Since, e

\* Concatenation by a name, so that the provers find the terms of a fact about it.
Joined(a, b) == a \o b

LEMMA JoinedInOrder ==
  ASSUME NEW a \in Seq(CaddyLine), NEW b \in Seq(CaddyLine), NEW c \in Seq(CaddyLine)
  PROVE  Joined(Joined(a, b), c) = Joined(a, Joined(b, c))
  BY ConcatAssociative DEF Joined

\* What it makes of a file with one begin marker: without an end marker, the rest
\* is gone.
LEMMA UpdateReplaces ==
  ASSUME NEW u \in Seq(CaddyLine), NEW w \in Seq(CaddyLine), NEW x \in Seq(CaddyLine),
         NEW token \in 0 .. MaxInstalls, Unmarked(u), Unmarked(w), Unmarked(x)
  PROVE  /\ UpdatePatch(Begun(u, w), token) = Joined(u, ManagedBlock(token))
         /\ UpdatePatch(Enclosed(u, w, x), token) =
              Joined(Joined(u, ManagedBlock(token)), x)
<1> DEFINE a == Append(u, L("begin"))
           b == Begun(u, w)
           c == Append(b, L("end"))
           d == Enclosed(u, w, x)
           m == u \o ManagedBlock(token)
<1>1. L("begin") \in CaddyLine /\ L("end") \in CaddyLine
      /\ L("begin").part = "begin" /\ L("end").part = "end"
  BY InstallAssumption DEF L, CaddyLine, Part
<1>2. a \in Seq(CaddyLine) /\ b = a \o w
  BY <1>1, AppendProperties DEF Begun
<1>3. b \in Seq(CaddyLine)
  BY <1>2, ConcatProperties
<1>4. c \in Seq(CaddyLine) /\ d = c \o x
  BY <1>1, <1>3, AppendProperties DEF Enclosed
<1>5. d \in Seq(CaddyLine)
  BY <1>4, ConcatProperties
<1>6. UpdateEnd(u, token) = [lines |-> u, skip |-> FALSE]
  <2>1. UpdateEnd(<<>>, token) = [lines |-> <<>>, skip |-> FALSE] /\ <<>> \in Seq(CaddyLine)
    BY <1>1, UpdateAppends, EmptySeq
  <2> DEFINE z == <<>>
             e == UpdateEnd(z, token)
             r == z \o u
             ls == e.lines \o u
  <2>2. r = u /\ e.skip = FALSE /\ e.lines = z
    BY <2>1, ConcatEmptySeq
  <2>3. z \in Seq(CaddyLine)
    BY <2>1
  <2> HIDE DEF z
  <2>4. UpdateEnd(r, token) = IF e.skip THEN e ELSE [lines |-> ls, skip |-> FALSE]
    BY <2>3, UpdatePasses
  <2>5. ls = u
    BY <2>2
  <2> HIDE DEF e, r, ls
  <2>6. QED
    BY <2>2, <2>4, <2>5
<1>7. UpdateEnd(a, token) = [lines |-> m, skip |-> TRUE]
  <2>1. UpdateEnd(a, token) = UpdateAwk(UpdateEnd(u, token), L("begin"), token)
    BY <1>1, UpdateAppends
  <2> HIDE DEF a
  <2>2. QED
    BY <1>1, <1>6, <2>1 DEF UpdateAwk
<1> HIDE DEF a, m
<1>8. UpdateEnd(b, token) = [lines |-> m, skip |-> TRUE]
  <2> DEFINE aw == a \o w
             e == UpdateEnd(a, token)
  <2>1. UpdateEnd(aw, token) =
          IF e.skip THEN e ELSE [lines |-> e.lines \o w, skip |-> FALSE]
    BY <1>2, UpdatePasses
  <2>2. e.skip = TRUE /\ e = [lines |-> m, skip |-> TRUE]
    BY <1>7
  <2>3. b = aw
    BY <1>2
  <2> HIDE DEF e, aw, b
  <2>4. QED
    BY <2>1, <2>2, <2>3
<1>9. UpdateEnd(c, token) = [lines |-> m, skip |-> FALSE]
  <2>1. UpdateEnd(c, token) = UpdateAwk(UpdateEnd(b, token), L("end"), token)
    BY <1>1, <1>3, UpdateAppends
  <2> DEFINE st == UpdateEnd(b, token)
             line == L("end")
  <2>2. st = [lines |-> m, skip |-> TRUE] /\ line.part = "end"
        /\ UpdateEnd(c, token) = UpdateAwk(st, line, token)
    BY <1>1, <1>8, <2>1
  <2> HIDE DEF b, c, st, line
  <2>3. UpdateAwk(st, line, token) = [st EXCEPT !.skip = FALSE]
    BY <2>2 DEF UpdateAwk
  <2>4. [st EXCEPT !.skip = FALSE] = [lines |-> m, skip |-> FALSE]
    <3>1. st \in UpdateState /\ FALSE \in BOOLEAN /\ m \in Seq(CaddyLine)
      <4>1. UpdateEnd(b, token) \in UpdateState
        BY <1>1, <1>3, UpdateAppends
      <4>2. QED
        BY <2>2, <4>1 DEF st, UpdateState
    <3>2. [st EXCEPT !.skip = FALSE] = [lines |-> st.lines, skip |-> FALSE]
      BY <3>1, StateParts
    <3>3. QED
      BY <2>2, <3>2
  <2>5. QED
    BY <2>2, <2>3, <2>4
<1> HIDE DEF b, c
<1>10. UpdateEnd(d, token) = [lines |-> m \o x, skip |-> FALSE]
  <2> DEFINE cx == c \o x
             e == UpdateEnd(c, token)
  <2>1. UpdateEnd(cx, token) =
          IF e.skip THEN e ELSE [lines |-> e.lines \o x, skip |-> FALSE]
    BY <1>4, UpdatePasses
  <2>2. e.skip = FALSE /\ e.lines = m
    BY <1>9
  <2>3. d = cx
    BY <1>4
  <2> HIDE DEF e, cx, d
  <2>4. QED
    BY <2>1, <2>2, <2>3
<1> HIDE DEF d
<1>11. UpdatePatch(b, token) = m /\ UpdatePatch(d, token) = m \o x
  <2>1. UpdatePatch(b, token) = UpdateEnd(b, token).lines
        /\ UpdatePatch(d, token) = UpdateEnd(d, token).lines
    BY <1>3, <1>5, UpdateCarries
  <2>2. QED
    BY <1>8, <1>10, <2>1
<1>12. QED
  BY <1>11 DEF b, d, m, Joined

\* Two lines.
LEMMA PairAppended ==
  ASSUME NEW E, NEW x \in E, NEW y \in E
  PROVE  <<x, y>> \in Seq(E) /\ Append(Append(<<>>, x), y) = <<x, y>>
<1> DEFINE one == Append(<<>>, x)
           two == Append(one, y)
           pair == <<x, y>>
<1>1. one \in Seq(E) /\ Len(one) = 1 /\ one[1] = x
  OBVIOUS
<1> HIDE DEF one
<1>2. two \in Seq(E) /\ Len(two) = 2 /\ two[1] = x /\ two[2] = y
  <2>1. /\ two \in Seq(E) /\ Len(two) = Len(one) + 1 /\ two[Len(one) + 1] = y
        /\ \A i \in 1 .. Len(one) : two[i] = one[i]
    <3>1. one \in Seq(E)
      BY <1>1
    <3>2. QED
      BY ONLY <3>1, y \in E, AppendProperties
  <2> HIDE DEF two
  <2>2. QED
    BY <1>1, <2>1
<1>3. pair \in Seq(E) /\ Len(pair) = 2 /\ pair[1] = x /\ pair[2] = y
  OBVIOUS
<1> HIDE DEF two, pair
<1>4. \A i \in 1 .. Len(two) : two[i] = pair[i]
  <2>1. \A i \in 1 .. 2 : i = 1 \/ i = 2
    OBVIOUS
  <2>2. QED
    BY <1>2, <1>3, <2>1
<1>5. two = pair
  BY <1>2, <1>3, <1>4, SeqEqual
<1>6. QED
  BY <1>3, <1>5 DEF one, two, pair

\* A brace is open at each line after u, up to the last one.
Firm(u, z) == \A j \in 0 .. Len(z) - 1 : OpenBraces(u) + OpenBraces(SubSeq(z, 1, j)) >= 1

\* What the first patch has made of the lines up to here: those before the
\* reverse_proxy, the panel's block, and the rest with one brace more until it is
\* closed.
Shaped(head, u, z, depth) ==
  /\ Unmarked(z) /\ Firm(u, z)
  /\ \A token \in 0 .. MaxInstalls :
       FreshEnd(head, token) = [lines |-> (u \o ManagedBlock(token)) \o z, depth |-> depth]
  /\ depth # 0 => OpenBraces(z) = depth + 1
  /\ OpenBraces(u) + OpenBraces(z) = OpenBraces(head) + (IF depth # 0 THEN 1 ELSE 0)

\* One more line where a brace is open.
LEMMA FirmGrows ==
  ASSUME NEW u \in Seq(CaddyLine), NEW z \in Seq(CaddyLine), NEW line \in CaddyLine,
         Firm(u, z), OpenBraces(u) + OpenBraces(z) >= 1
  PROVE  Firm(u, Append(z, line))
<1> DEFINE y == Append(z, line)
<1>1. /\ Len(z) \in Nat /\ y \in Seq(CaddyLine) /\ Len(y) = Len(z) + 1
      /\ \A i \in 1 .. Len(z) : y[i] = z[i]
  BY AppendProperties, LenProperties
<1> HIDE DEF y
<1>2. ASSUME NEW j \in 0 .. Len(z)
      PROVE  SubSeq(y, 1, j) = SubSeq(z, 1, j)
  <2> DEFINE a == SubSeq(y, 1, j)
             b == SubSeq(z, 1, j)
  <2>1. j \in 0 .. Len(y)
    BY <1>1
  <2>2. a \in Seq(CaddyLine) /\ Len(a) = j /\ \A i \in 1 .. j : a[i] = y[i]
    BY <1>1, <2>1, PrefixGrows
  <2>3. b \in Seq(CaddyLine) /\ Len(b) = j /\ \A i \in 1 .. j : b[i] = z[i]
    BY PrefixGrows
  <2> HIDE DEF a, b
  <2>4. \A i \in 1 .. Len(a) : a[i] = b[i]
    <3>1. \A i \in 1 .. j : i \in 1 .. Len(z)
      BY <1>1
    <3>2. QED
      BY <1>1, <2>2, <2>3, <3>1
  <2>5. a = b
    BY <2>2, <2>3, <2>4, SeqEqual
  <2>6. QED
    BY <2>5 DEF a, b
<1>3. SubSeq(z, 1, Len(z)) = z
  BY PrefixGrows
<1>4. ASSUME NEW j \in 0 .. Len(y) - 1
      PROVE  OpenBraces(u) + OpenBraces(SubSeq(y, 1, j)) >= 1
  <2>1. CASE j = Len(z)
    <3>1. SubSeq(y, 1, j) = z
      BY <1>1, <1>2, <1>3, <2>1
    <3>2. QED
      BY <3>1
  <2>2. CASE j # Len(z)
    <3>1. j \in 0 .. Len(z) - 1 /\ j \in 0 .. Len(z)
      BY <1>1, <2>2
    <3>2. OpenBraces(u) + OpenBraces(SubSeq(z, 1, j)) >= 1
      BY <3>1 DEF Firm
    <3>3. SubSeq(y, 1, j) = SubSeq(z, 1, j)
      BY <1>2, <3>1
    <3>4. QED
      BY <3>2, <3>3
  <2>3. QED
    BY <2>1, <2>2
<1>5. QED
  BY <1>4 DEF y, Firm

\* At the reverse_proxy.
LEMMA ShapeBegins ==
  ASSUME NEW u \in Seq(CaddyLine), NEW line \in CaddyLine, line.part = "proxy",
         OpenBraces(u) >= 1,
         \A token \in 0 .. MaxInstalls : FreshEnd(u, token) = [lines |-> u, depth |-> 0]
  PROVE  /\ <<L("wrap"), line>> \in Seq(CaddyLine)
         /\ Shaped(Append(u, line), u, <<L("wrap"), line>>, 1)
<1> DEFINE one == Append(<<>>, L("wrap"))
           z == Append(one, line)
<1>1. L("wrap") \in CaddyLine /\ L("wrap").part = "wrap" /\ <<>> \in Seq(CaddyLine)
  BY InstallAssumption, EmptySeq DEF L, CaddyLine, Part
<1>2. Nesting(L("wrap")) = 1 /\ Nesting(line) = 1
  BY <1>1 DEF Nesting
<1>3. OpenBraces(<<>>) = 0 /\ OpenBraces(u) \in Int
  BY BracesOfLines
<1>4. one \in Seq(CaddyLine) /\ OpenBraces(one) = 1
  <2>1. /\ Append(<<>>, L("wrap")) \in Seq(CaddyLine)
        /\ OpenBraces(Append(<<>>, L("wrap"))) = OpenBraces(<<>>) + Nesting(L("wrap"))
    BY <1>1, BracesOfLines
  <2>2. QED
    BY <1>2, <1>3, <2>1
<1>5. Unmarked(one)
  <2>1. \A part : ~Has(<<>>, part)
    BY DEF Has
  <2>2. \A part : Has(one, part) <=> part = "wrap"
    BY <1>1, <2>1, HasParts
  <2>3. QED
    BY <2>2 DEF Unmarked
<1>6. Firm(u, one)
  <2>1. Firm(u, <<>>)
    BY DEF Firm
  <2>2. OpenBraces(u) + OpenBraces(<<>>) >= 1
    BY <1>3
  <2>3. QED
    BY <1>1, <2>1, <2>2, FirmGrows
<1>7. z = <<L("wrap"), line>>
  BY <1>1, PairAppended
<1> HIDE DEF one
<1>8. z \in Seq(CaddyLine) /\ OpenBraces(z) = 2
  BY <1>2, <1>4, BracesOfLines
<1>9. Unmarked(z) /\ Firm(u, z)
  <2>1. Unmarked(z)
    BY <1>4, <1>5, HasParts DEF Unmarked
  <2>2. Firm(u, z)
    BY <1>3, <1>4, <1>6, FirmGrows
  <2>3. QED
    BY <2>1, <2>2
<1>10. OpenBraces(Append(u, line)) = OpenBraces(u) + 1
  BY <1>2, BracesOfLines
<1>11. ASSUME NEW token \in 0 .. MaxInstalls
       PROVE  FreshEnd(Append(u, line), token) =
                [lines |-> (u \o ManagedBlock(token)) \o z, depth |-> 1]
  <2> DEFINE st == FreshEnd(u, token)
             grown == (st.lines \o ManagedBlock(token)) \o <<L("wrap"), line>>
  <2>1. FreshEnd(Append(u, line), token) = FreshAwk(st, line, token)
    BY FreshAppends
  <2>2. st.lines = u /\ st.depth = 0
    OBVIOUS
  <2> HIDE DEF st
  <2>3. FreshAwk(st, line, token) = [lines |-> grown, depth |-> 1]
    BY <2>2 DEF FreshAwk
  <2>4. grown = (u \o ManagedBlock(token)) \o z
    BY <1>7, <2>2
  <2>5. QED
    BY <2>1, <2>3, <2>4
<1> HIDE DEF z
<1>12. Shaped(Append(u, line), u, z, 1)
  BY <1>3, <1>8, <1>9, <1>10, <1>11 DEF Shaped
<1>13. QED
  BY <1>7, <1>8, <1>12

\* After it.
LEMMA ShapeGrows ==
  ASSUME NEW head \in Seq(CaddyLine), NEW u \in Seq(CaddyLine), NEW z \in Seq(CaddyLine),
         NEW depth \in Nat, NEW line \in CaddyLine, Shaped(head, u, z, depth),
         line.part \notin {"proxy", "begin", "end"}, OpenBraces(head) >= 1
  PROVE  \E y \in Seq(CaddyLine), d \in Nat : Shaped(Append(head, line), u, y, d)
<1> DEFINE y == Append(z, line)
           grown == Append(head, line)
           Made(token) == (u \o ManagedBlock(token)) \o z
<1>1. /\ Unmarked(z) /\ Firm(u, z)
      /\ depth # 0 => OpenBraces(z) = depth + 1
      /\ OpenBraces(u) + OpenBraces(z) = OpenBraces(head) + (IF depth # 0 THEN 1 ELSE 0)
  BY DEF Shaped
<1>2. /\ OpenBraces(u) \in Int /\ OpenBraces(z) \in Int /\ OpenBraces(head) \in Int
      /\ Nesting(line) \in {-1, 0, 1}
  BY BracesOfLines DEF Nesting
<1>3. /\ y \in Seq(CaddyLine) /\ OpenBraces(y) = OpenBraces(z) + Nesting(line)
      /\ grown \in Seq(CaddyLine) /\ OpenBraces(grown) = OpenBraces(head) + Nesting(line)
  BY BracesOfLines
<1>4. Unmarked(y) /\ Firm(u, y)
  <2>1. OpenBraces(u) + OpenBraces(z) >= 1
    BY <1>1, <1>2
  <2>2. QED
    BY <1>1, <2>1, FirmGrows, HasParts DEF Unmarked
<1>5. ASSUME NEW token \in 0 .. MaxInstalls
      PROVE  /\ Made(token) \in Seq(CaddyLine)
             /\ Append(Made(token), line) = (u \o ManagedBlock(token)) \o y
             /\ FreshEnd(grown, token) =
                  FreshAwk([lines |-> Made(token), depth |-> depth], line, token)
  <2> DEFINE um == u \o ManagedBlock(token)
  <2>1. um \in Seq(CaddyLine)
    BY BlockLines, ConcatProperties
  <2>2. FreshEnd(head, token) = [lines |-> Made(token), depth |-> depth]
    BY DEF Shaped
  <2>3. FreshEnd(grown, token) = FreshAwk(FreshEnd(head, token), line, token)
    BY FreshAppends
  <2> HIDE DEF um
  <2>4. um \o z \in Seq(CaddyLine) /\ um \o y = Append(um \o z, line)
    BY <2>1, ConcatProperties, JoinsAgree
  <2>5. QED
    BY <2>2, <2>3, <2>4 DEF um
<1> HIDE DEF Made
<1>6. CASE depth = 0
  <2>1. ASSUME NEW token \in 0 .. MaxInstalls
        PROVE  FreshEnd(grown, token) =
                 [lines |-> (u \o ManagedBlock(token)) \o y, depth |-> 0]
    <3> DEFINE st == [lines |-> Made(token), depth |-> depth]
               ls == Append(Made(token), line)
    <3>1. st \in FreshState /\ ls \in Seq(CaddyLine)
      <4>1. Made(token) \in Seq(CaddyLine)
        BY <1>5
      <4>2. ls \in Seq(CaddyLine)
        BY <4>1, AppendProperties
      <4>3. QED
        BY <4>1, <4>2 DEF FreshState
    <3>2. FreshAwk(st, line, token) = [st EXCEPT !.lines = Append(@, line)]
      BY <1>6 DEF FreshAwk
    <3>3. st.lines = Made(token) /\ st.depth = 0
      BY <1>6
    <3> HIDE DEF st
    <3>4. [st EXCEPT !.lines = Append(@, line)] = [st EXCEPT !.lines = ls]
      BY <3>3
    <3> HIDE DEF ls
    <3>5. [st EXCEPT !.lines = ls] = [lines |-> ls, depth |-> st.depth]
      BY <3>1, StateParts
    <3>6. ls = (u \o ManagedBlock(token)) \o y
      BY <1>5 DEF ls
    <3>7. FreshEnd(grown, token) = FreshAwk(st, line, token)
      BY <1>5 DEF st
    <3>8. QED
      BY <3>2, <3>3, <3>4, <3>5, <3>6, <3>7
  <2>2. OpenBraces(u) + OpenBraces(y) = OpenBraces(grown)
    BY <1>1, <1>2, <1>3, <1>6
  <2> HIDE DEF y, grown
  <2>10. OpenBraces(u) + OpenBraces(y) = OpenBraces(grown) + (IF 0 # 0 THEN 1 ELSE 0)
    BY <1>2, <1>3, <2>2
  <2>3. Shaped(grown, u, y, 0)
    BY <1>4, <2>1, <2>10 DEF Shaped
  <2>4. QED
    BY <1>3, <2>3 DEF grown
<1>7. CASE depth # 0 /\ depth + Nesting(line) # 0
  <2> DEFINE d == depth + Nesting(line)
  <2>1. ASSUME NEW token \in 0 .. MaxInstalls
        PROVE  FreshEnd(grown, token) =
                 [lines |-> (u \o ManagedBlock(token)) \o y, depth |-> d]
    <3> DEFINE st == [lines |-> Made(token), depth |-> depth]
    <3>1. st.lines = Made(token) /\ st.depth = depth
      OBVIOUS
    <3> HIDE DEF st
    <3>2. FreshAwk(st, line, token) =
            [lines |-> Append(st.lines, line), depth |-> st.depth + Nesting(line)]
      BY <1>2, <1>7, <3>1 DEF FreshAwk
    <3>3. Append(st.lines, line) = (u \o ManagedBlock(token)) \o y
      BY <1>5, <3>1
    <3>4. FreshEnd(grown, token) = FreshAwk(st, line, token)
      BY <1>5 DEF st
    <3>5. QED
      BY <3>1, <3>2, <3>3, <3>4
  <2>2. d \in Nat /\ d # 0
    BY <1>2, <1>7
  <2> HIDE DEF y, grown
  <2>3. OpenBraces(y) = d + 1 /\ OpenBraces(u) + OpenBraces(y) = OpenBraces(grown) + 1
    <3>1. OpenBraces(z) = depth + 1 /\ OpenBraces(u) + OpenBraces(z) = OpenBraces(head) + 1
      BY <1>1, <1>7
    <3>2. /\ OpenBraces(y) = OpenBraces(z) + Nesting(line)
          /\ OpenBraces(grown) = OpenBraces(head) + Nesting(line)
      BY <1>3
    <3> DEFINE bu == OpenBraces(u)
               bz == OpenBraces(z)
               bh == OpenBraces(head)
               by == OpenBraces(y)
               bg == OpenBraces(grown)
               m == Nesting(line)
    <3>3. /\ bz = depth + 1 /\ bu + bz = bh + 1 /\ by = bz + m /\ bg = bh + m
          /\ bu \in Int /\ bz \in Int /\ bh \in Int /\ m \in Int
      BY <1>2, <3>1, <3>2
    <3> HIDE DEF bu, bz, bh, by, bg, m
    <3>4. by = (depth + m) + 1 /\ bu + by = bg + 1
      BY <3>3
    <3>5. QED
      BY <3>4 DEF bu, by, bg, m
  <2> HIDE DEF d
  <2>4. Shaped(grown, u, y, d)
    BY <1>2, <1>3, <1>4, <2>1, <2>2, <2>3 DEF Shaped
  <2>5. QED
    BY <1>3, <2>2, <2>4 DEF grown
<1>8. CASE depth # 0 /\ depth + Nesting(line) = 0
  <2> DEFINE x == Append(y, L("close"))
  <2>1. L("close") \in CaddyLine /\ L("close").part = "close" /\ Nesting(L("close")) = -1
    BY InstallAssumption DEF L, CaddyLine, Part, Nesting
  <2>2. /\ x \in Seq(CaddyLine) /\ OpenBraces(x) = OpenBraces(y) - 1
        /\ OpenBraces(y) \in Int
    <3>1. OpenBraces(x) = OpenBraces(y) + Nesting(L("close")) /\ x \in Seq(CaddyLine)
          /\ OpenBraces(y) \in Int
      BY <1>3, <2>1, BracesOfLines
    <3>2. QED
      BY <2>1, <3>1
  <2>3. OpenBraces(y) = 1 /\ OpenBraces(u) + OpenBraces(x) = OpenBraces(grown)
        /\ OpenBraces(u) >= 0
    <3>1. OpenBraces(y) = 1
      BY <1>1, <1>2, <1>3, <1>8
    <3>2. QED
      BY <1>1, <1>2, <1>3, <1>8, <2>2, <3>1
  <2>4. Unmarked(x) /\ Firm(u, x)
    <3>1. OpenBraces(u) + OpenBraces(y) >= 1
      BY <1>2, <2>3
    <3>2. QED
      BY <1>3, <1>4, <2>1, <3>1, FirmGrows, HasParts DEF Unmarked
  <2>5. ASSUME NEW token \in 0 .. MaxInstalls
        PROVE  FreshEnd(grown, token) =
                 [lines |-> (u \o ManagedBlock(token)) \o x, depth |-> 0]
    <3> DEFINE st == [lines |-> Made(token), depth |-> depth]
               um == u \o ManagedBlock(token)
               two == <<line, L("close")>>
               ls == Made(token) \o two
    <3>1. st.lines = Made(token) /\ st.depth = depth
      OBVIOUS
    <3>2. FreshEnd(grown, token) = FreshAwk(st, line, token)
      BY <1>5 DEF st
    <3> HIDE DEF st
    <3>3. FreshAwk(st, line, token) = [lines |-> st.lines \o two, depth |-> 0]
      BY <1>2, <1>8, <3>1 DEF FreshAwk
    <3>4. um \in Seq(CaddyLine) /\ Made(token) = um \o z
      BY BlockLines, ConcatProperties DEF Made
    <3>5. two \in Seq(CaddyLine) /\ two = Append(<<line>>, L("close"))
          /\ <<line>> \in Seq(CaddyLine)
      <4>1. two \in Seq(CaddyLine) /\ two = Append(Append(<<>>, line), L("close"))
        BY <2>1, PairAppended
      <4>2. QED
        BY <4>1
    <3>6. z \o two = x
      <4> DEFINE c == L("close")
                 one == <<line>>
      <4> HIDE DEF c, two
      <4>1. one \in Seq(CaddyLine) /\ c \in CaddyLine /\ two = Append(one, c)
        BY <2>1, <3>5 DEF c
      <4>2. z \o one = y
        BY JoinsAgree
      <4> HIDE DEF one, y
      <4>3. z \o Append(one, c) = Append(z \o one, c)
        BY <4>1, JoinsAgree
      <4>4. QED
        BY <4>1, <4>2, <4>3 DEF c
    <3> HIDE DEF um, two, x
    <3>7. (um \o z) \o two = um \o (z \o two)
      <4>1. um \in Seq(CaddyLine) /\ two \in Seq(CaddyLine)
        BY <3>4, <3>5
      <4>2. QED
        <5>1. Joined(Joined(um, z), two) = Joined(um, Joined(z, two))
          BY <4>1, JoinedInOrder
        <5>2. QED
          BY <5>1 DEF Joined
    <3>8. ls = um \o x
      BY <3>4, <3>6, <3>7
    <3>9. st.lines \o two = ls
      BY <3>1
    <3> HIDE DEF ls
    <3>10. QED
      BY <3>2, <3>3, <3>8, <3>9 DEF um
  <2> HIDE DEF y, grown, x
  <2>6. Shaped(grown, u, x, 0)
    <3>1. OpenBraces(u) + OpenBraces(x) = OpenBraces(grown) + (IF 0 # 0 THEN 1 ELSE 0)
      BY <1>2, <1>3, <2>3
    <3>2. QED
      BY <2>4, <2>5, <3>1 DEF Shaped
  <2>7. QED
    BY <2>2, <2>6 DEF grown
<1>9. QED
  BY <1>6, <1>7, <1>8

\* How the first patch changes a file: only the lines from the reverse_proxy on, and
\* whatever the token is, in the same way.
PatchedAround(file, u, z) ==
  /\ Unmarked(u) /\ Unmarked(z) /\ OpenBraces(u) >= 1 /\ Firm(u, z)
  /\ \E m \in 0 .. Len(file) : u = SubSeq(file, 1, m)
  /\ \A token \in 0 .. MaxInstalls :
       FreshPatch(file, token) = (u \o ManagedBlock(token)) \o z

LEMMA FreshShape ==
  ASSUME NEW file \in Seq(CaddyLine), Pristine(file), Has(file, "proxy")
  PROVE  \E u \in Seq(CaddyLine), z \in Seq(CaddyLine) : PatchedAround(file, u, z)
<1> DEFINE n == Len(file)
           Before(k) == SubSeq(file, 1, k)
<1>1. /\ n \in Nat /\ DOMAIN file = 1 .. n /\ \A i \in 1 .. n : file[i] \in CaddyLine
      /\ Before(0) = <<>> /\ Before(n) = file
      /\ \A k \in 0 .. n : Before(k) \in Seq(CaddyLine)
      /\ \A k \in 1 .. n : Before(k) = Append(Before(k - 1), file[k])
  BY PrefixGrows, LenProperties, ElementOfSeq
<1>2. PICK p \in 1 .. n : file[p].part = "proxy"
  BY <1>1 DEF Has
<1>3. /\ \A k \in 1 .. n : file[k].part \notin {"begin", "end"}
      /\ \A k \in 1 .. n : file[k].part = "proxy" => k = p
      /\ \A k \in p - 1 .. n - 1 : OpenBraces(Before(k)) >= 1
  BY <1>1, <1>2 DEF Pristine, Has
<1> DEFINE u == Before(p - 1)
<1>4. u \in Seq(CaddyLine) /\ OpenBraces(u) >= 1 /\ Unmarked(u)
      /\ \E m \in 0 .. n : u = Before(m)
  <2>1. p - 1 \in 0 .. n /\ p - 1 \in p - 1 .. n - 1
    BY <1>1, <1>2
  <2>2. ~Has(file, "begin") /\ ~Has(file, "end")
    BY DEF Pristine
  <2>3. Unmarked(Before(p - 1))
    BY <2>1, <2>2, HasParts DEF Unmarked
  <2>4. QED
    BY <1>1, <1>3, <2>1, <2>3
<1> HIDE DEF n, Before
<1> DEFINE Plain(k) == \A token \in 0 .. MaxInstalls :
                         FreshEnd(Before(k), token) = [lines |-> Before(k), depth |-> 0]
           T == {k \in 0 .. n : k < p => Plain(k)}
<1>5. T = 0 .. n
  <2>1. T \in SUBSET (0 .. n)
    OBVIOUS
  <2>2. 0 \in T
    <3>1. L("text") \in CaddyLine /\ <<>> \in Seq(CaddyLine)
      BY InstallAssumption, EmptySeq DEF L, CaddyLine, Part
    <3>2. \A token \in 0 .. MaxInstalls :
            FreshEnd(<<>>, token) = [lines |-> <<>>, depth |-> 0]
      BY <3>1, FreshAppends
    <3>3. Plain(0)
      BY <1>1, <3>2
    <3> HIDE DEF Plain
    <3>4. QED
      BY <1>1, <3>3
  <2>3. ASSUME NEW k \in 1 .. n, k - 1 \in T
        PROVE  k \in T
    <3>1. CASE k < p
      <4>1. /\ k - 1 \in 0 .. n /\ Plain(k - 1)
            /\ file[k] \in CaddyLine /\ file[k].part # "proxy"
            /\ Before(k - 1) \in Seq(CaddyLine) /\ Before(k) \in Seq(CaddyLine)
            /\ Before(k) = Append(Before(k - 1), file[k])
        <5>1. k - 1 \in 0 .. n /\ k \in 0 .. n /\ k - 1 < p
          <6>1. n \in Nat
            BY <1>1
          <6> HIDE DEF Plain, T
          <6>2. QED
            BY <3>1, <6>1
        <5>2. Plain(k - 1)
          <6> HIDE DEF Plain
          <6>1. QED
            BY <2>3, <5>1
        <5>3. file[k].part # "proxy"
          BY <1>2, <1>3, <3>1
        <5> HIDE DEF Plain
        <5>4. QED
          BY <1>1, <5>1, <5>2, <5>3
      <4>2. ASSUME NEW token \in 0 .. MaxInstalls
            PROVE  FreshEnd(Before(k), token) = [lines |-> Before(k), depth |-> 0]
        <5> DEFINE st == FreshEnd(Before(k - 1), token)
                   line == file[k]
                   ls == Before(k)
        <5>1. FreshEnd(Before(k), token) = FreshAwk(st, line, token)
          BY <4>1, FreshAppends
        <5>2. st.depth = 0 /\ st.lines = Before(k - 1) /\ st \in FreshState
          <6>1. st = [lines |-> Before(k - 1), depth |-> 0]
                /\ Before(k - 1) \in Seq(CaddyLine)
            BY <4>1
          <6> HIDE DEF st, Before
          <6>2. QED
            BY <6>1 DEF FreshState
        <5>3. line.part # "proxy" /\ ls \in Seq(CaddyLine) /\ Append(st.lines, line) = ls
          BY <4>1, <5>2
        <5> HIDE DEF st, line, ls
        <5>4. FreshAwk(st, line, token) = [st EXCEPT !.lines = ls]
          BY <5>2, <5>3 DEF FreshAwk
        <5>5. [st EXCEPT !.lines = ls] = [lines |-> ls, depth |-> st.depth]
          BY <5>2, <5>3, StateParts
        <5>6. QED
          BY <5>1, <5>2, <5>4, <5>5 DEF ls
      <4>3. Plain(k)
        BY <4>2
      <4> HIDE DEF Plain
      <4>4. QED
        BY <1>1, <4>3
    <3>2. CASE ~(k < p)
      BY <1>1, <3>2
    <3>3. QED
      BY <3>1, <3>2
  <2> HIDE DEF T
  <2>4. QED
    BY <1>1, <2>1, <2>2, <2>3, PrefixInduction
<1>6. Plain(p - 1)
  <2>1. p - 1 \in 0 .. n /\ p - 1 < p
    BY <1>1, <1>2
  <2> HIDE DEF Plain
  <2>2. QED
    BY <1>5, <2>1
<1> DEFINE Formed(k) == \E z \in Seq(CaddyLine), d \in Nat : Shaped(Before(k), u, z, d)
           S == {k \in 0 .. n : k >= p => Formed(k)}
<1>7. S = 0 .. n
  <2>1. S \in SUBSET (0 .. n)
    OBVIOUS
  <2>2. 0 \in S
    BY <1>1, <1>2
  <2>3. ASSUME NEW k \in 1 .. n, k - 1 \in S
        PROVE  k \in S
    <3>1. /\ k - 1 \in 0 .. n /\ file[k] \in CaddyLine
          /\ Before(k - 1) \in Seq(CaddyLine) /\ Before(k) = Append(Before(k - 1), file[k])
      <4>1. k - 1 \in 0 .. n
        BY <1>1
      <4>2. QED
        BY <1>1, <4>1
    <3>2. CASE k = p
      <4>1. Shaped(Append(u, file[p]), u, <<L("wrap"), file[p]>>, 1)
            /\ <<L("wrap"), file[p]>> \in Seq(CaddyLine)
        <5> HIDE DEF u
        <5>1. \A token \in 0 .. MaxInstalls : FreshEnd(u, token) = [lines |-> u, depth |-> 0]
          BY <1>6 DEF u
        <5>2. file[p] \in CaddyLine
          BY <3>1, <3>2
        <5>3. QED
          BY <1>2, <1>4, <5>1, <5>2, ShapeBegins
      <4>2. Before(k) = Append(u, file[p])
        BY <3>1, <3>2
      <4>3. Formed(k)
        BY <4>1, <4>2
      <4> HIDE DEF Formed
      <4>4. QED
        BY <1>1, <4>3
    <3>3. CASE k > p
      <4>1. PICK z \in Seq(CaddyLine), d \in Nat : Shaped(Before(k - 1), u, z, d)
        BY <1>2, <2>3, <3>1, <3>3
      <4>2. file[k].part \notin {"proxy", "begin", "end"}
        BY <1>2, <1>3, <3>3
      <4>3. OpenBraces(Before(k - 1)) >= 1
        <5>1. k - 1 \in p - 1 .. n - 1
          BY <1>1, <1>2, <3>3
        <5>2. QED
          BY <1>3, <5>1
      <4> DEFINE head == Before(k - 1)
      <4> HIDE DEF u
      <4>4. \E y \in Seq(CaddyLine), e \in Nat : Shaped(Append(head, file[k]), u, y, e)
        <5> HIDE DEF head
        <5>1. head \in Seq(CaddyLine) /\ Shaped(head, u, z, d) /\ OpenBraces(head) >= 1
          BY <3>1, <4>1, <4>3 DEF head
        <5>2. QED
          BY <1>4, <3>1, <4>2, <5>1, ShapeGrows
      <4>5. Formed(k)
        BY <3>1, <4>4
      <4> HIDE DEF Formed
      <4>6. QED
        BY <1>1, <4>5
    <3>4. CASE k < p
      BY <1>1, <1>2, <3>4
    <3>5. QED
      BY <1>1, <1>2, <3>2, <3>3, <3>4
  <2> HIDE DEF S
  <2>4. QED
    BY <1>1, <2>1, <2>2, <2>3, PrefixInduction
<1>8. PICK z \in Seq(CaddyLine), d \in Nat : Shaped(file, u, z, d)
  <2>1. n \in 0 .. n /\ n >= p
    BY <1>1, <1>2
  <2>2. Formed(n)
    <3> HIDE DEF Formed
    <3>1. QED
      BY <1>7, <2>1
  <2>3. QED
    BY <1>1, <2>2
<1> HIDE DEF u
<1>9. \A token \in 0 .. MaxInstalls : FreshPatch(file, token) = (u \o ManagedBlock(token)) \o z
  <2> TAKE token \in 0 .. MaxInstalls
  <2>1. FreshPatch(file, token) = FreshEnd(file, token).lines
    BY FreshCarries
  <2>2. QED
    BY <1>8, <2>1 DEF Shaped
<1>10. PatchedAround(file, u, z)
  BY <1>4, <1>8, <1>9 DEF PatchedAround, Shaped, n, Before
<1>11. QED
  BY <1>4, <1>10

\* Three files are joined in either order.
LEMMA JoinsInOrder ==
  \A a, b, c \in Seq(CaddyLine) : (a \o b) \o c = a \o (b \o c)
  BY ConcatAssociative

\* And so is a last line.
LEMMA LinesJoinLast ==
  ASSUME NEW a \in Seq(CaddyLine), NEW b \in Seq(CaddyLine), NEW line \in CaddyLine
  PROVE  a \o Append(b, line) = Append(a \o b, line)
  BY JoinsAgree

Route(token) == [part |-> "route", token |-> token]

\* A patched file is one with a begin and an end marker.
LEMMA PatchEncloses ==
  ASSUME NEW u \in Seq(CaddyLine), NEW z \in Seq(CaddyLine), NEW token \in 0 .. MaxInstalls
  PROVE  /\ <<Route(token)>> \in Seq(CaddyLine) /\ Unmarked(<<Route(token)>>)
         /\ (u \o ManagedBlock(token)) \o z = Enclosed(u, <<Route(token)>>, z)
<1> DEFINE b == L("begin")
           r == Route(token)
           e == L("end")
           one == <<b>>
           two == Append(one, r)
           c == <<r>>
<1>1. b \in CaddyLine /\ r \in CaddyLine /\ e \in CaddyLine
      /\ r.part \notin {"begin", "end"}
  BY InstallAssumption DEF L, Route, CaddyLine, Part
<1>2. ManagedBlock(token) = Append(two, e)
  BY DEF ManagedBlock, Route
<1> HIDE DEF b, r, e
<1>3. c \in Seq(CaddyLine) /\ one \in Seq(CaddyLine)
  BY <1>1
<1>4. Unmarked(c)
  <2>1. DOMAIN c = {1} /\ c[1] = r
    OBVIOUS
  <2> HIDE DEF c
  <2>2. QED
    BY <1>1, <2>1 DEF Unmarked, Has
<1>5. u \o Append(two, e) = Append(Begun(u, c), e)
  <2> DEFINE a == Append(u, b)
  <2>1. two = one \o c
    BY <1>1, <1>3, JoinsAgree
  <2>2. a = u \o one
    BY <1>1, JoinsAgree
  <2> HIDE DEF one, c, a, two
  <2>3. (u \o one) \o c = u \o (one \o c)
    BY <1>3, JoinsInOrder
  <2>4. two \in Seq(CaddyLine)
    BY <1>3, <2>1, ConcatProperties
  <2>5. u \o Append(two, e) = Append(u \o two, e)
    BY <1>1, <2>4, JoinsAgree
  <2>6. u \o two = a \o c
    BY <2>1, <2>2, <2>3
  <2>7. Begun(u, c) = a \o c
    BY DEF Begun, a, b
  <2>8. QED
    BY <2>5, <2>6, <2>7
<1>6. (u \o ManagedBlock(token)) \o z = Enclosed(u, c, z)
  BY <1>2, <1>5 DEF Enclosed, e
<1>7. QED
  BY <1>3, <1>4, <1>6 DEF r

\* The markers of such files.
LEMMA MarkedParts ==
  ASSUME NEW u \in Seq(CaddyLine), NEW w \in Seq(CaddyLine), NEW x \in Seq(CaddyLine)
  PROVE  /\ Begun(u, w) \in Seq(CaddyLine) /\ Enclosed(u, w, x) \in Seq(CaddyLine)
         /\ Has(Begun(u, w), "begin") /\ Has(Enclosed(u, w, x), "begin")
         /\ Unmarked(u) /\ Unmarked(w) => ~Has(Begun(u, w), "end")
<1> DEFINE b == L("begin")
           e == L("end")
           a == Append(u, b)
           f == a \o w
           g == Append(f, e)
<1>1. b \in CaddyLine /\ e \in CaddyLine /\ b.part = "begin" /\ e.part = "end"
  BY InstallAssumption DEF L, CaddyLine, Part
<1>2. f = Begun(u, w) /\ g \o x = Enclosed(u, w, x)
  BY DEF Begun, Enclosed
<1> HIDE DEF b, e
<1>3. /\ a \in Seq(CaddyLine) /\ Has(a, "begin")
      /\ Has(a, "end") <=> Has(u, "end") \/ b.part = "end"
  BY <1>1, HasParts
<1> HIDE DEF a
<1>4. /\ f \in Seq(CaddyLine) /\ Has(f, "begin")
      /\ Has(f, "end") <=> Has(a, "end") \/ Has(w, "end")
  BY <1>3, HasParts
<1> HIDE DEF f
<1>5. g \in Seq(CaddyLine) /\ Has(g, "begin")
  BY <1>1, <1>4, HasParts
<1> HIDE DEF g
<1>6. g \o x \in Seq(CaddyLine) /\ Has(g \o x, "begin")
  BY <1>5, HasParts
<1>7. Unmarked(u) /\ Unmarked(w) => ~Has(f, "end")
  BY <1>1, <1>3, <1>4 DEF Unmarked
<1>8. QED
  BY <1>2, <1>4, <1>6, <1>7

\* Lines before such a file.
LEMMA LinesBefore ==
  ASSUME NEW pre \in Seq(CaddyLine), NEW u \in Seq(CaddyLine), NEW w \in Seq(CaddyLine),
         NEW x \in Seq(CaddyLine)
  PROVE  /\ Joined(pre, Begun(u, w)) = Begun(Joined(pre, u), w)
         /\ Joined(pre, Enclosed(u, w, x)) = Enclosed(Joined(pre, u), w, x)
<1> DEFINE b == L("begin")
           e == L("end")
           a == Append(u, b)
           f == a \o w
           g == Append(f, e)
<1>1. b \in CaddyLine /\ e \in CaddyLine
  BY InstallAssumption DEF L, CaddyLine, Part
<1> HIDE DEF b, e
<1>2. a \in Seq(CaddyLine) /\ pre \o a = Append(pre \o u, b)
  BY <1>1, AppendProperties, LinesJoinLast
<1> HIDE DEF a
<1>3. f \in Seq(CaddyLine) /\ pre \o f = Append(pre \o u, b) \o w
  <2>1. pre \o f = (pre \o a) \o w
    <3>1. Joined(Joined(pre, a), w) = Joined(pre, Joined(a, w))
      BY <1>2, JoinedInOrder
    <3>2. QED
      BY <3>1 DEF Joined
  <2>2. QED
    BY <1>2, <2>1, ConcatProperties
<1> HIDE DEF f
<1>4. g \in Seq(CaddyLine) /\ pre \o g = Append(pre \o f, e)
  BY <1>1, <1>3, AppendProperties, LinesJoinLast
<1> HIDE DEF g
<1>5. pre \o (g \o x) = Append(pre \o f, e) \o x
  <2>1. pre \o (g \o x) = (pre \o g) \o x
    <3>1. Joined(Joined(pre, g), x) = Joined(pre, Joined(g, x))
      BY <1>4, JoinedInOrder
    <3>2. QED
      BY <3>1 DEF Joined
  <2>2. QED
    BY <1>4, <2>1
<1>6. f = Begun(u, w) /\ g \o x = Enclosed(u, w, x)
  BY DEF Begun, Enclosed, a, f, g, b, e
<1>7. pre \o f = Begun(pre \o u, w)
  BY <1>3 DEF Begun, b
<1>8. pre \o (g \o x) = Enclosed(pre \o u, w, x)
  BY <1>5, <1>7 DEF Enclosed, e
<1>9. QED
  BY <1>6, <1>7, <1>8 DEF Joined

\* A file that was cut while a block was open, or that has lost its end marker.
Spoilt(file) ==
  \E u \in Seq(CaddyLine), w \in Seq(CaddyLine), x \in Seq(CaddyLine) :
    /\ Unmarked(u) /\ Unmarked(w) /\ Unmarked(x) /\ OpenBraces(u) >= 1
    /\ \/ file = Begun(u, w)
       \/ file = Enclosed(u, w, x) /\ OpenBraces(u) + OpenBraces(x) >= 1

\* A beginning of a beginning.
LEMMA PrefixOfPrefix ==
  ASSUME NEW file \in Seq(CaddyLine), NEW m \in 0 .. Len(file), NEW n \in 0 .. m
  PROVE  /\ n \in 0 .. Len(file)
         /\ SubSeq(SubSeq(file, 1, m), 1, n) = SubSeq(file, 1, n)
<1> DEFINE a == SubSeq(file, 1, m)
           b == SubSeq(a, 1, n)
           c == SubSeq(file, 1, n)
<1>1. Len(file) \in Nat /\ a \in Seq(CaddyLine) /\ Len(a) = m
      /\ \A i \in 1 .. m : a[i] = file[i]
  BY PrefixGrows
<1> HIDE DEF a
<1>2. n \in 0 .. Len(file) /\ n \in 0 .. Len(a)
  BY <1>1
<1>3. b \in Seq(CaddyLine) /\ Len(b) = n /\ \A i \in 1 .. n : b[i] = a[i]
  BY <1>1, <1>2, PrefixGrows
<1>4. c \in Seq(CaddyLine) /\ Len(c) = n /\ \A i \in 1 .. n : c[i] = file[i]
  BY <1>2, PrefixGrows
<1> HIDE DEF b, c
<1>5. \A i \in 1 .. Len(b) : b[i] = c[i]
  <2>1. \A i \in 1 .. n : i \in 1 .. m
    OBVIOUS
  <2>2. QED
    BY <1>1, <1>3, <1>4, <2>1
<1>6. b = c
  BY <1>3, <1>4, <1>5, SeqEqual
<1>7. QED
  BY <1>2, <1>6 DEF a, b, c

\* A file as tproxy-server leaves it, cut off or with a line before it.
LEMMA PristineParts ==
  ASSUME NEW file \in Seq(CaddyLine), Pristine(file)
  PROVE  /\ \A m \in 0 .. Len(file) : Pristine(SubSeq(file, 1, m))
         /\ <<L("text")>> \o file \in Seq(CaddyLine)
         /\ Pristine(<<L("text")>> \o file)
<1>1. /\ Len(file) \in Nat /\ DOMAIN file = 1 .. Len(file)
      /\ ~Has(file, "begin") /\ ~Has(file, "end")
      /\ \A i, j \in 1 .. Len(file) :
           file[i].part = "proxy" /\ file[j].part = "proxy" => j = i
      /\ \A i \in 1 .. Len(file) : file[i].part = "proxy" =>
           \A n \in i - 1 .. Len(file) - 1 : OpenBraces(SubSeq(file, 1, n)) >= 1
  BY LenProperties DEF Pristine
<1>2. ASSUME NEW m \in 0 .. Len(file)
      PROVE  Pristine(SubSeq(file, 1, m))
  <2> DEFINE a == SubSeq(file, 1, m)
  <2>1. a \in Seq(CaddyLine) /\ Len(a) = m /\ \A i \in 1 .. m : a[i] = file[i]
    BY PrefixGrows
  <2>2. ~Has(a, "begin") /\ ~Has(a, "end")
    BY <1>1, HasParts
  <2>3. \A n \in 0 .. m : SubSeq(a, 1, n) = SubSeq(file, 1, n)
    BY PrefixOfPrefix
  <2> HIDE DEF a
  <2>4. DOMAIN a = 1 .. m
    BY <2>1, LenProperties
  <2>5. ASSUME NEW i \in DOMAIN a, a[i].part = "proxy"
        PROVE  /\ \A j \in DOMAIN a : a[j].part = "proxy" => j = i
               /\ \A n \in i - 1 .. Len(a) - 1 : OpenBraces(SubSeq(a, 1, n)) >= 1
    <3>1. i \in 1 .. Len(file) /\ file[i].part = "proxy"
      BY <1>1, <2>1, <2>4, <2>5
    <3>2. ASSUME NEW j \in DOMAIN a, a[j].part = "proxy"
          PROVE  j = i
      <4>1. j \in 1 .. Len(file) /\ file[j].part = "proxy"
        BY <1>1, <2>1, <2>4, <3>2
      <4>2. QED
        BY <1>1, <3>1, <4>1
    <3>3. ASSUME NEW n \in i - 1 .. Len(a) - 1
          PROVE  OpenBraces(SubSeq(a, 1, n)) >= 1
      <4>1. n \in i - 1 .. Len(file) - 1 /\ n \in 0 .. m
        BY <1>1, <2>1, <2>4, <3>1
      <4>2. OpenBraces(SubSeq(file, 1, n)) >= 1
        BY <1>1, <3>1, <4>1
      <4>3. SubSeq(a, 1, n) = SubSeq(file, 1, n)
        BY <2>3, <4>1
      <4>4. QED
        BY <4>2, <4>3
    <3>4. QED
      BY <3>2, <3>3
  <2>6. QED
    BY <2>2, <2>5 DEF a, Pristine
<1>3. /\ <<L("text")>> \o file \in Seq(CaddyLine)
      /\ Pristine(<<L("text")>> \o file)
  <2> DEFINE t == L("text")
             pre == <<t>>
             a == pre \o file
  <2>1. t \in CaddyLine /\ t.part = "text" /\ Nesting(t) = 0
    BY InstallAssumption DEF L, CaddyLine, Part, Nesting
  <2> HIDE DEF t
  <2>2. pre \in Seq(CaddyLine) /\ Len(pre) = 1 /\ pre[1] = t /\ DOMAIN pre = 1 .. 1
        /\ pre = Append(<<>>, t)
    BY <2>1
  <2>3. OpenBraces(pre) = 0
    <3>1. <<>> \in Seq(CaddyLine)
      BY EmptySeq
    <3> DEFINE one == Append(<<>>, t)
    <3>2. OpenBraces(one) = OpenBraces(<<>>) + Nesting(t) /\ OpenBraces(<<>>) = 0
      BY <2>1, <3>1, BracesOfLines
    <3>3. pre = one
      BY <2>2
    <3> HIDE DEF pre, one
    <3>4. QED
      BY <2>1, <3>2, <3>3
  <2>4. ~Has(pre, "begin") /\ ~Has(pre, "end") /\ ~Has(pre, "proxy")
    BY <2>1, <2>2 DEF Has
  <2> HIDE DEF pre
  <2>5. /\ a \in Seq(CaddyLine) /\ Len(a) = 1 + Len(file) /\ a[1] = t
        /\ \A i \in 1 .. Len(file) : a[1 + i] = file[i]
        /\ ~Has(a, "begin") /\ ~Has(a, "end")
    <3>1. /\ a \in Seq(CaddyLine) /\ Len(a) = Len(pre) + Len(file)
          /\ \A i \in 1 .. Len(pre) : a[i] = pre[i]
          /\ \A i \in 1 .. Len(file) : a[Len(pre) + i] = file[i]
      BY <2>2, ConcatProperties
    <3>2. ~Has(a, "begin") /\ ~Has(a, "end")
      BY <1>1, <2>2, <2>4, HasParts
    <3> HIDE DEF a
    <3>3. 1 \in 1 .. Len(pre)
      BY <2>2
    <3>4. QED
      BY <2>2, <3>1, <3>2, <3>3
  <2>6. ASSUME NEW n \in 1 .. Len(file) + 1
        PROVE  OpenBraces(SubSeq(a, 1, n)) = OpenBraces(SubSeq(file, 1, n - 1))
    <3> DEFINE s == SubSeq(file, 1, n - 1)
    <3>1. n \in 0 .. Len(pre) + Len(file) /\ n >= Len(pre) /\ n - 1 \in 0 .. Len(file)
          /\ n - Len(pre) = n - 1
      BY <1>1, <2>2
    <3>2. SubSeq(a, 1, n) = pre \o s
      BY <2>2, <3>1, JoinedPrefix
    <3>3. s \in Seq(CaddyLine)
      BY <3>1, PrefixGrows
    <3> HIDE DEF s, a
    <3>4. OpenBraces(pre \o s) = OpenBraces(pre) + OpenBraces(s) /\ OpenBraces(s) \in Int
      BY <2>2, <3>3, BracesJoined
    <3> DEFINE ps == pre \o s
               as == SubSeq(a, 1, n)
    <3>5. OpenBraces(ps) = OpenBraces(s)
      BY <2>3, <3>4
    <3>6. as = ps
      BY <3>2
    <3> HIDE DEF as, ps
    <3>7. OpenBraces(as) = OpenBraces(s)
      BY <3>5, <3>6
    <3>8. QED
      BY <3>7 DEF as, s
  <2> HIDE DEF a
  <2>7. DOMAIN a = 1 .. 1 + Len(file)
    BY <2>5, LenProperties
  <2>8. ASSUME NEW i \in DOMAIN a, a[i].part = "proxy"
        PROVE  i - 1 \in 1 .. Len(file) /\ file[i - 1].part = "proxy"
    <3>1. i # 1
      BY <2>1, <2>5, <2>8
    <3>2. i - 1 \in 1 .. Len(file) /\ 1 + (i - 1) = i
      BY <1>1, <2>7, <3>1
    <3>3. a[i] = file[i - 1]
      BY <2>5, <3>2
    <3>4. QED
      BY <2>8, <3>2, <3>3
  <2>9. ASSUME NEW i \in DOMAIN a, a[i].part = "proxy"
        PROVE  /\ \A j \in DOMAIN a : a[j].part = "proxy" => j = i
               /\ \A n \in i - 1 .. Len(a) - 1 : OpenBraces(SubSeq(a, 1, n)) >= 1
    <3>1. i - 1 \in 1 .. Len(file) /\ file[i - 1].part = "proxy"
      BY <2>8, <2>9
    <3>2. ASSUME NEW j \in DOMAIN a, a[j].part = "proxy"
          PROVE  j = i
      <4>1. j - 1 \in 1 .. Len(file) /\ file[j - 1].part = "proxy"
        BY <2>8, <3>2
      <4>2. j - 1 = i - 1
        BY <1>1, <3>1, <4>1
      <4>3. QED
        BY <1>1, <2>7, <4>2
    <3>3. ASSUME NEW n \in i - 1 .. Len(a) - 1
          PROVE  OpenBraces(SubSeq(a, 1, n)) >= 1
      <4>1. n - 1 \in (i - 1) - 1 .. Len(file) - 1 /\ n \in 1 .. Len(file) + 1
        BY <1>1, <2>5, <2>7, <3>1
      <4>2. OpenBraces(SubSeq(file, 1, n - 1)) >= 1
        BY <1>1, <3>1, <4>1
      <4>3. QED
        BY <2>6, <4>1, <4>2
    <3>4. QED
      BY <3>2, <3>3
  <2>10. Pristine(a)
    BY <2>5, <2>9 DEF Pristine
  <2>11. QED
    BY <2>5, <2>10 DEF a, pre, t
<1>4. QED
  BY <1>2, <1>3

\* A file put together from two is cut in the first or in the second.
LEMMA JoinsAreCut ==
  \A a, b \in Seq(CaddyLine) : \A n \in 0 .. Len(a) + Len(b) :
    /\ n <= Len(a) => SubSeq(a \o b, 1, n) = SubSeq(a, 1, n)
    /\ n >= Len(a) => SubSeq(a \o b, 1, n) = a \o SubSeq(b, 1, n - Len(a))
  BY JoinedPrefix

\* A patched file that is cut off is the file before it, cut off, or has an open
\* block.
LEMMA TornPatch ==
  ASSUME NEW file \in Seq(CaddyLine), NEW token \in 0 .. MaxInstalls,
         Pristine(file), Has(file, "proxy"),
         NEW n \in 0 .. Len(FreshPatch(file, token)) - 1
  PROVE  /\ SubSeq(FreshPatch(file, token), 1, n) \in Seq(CaddyLine)
         /\ \/ Pristine(SubSeq(FreshPatch(file, token), 1, n))
            \/ Spoilt(SubSeq(FreshPatch(file, token), 1, n))
<1>1. PICK u \in Seq(CaddyLine), z \in Seq(CaddyLine) : PatchedAround(file, u, z)
  BY FreshShape
<1> DEFINE b == L("begin")
           e == L("end")
           w == <<Route(token)>>
           a == Append(u, b)
           f == a \o w
           g == Append(f, e)
           p == g \o z
           cut == SubSeq(p, 1, n)
<1>2. w \in Seq(CaddyLine) /\ Unmarked(w) /\ FreshPatch(file, token) = Enclosed(u, w, z)
  BY <1>1, PatchEncloses DEF PatchedAround
<1>3. Enclosed(u, w, z) = p
  BY DEF Enclosed, Begun
<1>4. b \in CaddyLine /\ e \in CaddyLine
  BY InstallAssumption DEF L, CaddyLine, Part
<1>5. Unmarked(u) /\ Unmarked(z) /\ OpenBraces(u) >= 1 /\ Firm(u, z)
  BY <1>1 DEF PatchedAround
<1>6. Unmarked(<<>>) /\ <<>> \in Seq(CaddyLine)
  BY EmptySeq DEF Unmarked, Has
<1> HIDE DEF b, e, w
<1>7. a \in Seq(CaddyLine) /\ Len(a) = Len(u) + 1 /\ Len(u) \in Nat /\ a = u \o <<b>>
      /\ <<b>> \in Seq(CaddyLine) /\ Len(<<b>>) = 1
  BY <1>4, AppendProperties, LenProperties, JoinsAgree
<1> HIDE DEF a
<1>8. f \in Seq(CaddyLine) /\ Len(f) = Len(a) + Len(w) /\ Len(w) \in Nat
  BY <1>2, <1>7, ConcatProperties, LenProperties
<1> HIDE DEF f
<1>9. g \in Seq(CaddyLine) /\ Len(g) = Len(f) + 1 /\ g = f \o <<e>>
      /\ <<e>> \in Seq(CaddyLine) /\ Len(<<e>>) = 1
  <2> DEFINE one == <<e>>
  <2>1. g \in Seq(CaddyLine) /\ Len(g) = Len(f) + 1
    BY <1>4, <1>8, AppendProperties
  <2>2. one \in Seq(CaddyLine) /\ Len(one) = 1
    BY <1>4
  <2>3. g = f \o one
    BY <1>4, <1>8, AppendIsConcat
  <2>4. QED
    BY <2>1, <2>2, <2>3
<1> HIDE DEF g
<1>10. p \in Seq(CaddyLine) /\ Len(p) = Len(g) + Len(z) /\ Len(z) \in Nat
  BY <1>9, ConcatProperties, LenProperties
<1>11. n \in 0 .. Len(p) - 1 /\ n \in 0 .. Len(g) + Len(z) /\ Len(g) \in Nat
       /\ Len(f) \in Nat /\ Len(a) \in Nat
  <2>1. Len(FreshPatch(file, token)) = Len(p)
    BY <1>2, <1>3
  <2>2. Len(g) \in Nat /\ Len(f) \in Nat /\ Len(a) \in Nat
    BY <1>7, <1>8, <1>9
  <2>3. n \in 0 .. Len(p) - 1
    BY <2>1
  <2> HIDE DEF p
  <2>4. QED
    BY <1>10, <2>2, <2>3
<1>12. cut \in Seq(CaddyLine)
  <2> HIDE DEF p
  <2>1. n \in 0 .. Len(p)
    BY <1>10, <1>11
  <2>2. QED
    BY <1>10, <2>1, PrefixGrows
<1>13. CASE n >= Len(g)
  <2> DEFINE x == SubSeq(z, 1, n - Len(g))
  <2>1. cut = g \o x
    <3>1. g \in Seq(CaddyLine) /\ n \in 0 .. Len(g) + Len(z) /\ n >= Len(g)
      BY <1>9, <1>11, <1>13
    <3>2. SubSeq(g \o z, 1, n) = g \o SubSeq(z, 1, n - Len(g))
      BY ONLY <3>1, z \in Seq(CaddyLine), JoinsAreCut
    <3>3. QED
      BY <3>2
  <2>2. n - Len(g) \in 0 .. Len(z) - 1 /\ n - Len(g) \in 0 .. Len(z)
    <3> HIDE DEF p
    <3>1. QED
      BY <1>10, <1>11, <1>13
  <2>3. x \in Seq(CaddyLine) /\ Unmarked(x) /\ OpenBraces(u) + OpenBraces(x) >= 1
    BY <1>5, <2>2, HasParts DEF Firm, Unmarked
  <2> HIDE DEF x
  <2>4. cut = Enclosed(u, w, x)
    BY <2>1 DEF Enclosed, Begun, g, f, a, e, b
  <2> HIDE DEF cut
  <2>5. Spoilt(cut)
    BY <1>2, <1>5, <2>3, <2>4 DEF Spoilt
  <2>6. QED
    BY <1>2, <1>3, <1>12, <2>5 DEF cut
<1>14. CASE n < Len(g) /\ n >= Len(a)
  <2> DEFINE x == SubSeq(w, 1, n - Len(a))
             gn == SubSeq(g, 1, n)
             fn == SubSeq(f, 1, n)
  <2>1. cut = gn
    BY <1>9, <1>11, <1>14, JoinsAreCut
  <2>2. n \in 0 .. Len(f) + 1 /\ n <= Len(f) /\ n \in 0 .. Len(a) + Len(w)
        /\ n - Len(a) \in 0 .. Len(w)
    BY <1>8, <1>9, <1>11, <1>14
  <2>3. gn = fn
    <3> DEFINE one == <<e>>
               fo == f \o one
    <3>1. one \in Seq(CaddyLine) /\ Len(one) = 1 /\ g = fo
      BY <1>9
    <3> HIDE DEF one
    <3>2. n \in 0 .. Len(f) + Len(one)
      BY <2>2, <3>1
    <3>3. SubSeq(fo, 1, n) = fn
      BY <1>8, <2>2, <3>1, <3>2, JoinsAreCut
    <3> HIDE DEF fo
    <3>4. QED
      BY <3>1, <3>3
  <2>4. fn = a \o x
    <3>1. a \in Seq(CaddyLine) /\ w \in Seq(CaddyLine) /\ n \in 0 .. Len(a) + Len(w)
          /\ n >= Len(a)
      BY <1>2, <1>7, <1>14, <2>2
    <3>2. SubSeq(a \o w, 1, n) = a \o SubSeq(w, 1, n - Len(a))
      BY ONLY <3>1, JoinsAreCut
    <3>3. QED
      BY <3>2 DEF f
  <2>5. x \in Seq(CaddyLine) /\ Unmarked(x)
    BY <1>2, <2>2, HasParts DEF Unmarked
  <2> HIDE DEF x, gn, fn, cut
  <2>6. cut = Begun(u, x)
    BY <2>1, <2>3, <2>4 DEF Begun, a, b
  <2>7. Spoilt(cut)
    BY <1>5, <1>6, <2>5, <2>6 DEF Spoilt
  <2>8. QED
    BY <1>2, <1>3, <1>12, <2>7 DEF cut
<1>15. CASE n < Len(a)
  <2> DEFINE gn == SubSeq(g, 1, n)
             fn == SubSeq(f, 1, n)
             an == SubSeq(a, 1, n)
             un == SubSeq(u, 1, n)
  <2>1. cut = gn
    BY <1>8, <1>9, <1>11, <1>15, JoinsAreCut
  <2>2. n \in 0 .. Len(f) + 1 /\ n <= Len(f) /\ n \in 0 .. Len(a) + Len(w)
        /\ n \in 0 .. Len(u) + 1 /\ n <= Len(u) /\ n \in 0 .. Len(u) /\ n <= Len(a)
    BY <1>7, <1>8, <1>9, <1>11, <1>15
  <2>3. gn = fn
    <3> DEFINE one == <<e>>
               fo == f \o one
    <3>1. one \in Seq(CaddyLine) /\ Len(one) = 1 /\ g = fo
      BY <1>9
    <3> HIDE DEF one
    <3>2. n \in 0 .. Len(f) + Len(one)
      BY <2>2, <3>1
    <3>3. SubSeq(fo, 1, n) = fn
      BY <1>8, <2>2, <3>1, <3>2, JoinsAreCut
    <3> HIDE DEF fo
    <3>4. QED
      BY <3>1, <3>3
  <2>4. fn = an
    BY <1>2, <1>7, <2>2, JoinsAreCut DEF f
  <2>5. an = un
    <3> DEFINE one == <<b>>
               uo == u \o one
    <3>1. one \in Seq(CaddyLine) /\ Len(one) = 1 /\ a = uo
      BY <1>7
    <3> HIDE DEF one
    <3>2. n \in 0 .. Len(u) + Len(one)
      BY <2>2, <3>1
    <3>3. SubSeq(uo, 1, n) = un
      BY <2>2, <3>1, <3>2, JoinsAreCut
    <3> HIDE DEF uo
    <3>4. QED
      BY <3>1, <3>3
  <2>6. Pristine(un)
    <3>1. PICK m \in 0 .. Len(file) : u = SubSeq(file, 1, m)
      BY <1>1 DEF PatchedAround
    <3>2. Pristine(u)
      BY <3>1, PristineParts
    <3>3. QED
      BY <2>2, <3>2, PristineParts
  <2> HIDE DEF gn, fn, an, un, cut
  <2>7. Pristine(cut)
    BY <2>1, <2>3, <2>4, <2>5, <2>6
  <2>8. QED
    BY <1>2, <1>3, <1>12, <2>7 DEF cut
<1>16. QED
  BY <1>11, <1>13, <1>14, <1>15

\* Without its end marker, the panel's block goes on to the end of the file.
LEMMA EndRemoved ==
  ASSUME NEW u \in Seq(CaddyLine), NEW w \in Seq(CaddyLine), NEW x \in Seq(CaddyLine),
         Unmarked(u), Unmarked(w), Unmarked(x),
         NEW i \in DOMAIN Enclosed(u, w, x), Enclosed(u, w, x)[i].part = "end"
  PROVE  RemoveAt(Enclosed(u, w, x), i) = Begun(u, w \o x)
<1> DEFINE b == L("begin")
           e == L("end")
           a == Append(u, b)
           f == a \o w
           g == Append(f, e)
           p == g \o x
<1>1. b \in CaddyLine /\ e \in CaddyLine /\ b.part = "begin" /\ e.part = "end"
  BY InstallAssumption DEF L, CaddyLine, Part
<1>2. Enclosed(u, w, x) = p
  BY DEF Enclosed, Begun
<1>3. f \in Seq(CaddyLine) /\ ~Has(f, "end") /\ f = Begun(u, w)
  <2>1. f = Begun(u, w)
    BY DEF Begun
  <2> HIDE DEF f
  <2>2. QED
    BY <2>1, MarkedParts
<1>4. Begun(u, w \o x) = f \o x
  <2>1. a \in Seq(CaddyLine)
    BY <1>1, AppendProperties
  <2>2. Begun(u, w \o x) = a \o (w \o x)
    BY DEF Begun
  <2> HIDE DEF a
  <2>3. (a \o w) \o x = a \o (w \o x)
    BY <2>1, JoinsInOrder
  <2>4. QED
    BY <2>2, <2>3
<1> HIDE DEF b, e, a, f
<1>5. /\ g \in Seq(CaddyLine) /\ Len(f) \in Nat /\ Len(g) = Len(f) + 1 /\ g[Len(f) + 1] = e
      /\ \A k \in 1 .. Len(f) : g[k] = f[k]
  BY <1>1, <1>3, AppendProperties, LenProperties
<1> HIDE DEF g
<1>6. /\ p \in Seq(CaddyLine) /\ Len(x) \in Nat /\ Len(p) = Len(g) + Len(x)
      /\ \A k \in 1 .. Len(g) : p[k] = g[k]
      /\ \A k \in 1 .. Len(x) : p[Len(g) + k] = x[k]
  <2>1. g \in Seq(CaddyLine)
    BY <1>5
  <2>2. QED
    BY ONLY <2>1, x \in Seq(CaddyLine), ConcatProperties, LenProperties
<1> HIDE DEF p
<1>7. i \in 1 .. Len(p) /\ p[i].part = "end"
  BY <1>2, <1>6, LenProperties
<1>8. i = Len(g)
  <2>1. CASE i <= Len(f)
    <3>1. i \in 1 .. Len(f) /\ p[i] = f[i] /\ i \in DOMAIN f
      BY <1>3, <1>5, <1>6, <1>7, <2>1, LenProperties
    <3>2. QED
      BY <1>3, <1>7, <3>1 DEF Has
  <2>2. CASE i > Len(g)
    <3>1. i - Len(g) \in 1 .. Len(x) /\ Len(g) + (i - Len(g)) = i
      BY <1>5, <1>6, <1>7, <2>2
    <3>2. p[i] = x[i - Len(g)] /\ i - Len(g) \in DOMAIN x
      BY <1>6, <3>1, LenProperties
    <3>3. QED
      BY <1>7, <3>2 DEF Has, Unmarked
  <2>3. QED
    BY <1>5, <1>6, <1>7, <2>1, <2>2
<1> DEFINE h == SubSeq(p, 1, i - 1)
           t == SubSeq(p, i + 1, Len(p))
<1>9. h = f
  <2>1. i - 1 \in 0 .. Len(p) /\ i - 1 = Len(f)
    BY <1>5, <1>6, <1>8
  <2>2. h \in Seq(CaddyLine) /\ Len(h) = i - 1 /\ \A k \in 1 .. i - 1 : h[k] = p[k]
    BY <1>6, <2>1, PrefixGrows
  <2> HIDE DEF h
  <2>3. \A k \in 1 .. Len(h) : h[k] = f[k]
    <3>1. \A k \in 1 .. Len(f) : k \in 1 .. Len(g) /\ p[k] = g[k] /\ g[k] = f[k]
      <4>1. \A k \in 1 .. Len(f) : k \in 1 .. Len(g)
        BY <1>5
      <4>2. QED
        BY <1>5, <1>6, <4>1
    <3>2. QED
      BY <2>1, <2>2, <3>1
  <2>4. QED
    BY <1>3, <2>1, <2>2, <2>3, SeqEqual
<1>10. t = x
  <2>1. i + 1 \in 1 .. Len(p) + 1 /\ Len(p) \in i .. Len(p)
    BY <1>5, <1>6, <1>8
  <2>2. t \in Seq(CaddyLine) /\ Len(t) = Len(x) /\ \A k \in 1 .. Len(x) : t[k] = p[i + k]
    <3> DEFINE m == i + 1
               q == Len(p)
    <3>1. m \in Int /\ q \in Int /\ \A k \in m .. q : p[k] \in CaddyLine
      <4>1. \A k \in m .. q : k \in 1 .. Len(p)
        BY <1>5, <1>6, <1>8
      <4>2. QED
        BY <1>5, <1>6, <1>8, <4>1, ElementOfSeq
    <3>2. q - m + 1 = Len(x) /\ m <= q + 1
      BY <1>5, <1>6, <1>8
    <3> HIDE DEF m, q
    <3>3. /\ SubSeq(p, m, q) \in Seq(CaddyLine)
          /\ Len(SubSeq(p, m, q)) = IF m <= q THEN q - m + 1 ELSE 0
          /\ \A k \in 1 .. q - m + 1 : SubSeq(p, m, q)[k] = p[m + k - 1]
      BY <1>6, <3>1, SubSeqProperties
    <3>4. Len(SubSeq(p, m, q)) = Len(x)
      BY <1>6, <3>1, <3>2, <3>3
    <3>5. \A k \in 1 .. Len(x) : SubSeq(p, m, q)[k] = p[m + k - 1]
      BY <3>2, <3>3
    <3>6. \A k \in 1 .. Len(x) : m + k - 1 = i + k
      BY <1>5, <1>8 DEF m
    <3>7. QED
      BY <3>3, <3>4, <3>5, <3>6 DEF m, q
  <2> HIDE DEF t
  <2>3. \A k \in 1 .. Len(t) : t[k] = x[k]
    BY <1>6, <1>8, <2>2
  <2>4. QED
    BY <2>2, <2>3, SeqEqual
<1>11. RemoveAt(p, i) = h \o t
  BY DEF RemoveAt
<1> HIDE DEF h, t
<1>12. RemoveAt(p, i) = f \o x
  BY <1>9, <1>10, <1>11
<1>13. QED
  BY <1>2, <1>4, <1>12

\* The first patch takes no notice of what it has written.
LEMMA FreshShifts ==
  ASSUME NEW pre \in Seq(CaddyLine), NEW st \in FreshState, NEW line \in CaddyLine,
         NEW token \in 0 .. MaxInstalls
  PROVE  FreshAwk([lines |-> pre \o st.lines, depth |-> st.depth], line, token) =
           [lines |-> pre \o FreshAwk(st, line, token).lines,
            depth |-> FreshAwk(st, line, token).depth]
<1> DEFINE new == FreshAwk(st, line, token)
           ls == st.lines
           moved == [lines |-> pre \o ls, depth |-> st.depth]
           after == FreshAwk(moved, line, token)
<1>1. ls \in Seq(CaddyLine) /\ st.depth \in Int /\ Nesting(line) \in Int
  BY BlockLines DEF FreshState
<1>2. moved.lines = pre \o ls /\ moved.depth = st.depth /\ moved \in FreshState
      /\ pre \o ls \in Seq(CaddyLine)
  <2>1. pre \o ls \in Seq(CaddyLine)
    BY <1>1, ConcatProperties
  <2>2. QED
    BY <1>1, <2>1 DEF FreshState
<1>3. st.lines = ls
  OBVIOUS
<1> HIDE DEF ls, moved
<1>4. CASE st.depth = 0 /\ line.part = "proxy"
  <2> DEFINE block == ManagedBlock(token)
             two == <<L("wrap"), line>>
             lb == ls \o block
  <2>1. block \in Seq(CaddyLine) /\ two \in Seq(CaddyLine)
    BY BlockLines
  <2>2. new = [lines |-> (ls \o block) \o two, depth |-> 1]
    BY <1>3, <1>4 DEF FreshAwk
  <2>3. after = [lines |-> ((pre \o ls) \o block) \o two, depth |-> 1]
    BY <1>2, <1>4 DEF FreshAwk
  <2> HIDE DEF block, two, new, after
  <2>4. lb \in Seq(CaddyLine) /\ (pre \o ls) \o block = pre \o lb
    BY <1>1, <2>1, JoinsInOrder, ConcatProperties
  <2> HIDE DEF lb
  <2>5. (pre \o lb) \o two = pre \o (lb \o two)
    BY <2>1, <2>4, JoinsInOrder
  <2>6. new.lines = lb \o two /\ new.depth = 1
    BY <2>2 DEF lb
  <2>7. QED
    BY <2>3, <2>4, <2>5, <2>6 DEF new, after, moved, ls
<1>5. CASE st.depth # 0 /\ st.depth + Nesting(line) = 0
  <2> DEFINE two == <<line, L("close")>>
  <2>1. two \in Seq(CaddyLine)
    BY BlockLines
  <2>2. new = [lines |-> ls \o two, depth |-> 0]
    BY <1>3, <1>5 DEF FreshAwk
  <2>3. after = [lines |-> (pre \o ls) \o two, depth |-> 0]
    BY <1>2, <1>5 DEF FreshAwk
  <2> HIDE DEF two, new, after
  <2>4. (pre \o ls) \o two = pre \o (ls \o two)
    BY <1>1, <2>1, JoinsInOrder
  <2>5. QED
    BY <2>2, <2>3, <2>4 DEF new, after, moved, ls
<1>6. CASE st.depth # 0 /\ st.depth + Nesting(line) # 0
  <2> DEFINE d == st.depth + Nesting(line)
  <2>1. new = [lines |-> Append(ls, line), depth |-> d]
    BY <1>3, <1>6 DEF FreshAwk
  <2>2. after = [lines |-> Append(pre \o ls, line), depth |-> d]
    BY <1>2, <1>6 DEF FreshAwk
  <2> HIDE DEF d, new, after
  <2>3. Append(pre \o ls, line) = pre \o Append(ls, line)
    BY <1>1, LinesJoinLast
  <2>4. QED
    BY <2>1, <2>2, <2>3 DEF new, after, moved, ls
<1>7. CASE st.depth = 0 /\ line.part # "proxy"
  <2> DEFINE longer == Append(ls, line)
             both == Append(pre \o ls, line)
  <2>1. longer \in Seq(CaddyLine) /\ both \in Seq(CaddyLine) /\ both = pre \o longer
    <3>1. longer \in Seq(CaddyLine) /\ both \in Seq(CaddyLine)
      BY <1>1, <1>2, AppendProperties
    <3>2. both = pre \o longer
      BY <1>1, LinesJoinLast
    <3>3. QED
      BY <3>1, <3>2
  <2>2. new = [st EXCEPT !.lines = longer]
    BY <1>3, <1>7 DEF FreshAwk
  <2>3. after = [moved EXCEPT !.lines = both]
    BY <1>2, <1>7 DEF FreshAwk
  <2> HIDE DEF longer, both, new, after
  <2>4. [st EXCEPT !.lines = longer] = [lines |-> longer, depth |-> st.depth]
        /\ [moved EXCEPT !.lines = both] = [lines |-> both, depth |-> moved.depth]
    BY <1>2, <2>1, StateParts
  <2>5. new.lines = longer /\ new.depth = st.depth
        /\ after = [lines |-> both, depth |-> st.depth]
    BY <1>2, <2>2, <2>3, <2>4
  <2>6. QED
    BY <2>1, <2>5 DEF new, after, moved, ls
<1>8. QED
  BY <1>1, <1>4, <1>5, <1>6, <1>7

\* A line before the file stays before it.
LEMMA FreshPrepends ==
  ASSUME NEW file \in Seq(CaddyLine), NEW token \in 0 .. MaxInstalls
  PROVE  FreshPatch(<<L("text")>> \o file, token) = <<L("text")>> \o FreshPatch(file, token)
<1> DEFINE n == Len(file)
           text == L("text")
           pre == <<text>>
           End(k) == FreshEnd(SubSeq(file, 1, k), token)
           Moved(k) == FreshEnd(Extended(pre, file, k), token)
           Same(k) == Moved(k) = [lines |-> pre \o End(k).lines, depth |-> End(k).depth]
           T == {k \in 0 .. n : Same(k)}
<1>1. text \in CaddyLine /\ text.part = "text"
  BY InstallAssumption DEF L, CaddyLine, Part
<1> HIDE DEF text
<1>2. pre \in Seq(CaddyLine) /\ pre = Append(<<>>, text)
  BY <1>1
<1>3. FreshEnd(pre, token) = [lines |-> pre, depth |-> 0]
  <2> DEFINE st == [lines |-> <<>>, depth |-> 0]
             z == <<>>
  <2>1. z \in Seq(CaddyLine) /\ FreshEnd(z, token) = st
    BY <1>1, EmptySeq, FreshAppends
  <2>2. st \in FreshState /\ st.depth = 0 /\ Append(st.lines, text) = pre
    BY <1>2, <2>1 DEF FreshState
  <2>3. Append(z, text) = pre
    BY <1>2
  <2> HIDE DEF z, st, pre
  <2> DEFINE zt == Append(z, text)
  <2>4. FreshEnd(zt, token) = FreshAwk(st, text, token)
    BY <1>1, <2>1, FreshAppends
  <2>5. FreshAwk(st, text, token) = [st EXCEPT !.lines = pre]
    BY <1>1, <2>2 DEF FreshAwk
  <2>6. [st EXCEPT !.lines = pre] = [lines |-> pre, depth |-> st.depth]
    BY <1>2, <2>2, StateParts
  <2>7. zt = pre
    BY <2>3
  <2> HIDE DEF zt
  <2>8. QED
    BY <2>2, <2>4, <2>5, <2>6, <2>7
<1>4. /\ n \in Nat /\ \A k \in 1 .. n : file[k] \in CaddyLine
      /\ SubSeq(file, 1, 0) = <<>> /\ SubSeq(file, 1, n) = file
      /\ \A k \in 0 .. n : SubSeq(file, 1, k) \in Seq(CaddyLine)
      /\ \A k \in 1 .. n : SubSeq(file, 1, k) = Append(SubSeq(file, 1, k - 1), file[k])
  BY PrefixGrows, ElementOfSeq
<1> HIDE DEF pre
<1>5. /\ Extended(pre, file, 0) = pre /\ Extended(pre, file, n) = pre \o file
      /\ \A k \in 0 .. n : Extended(pre, file, k) \in Seq(CaddyLine)
      /\ \A k \in 1 .. n : Extended(pre, file, k) = Append(Extended(pre, file, k - 1), file[k])
  <2>1. pre \in Seq(CaddyLine)
    BY <1>2
  <2>2. QED
    BY ONLY <2>1, file \in Seq(CaddyLine), Extends
<1> HIDE DEF n
<1>6. Same(0)
  <2>1. End(0) = [lines |-> <<>>, depth |-> 0]
    BY <1>1, <1>4, FreshAppends, EmptySeq
  <2>2. Moved(0) = [lines |-> pre, depth |-> 0]
    BY <1>3, <1>5
  <2> DEFINE z == <<>>
  <2>3. pre \o z = pre /\ End(0).lines = z /\ End(0).depth = 0
    BY <1>2, <2>1, ConcatEmptySeq
  <2> HIDE DEF End, Moved, z
  <2>4. QED
    BY <2>2, <2>3
<1>7. ASSUME NEW k \in 1 .. n, Same(k - 1)
      PROVE  Same(k)
  <2> DEFINE s == SubSeq(file, 1, k - 1)
             t == Extended(pre, file, k - 1)
             st == End(k - 1)
             line == file[k]
             ls == pre \o st.lines
             sl == Append(s, line)
             tl == Append(t, line)
  <2>1. k - 1 \in 0 .. n /\ k \in 0 .. n
    BY <1>4
  <2>2. /\ s \in Seq(CaddyLine) /\ t \in Seq(CaddyLine) /\ line \in CaddyLine
        /\ SubSeq(file, 1, k) = sl /\ Extended(pre, file, k) = tl
    BY <1>4, <1>5, <2>1
  <2>3. FreshEnd(s, token) = st /\ FreshEnd(t, token) = [lines |-> ls, depth |-> st.depth]
    BY <1>7
  <2>4. End(k) = FreshEnd(sl, token) /\ Moved(k) = FreshEnd(tl, token)
    BY <2>2
  <2> HIDE DEF s, t, st, line, ls, End, Moved
  <2>5. st \in FreshState /\ FreshEnd(sl, token) = FreshAwk(st, line, token)
        /\ FreshEnd(tl, token) = FreshAwk([lines |-> ls, depth |-> st.depth], line, token)
    BY <2>2, <2>3, FreshAppends
  <2>6. FreshAwk([lines |-> ls, depth |-> st.depth], line, token) =
          [lines |-> pre \o FreshAwk(st, line, token).lines,
           depth |-> FreshAwk(st, line, token).depth]
    BY <1>2, <2>2, <2>5, FreshShifts DEF ls
  <2> HIDE DEF sl, tl
  <2>7. QED
    BY <2>4, <2>5, <2>6
<1> HIDE DEF Same
<1>8. T = 0 .. n
  <2>1. T \in SUBSET (0 .. n) /\ 0 \in T
    BY <1>4, <1>6
  <2>2. \A k \in 1 .. n : k - 1 \in T => k \in T
    BY <1>4, <1>7
  <2> HIDE DEF T
  <2>3. QED
    BY <1>4, <2>1, <2>2, PrefixInduction
<1>9. Same(n)
  <2>1. n \in T
    BY <1>4, <1>8
  <2>2. QED
    BY <2>1
<1> DEFINE pf == pre \o file
<1>10. FreshEnd(pf, token).lines = pre \o FreshEnd(file, token).lines
  <2>1. Moved(n) = FreshEnd(pf, token) /\ End(n) = FreshEnd(file, token)
    BY <1>4, <1>5
  <2> HIDE DEF pf, Moved, End
  <2>2. QED
    BY <1>9, <2>1 DEF Same
<1>11. pf \in Seq(CaddyLine)
  BY <1>2, ConcatProperties
<1> HIDE DEF pf
<1>12. FreshPatch(pf, token) = FreshEnd(pf, token).lines
       /\ FreshPatch(file, token) = FreshEnd(file, token).lines
  BY <1>11, FreshCarries
<1>13. FreshPatch(pf, token) = pre \o FreshPatch(file, token)
  BY <1>10, <1>12
<1>14. QED
  BY <1>13 DEF pf, pre, text

\* What a run writes over a patched file is what it would have made of the file
\* before.
LEMMA UpdateOfPatched ==
  ASSUME NEW file \in Seq(CaddyLine), Pristine(file), Has(file, "proxy"),
         NEW token \in 0 .. MaxInstalls, NEW newer \in 0 .. MaxInstalls
  PROVE  /\ Has(FreshPatch(file, token), "begin")
         /\ UpdatePatch(FreshPatch(file, token), newer) = FreshPatch(file, newer)
         /\ \A i \in DOMAIN FreshPatch(file, token) :
              FreshPatch(file, token)[i].part = "end" =>
                Spoilt(RemoveAt(FreshPatch(file, token), i))
<1>1. PICK u \in Seq(CaddyLine), z \in Seq(CaddyLine) : PatchedAround(file, u, z)
  BY FreshShape
<1> DEFINE w == <<Route(token)>>
           f == FreshPatch(file, token)
<1>2. /\ w \in Seq(CaddyLine) /\ Unmarked(w) /\ f = Enclosed(u, w, z)
      /\ FreshPatch(file, newer) = (u \o ManagedBlock(newer)) \o z
      /\ Unmarked(u) /\ Unmarked(z) /\ OpenBraces(u) >= 1
  BY <1>1, PatchEncloses DEF PatchedAround
<1> HIDE DEF w, f
<1>3. Has(f, "begin")
  BY <1>2, MarkedParts
<1>4. UpdatePatch(f, newer) = FreshPatch(file, newer)
  <2>1. UpdatePatch(Enclosed(u, w, z), newer) = (u \o ManagedBlock(newer)) \o z
    <3>1. /\ Unmarked(u) /\ Unmarked(w) /\ Unmarked(z) /\ w \in Seq(CaddyLine)
          /\ u \in Seq(CaddyLine) /\ z \in Seq(CaddyLine) /\ newer \in 0 .. MaxInstalls
      BY <1>2
    <3>2. UpdatePatch(Enclosed(u, w, z), newer) = Joined(Joined(u, ManagedBlock(newer)), z)
      BY ONLY <3>1, UpdateReplaces
    <3>3. QED
      BY <3>2 DEF Joined
  <2>2. QED
    BY <1>2, <2>1
<1>5. ASSUME NEW i \in DOMAIN f, f[i].part = "end"
      PROVE  Spoilt(RemoveAt(f, i))
  <2> DEFINE wz == w \o z
             g == RemoveAt(f, i)
  <2>1. RemoveAt(Enclosed(u, w, z), i) = Begun(u, w \o z)
    <3>1. i \in DOMAIN Enclosed(u, w, z) /\ Enclosed(u, w, z)[i].part = "end"
      BY <1>2, <1>5
    <3>2. QED
      BY <1>2, <3>1, EndRemoved
  <2>2. g = Begun(u, wz)
    BY <1>2, <2>1
  <2>3. wz \in Seq(CaddyLine) /\ Unmarked(wz)
    BY <1>2, HasParts DEF Unmarked
  <2> HIDE DEF g, wz
  <2>4. Spoilt(g)
    BY <1>2, <2>2, <2>3 DEF Spoilt
  <2>5. QED
    BY <2>4 DEF g
<1>6. QED
  BY <1>3, <1>4, <1>5 DEF f

\* A spoilt file with a line before it.
LEMMA SpoiltMoves ==
  ASSUME NEW file \in Seq(CaddyLine), Spoilt(file), NEW pre \in Seq(CaddyLine),
         Unmarked(pre), OpenBraces(pre) = 0
  PROVE  Spoilt(pre \o file)
<1>1. PICK u \in Seq(CaddyLine), w \in Seq(CaddyLine), x \in Seq(CaddyLine) :
         /\ Unmarked(u) /\ Unmarked(w) /\ Unmarked(x) /\ OpenBraces(u) >= 1
         /\ \/ file = Begun(u, w)
            \/ file = Enclosed(u, w, x) /\ OpenBraces(u) + OpenBraces(x) >= 1
  BY DEF Spoilt
<1> DEFINE v == Joined(pre, u)
           g == Joined(pre, file)
<1>2. OpenBraces(v) = OpenBraces(u) /\ v \in Seq(CaddyLine)
  BY BracesJoined, ConcatProperties DEF Joined
<1>3. Unmarked(v)
  BY <1>1, HasParts DEF Unmarked, Joined
<1>4. /\ Joined(pre, Begun(u, w)) = Begun(v, w)
      /\ Joined(pre, Enclosed(u, w, x)) = Enclosed(v, w, x)
  BY LinesBefore
<1> HIDE DEF v
<1>5. \/ g = Begun(v, w)
      \/ g = Enclosed(v, w, x) /\ OpenBraces(v) + OpenBraces(x) >= 1
  BY <1>1, <1>2, <1>4
<1> HIDE DEF g
<1>6. Spoilt(g)
  BY <1>1, <1>2, <1>3, <1>5 DEF Spoilt
<1>7. QED
  BY <1>6 DEF g, Joined

\* A spoilt file is patched to one that caddy validate refuses, and edits leave it
\* spoilt.
LEMMA SpoiltStays ==
  ASSUME NEW file \in Seq(CaddyLine), Spoilt(file), NEW token \in 0 .. MaxInstalls
  PROVE  /\ Has(file, "begin")
         /\ ~Valid(UpdatePatch(file, token))
         /\ Spoilt(<<L("text")>> \o file)
         /\ \A i \in DOMAIN file : file[i].part = "end" => Spoilt(RemoveAt(file, i))
<1>1. PICK u \in Seq(CaddyLine), w \in Seq(CaddyLine), x \in Seq(CaddyLine) :
         /\ Unmarked(u) /\ Unmarked(w) /\ Unmarked(x) /\ OpenBraces(u) >= 1
         /\ \/ file = Begun(u, w)
            \/ file = Enclosed(u, w, x) /\ OpenBraces(u) + OpenBraces(x) >= 1
  BY DEF Spoilt
<1>2. Has(file, "begin")
  <2>1. Has(Begun(u, w), "begin") /\ Has(Enclosed(u, w, x), "begin")
    BY MarkedParts
  <2>2. QED
    BY <1>1, <2>1
<1>3. ~Valid(UpdatePatch(file, token))
  <2> DEFINE um == u \o ManagedBlock(token)
             umx == um \o x
  <2>1. um \in Seq(CaddyLine) /\ OpenBraces(um) = OpenBraces(u) /\ OpenBraces(u) \in Int
    BY BlockLines, BracesOfBlock, BracesOfLines, ConcatProperties
  <2>2. UpdatePatch(Begun(u, w), token) = um /\ UpdatePatch(Enclosed(u, w, x), token) = umx
    <3>1. /\ Unmarked(u) /\ Unmarked(w) /\ Unmarked(x) /\ u \in Seq(CaddyLine)
          /\ w \in Seq(CaddyLine) /\ x \in Seq(CaddyLine) /\ token \in 0 .. MaxInstalls
      BY <1>1
    <3>2. /\ UpdatePatch(Begun(u, w), token) = Joined(u, ManagedBlock(token))
          /\ UpdatePatch(Enclosed(u, w, x), token) =
               Joined(Joined(u, ManagedBlock(token)), x)
      BY ONLY <3>1, UpdateReplaces
    <3>3. QED
      BY <3>2 DEF Joined
  <2> HIDE DEF um
  <2>3. OpenBraces(umx) = OpenBraces(um) + OpenBraces(x) /\ OpenBraces(x) \in Int
    BY <2>1, BracesJoined
  <2> HIDE DEF umx
  <2> DEFINE after == UpdatePatch(file, token)
  <2>4. after = um \/ (after = umx /\ OpenBraces(u) + OpenBraces(x) >= 1)
    BY <1>1, <2>2
  <2> HIDE DEF after
  <2>5. OpenBraces(after) >= 1
    <3>1. CASE after = um
      BY <1>1, <2>1, <3>1
    <3>2. CASE after = umx /\ OpenBraces(u) + OpenBraces(x) >= 1
      BY <2>1, <2>3, <3>2
    <3>3. QED
      BY <2>4, <3>1, <3>2
  <2>6. ~Valid(after)
    BY <2>5 DEF Valid
  <2>7. QED
    BY <2>6 DEF after
<1>4. Spoilt(<<L("text")>> \o file)
  <2> DEFINE text == L("text")
             z == <<>>
             pre == Append(z, text)
  <2>1. text \in CaddyLine /\ text.part = "text" /\ Nesting(text) = 0
    BY InstallAssumption DEF L, CaddyLine, Part, Nesting
  <2>2. pre = <<text>>
    OBVIOUS
  <2>3. z \in Seq(CaddyLine) /\ OpenBraces(z) = 0 /\ \A part : ~Has(z, part)
    BY EmptySeq, BracesOfLines DEF Has
  <2> HIDE DEF text, z
  <2>4. pre \in Seq(CaddyLine) /\ \A part : Has(pre, part) <=> text.part = part
    BY <2>1, <2>3, HasParts
  <2>5. OpenBraces(pre) = OpenBraces(z) + Nesting(text)
    BY <2>1, <2>3, BracesOfLines
  <2>6. OpenBraces(pre) = 0 /\ Unmarked(pre)
    BY <2>1, <2>3, <2>4, <2>5 DEF Unmarked
  <2> HIDE DEF pre
  <2>7. Spoilt(pre \o file)
    BY <2>4, <2>6, SpoiltMoves
  <2>8. QED
    BY <2>2, <2>7 DEF text
<1>5. ASSUME NEW i \in DOMAIN file, file[i].part = "end"
      PROVE  Spoilt(RemoveAt(file, i))
  <2> DEFINE wx == w \o x
             g == RemoveAt(file, i)
  <2>1. file # Begun(u, w)
    <3>1. Has(file, "end")
      BY <1>5 DEF Has
    <3>2. QED
      BY <1>1, <3>1, MarkedParts
  <2>2. i \in DOMAIN Enclosed(u, w, x) /\ Enclosed(u, w, x)[i].part = "end"
        /\ file = Enclosed(u, w, x)
    BY <1>1, <1>5, <2>1
  <2>3. RemoveAt(Enclosed(u, w, x), i) = Begun(u, wx)
    BY <1>1, <2>2, EndRemoved
  <2>4. g = Begun(u, wx)
    BY <2>2, <2>3
  <2>5. wx \in Seq(CaddyLine) /\ Unmarked(wx)
    BY <1>1, HasParts DEF Unmarked
  <2> HIDE DEF g, wx
  <2>6. Spoilt(g)
    BY <1>1, <2>4, <2>5 DEF Spoilt
  <2>7. QED
    BY <2>6 DEF g
<1>6. QED
  BY <1>2, <1>3, <1>4, <1>5

------------------------------------------------------------------------------
(* The Caddyfile is the administrator's.                                   *)

\* What a run makes of a file.
PatchOf(base, n, file) ==
  /\ Pristine(base) /\ Has(base, "proxy")
  /\ \E token \in 1 .. n : file = FreshPatch(base, token)

BaseKept == Pristine(kept) \/ Spoilt(kept)

FileKept == caddyfile = kept \/ PatchOf(kept, installs, caddyfile)

\* A backup is a file that was in use, and what is validated is a patch of the
\* administrator's file or is refused.
RunKept ==
  /\ install.at \in {"patch", "validate", "copy", "restart", "restore"} =>
       install.saved = kept \/ PatchOf(kept, installs, install.saved)
  /\ install.at = "validate" =>
       PatchOf(kept, installs, install.patched) \/ ~Valid(install.patched)
  /\ install.at = "copy" => PatchOf(kept, installs, install.patched)
  /\ install.at \in {"restart", "restore"} => Pristine(kept)

\* The inductive invariant, with InstallInv.
KeptInv == BaseKept /\ FileKept /\ RunKept

\* What a run finds is patched to a patch of the administrator's file, or to a file
\* that caddy validate refuses.
LEMMA PatchKeepsBase ==
  ASSUME NEW base \in Seq(CaddyLine), Pristine(base) \/ Spoilt(base),
         NEW n \in 0 .. MaxInstalls, NEW token \in 1 .. n, NEW file,
         file = base \/ PatchOf(base, n, file), PatchMode(file) # "neither"
  PROVE  /\ PatchMode(file) = "fresh" => PatchOf(base, n, FreshPatch(file, token))
         /\ PatchMode(file) # "fresh" =>
              \/ PatchOf(base, n, UpdatePatch(file, token))
              \/ ~Valid(UpdatePatch(file, token))
<1>1. MaxInstalls \in Nat /\ token \in 0 .. MaxInstalls /\ 1 .. n \subseteq 0 .. MaxInstalls
  BY InstallAssumption
<1>2. CASE PatchOf(base, n, file)
  <2>1. PICK old \in 1 .. n : file = FreshPatch(base, old)
    BY <1>2 DEF PatchOf
  <2>2. Pristine(base) /\ Has(base, "proxy") /\ old \in 0 .. MaxInstalls
    BY <1>1, <1>2, <2>1 DEF PatchOf
  <2>3. Has(file, "begin") /\ UpdatePatch(file, token) = FreshPatch(base, token)
    BY <1>1, <2>1, <2>2, UpdateOfPatched
  <2>4. PatchMode(file) # "fresh"
    BY <2>3 DEF PatchMode
  <2>5. PatchOf(base, n, UpdatePatch(file, token))
    BY <2>2, <2>3 DEF PatchOf
  <2>6. QED
    BY <2>4, <2>5
<1>3. CASE file = base /\ Pristine(base)
  <2>1. ~Has(file, "begin")
    BY <1>3 DEF Pristine
  <2>2. PatchMode(file) = "fresh" /\ Has(file, "proxy")
    BY <2>1 DEF PatchMode
  <2>3. PatchOf(base, n, FreshPatch(file, token))
    BY <1>3, <2>2 DEF PatchOf
  <2>4. QED
    BY <2>2, <2>3
<1>4. CASE file = base /\ Spoilt(base)
  <2>1. Has(file, "begin") /\ ~Valid(UpdatePatch(file, token))
    BY <1>1, <1>4, SpoiltStays
  <2>2. PatchMode(file) # "fresh"
    BY <2>1 DEF PatchMode
  <2>3. QED
    BY <2>1, <2>2
<1>5. QED
  BY <1>2, <1>3, <1>4

\* cp, cut off, leaves a file that was never patched or one that no run touches.
LEMMA CutKeepsBase ==
  ASSUME NEW base \in Seq(CaddyLine), Pristine(base), NEW n \in 0 .. MaxInstalls,
         NEW file, file = base \/ PatchOf(base, n, file),
         NEW m \in 0 .. Len(file) - 1
  PROVE  Pristine(SubSeq(file, 1, m)) \/ Spoilt(SubSeq(file, 1, m))
<1>1. CASE file = base
  <2>1. Len(base) \in Nat
    BY LenProperties
  <2>2. m \in 0 .. Len(base)
    BY <1>1, <2>1
  <2>3. QED
    BY <1>1, <2>2, PristineParts
<1>2. CASE PatchOf(base, n, file)
  <2>1. PICK token \in 1 .. n : file = FreshPatch(base, token)
    BY <1>2 DEF PatchOf
  <2>2. Has(base, "proxy") /\ token \in 0 .. MaxInstalls
    BY <1>2, <2>1, InstallAssumption DEF PatchOf
  <2>3. m \in 0 .. Len(FreshPatch(base, token)) - 1
    BY <2>1
  <2>4. QED
    BY <2>1, <2>2, <2>3, TornPatch
<1>3. QED
  BY <1>1, <1>2

\* A line before a file leaves its reverse_proxy in it.
LEMMA TextBefore ==
  ASSUME NEW file \in Seq(CaddyLine), Has(file, "proxy")
  PROVE  Has(<<L("text")>> \o file, "proxy")
<1> DEFINE pre == <<L("text")>>
<1>1. pre \in Seq(CaddyLine)
  BY InstallAssumption DEF L, CaddyLine, Part
<1> HIDE DEF pre
<1>2. Has(pre \o file, "proxy")
  BY <1>1, HasParts
<1>3. QED
  BY <1>2 DEF pre

\* The line the administrator adds is before the patch as before the file.
LEMMA LineKeepsBase ==
  ASSUME NEW base \in Seq(CaddyLine), Pristine(base) \/ Spoilt(base),
         NEW n \in 0 .. MaxInstalls, NEW file, file = base \/ PatchOf(base, n, file),
         NEW longer, longer = <<L("text")>> \o base,
         NEW after, after = <<L("text")>> \o file
  PROVE  /\ Pristine(longer) \/ Spoilt(longer)
         /\ after = longer \/ PatchOf(longer, n, after)
<1>1. Pristine(longer) \/ Spoilt(longer)
  BY PristineParts, SpoiltStays, InstallAssumption
<1>2. CASE file = base
  BY <1>1, <1>2
<1>3. CASE PatchOf(base, n, file)
  <2>1. PICK token \in 1 .. n : file = FreshPatch(base, token)
    BY <1>3 DEF PatchOf
  <2>2. Pristine(base) /\ Has(base, "proxy") /\ token \in 0 .. MaxInstalls
    BY <1>3, <2>1, InstallAssumption DEF PatchOf
  <2>3. after = FreshPatch(longer, token)
    BY <2>1, <2>2, FreshPrepends
  <2>4. Pristine(longer) /\ Has(longer, "proxy")
    BY <2>2, PristineParts, TextBefore
  <2>5. QED
    BY <1>1, <2>3, <2>4 DEF PatchOf
<1>4. QED
  BY <1>2, <1>3

\* Without the end marker the file is one that no run touches.
LEMMA MarkerKeepsBase ==
  ASSUME NEW base \in Seq(CaddyLine), Pristine(base) \/ Spoilt(base),
         NEW n \in 0 .. MaxInstalls, NEW file, file = base \/ PatchOf(base, n, file),
         NEW i \in DOMAIN file, file[i].part = "end"
  PROVE  Spoilt(RemoveAt(file, i))
<1>1. 0 \in 0 .. MaxInstalls /\ MaxInstalls \in Nat
  BY InstallAssumption
<1>2. CASE file = base /\ Pristine(base)
  BY <1>2 DEF Pristine, Has
<1>3. CASE file = base /\ Spoilt(base)
  BY <1>1, <1>3, SpoiltStays
<1>4. CASE PatchOf(base, n, file)
  <2>1. PICK token \in 1 .. n : file = FreshPatch(base, token)
    BY <1>4 DEF PatchOf
  <2>2. Pristine(base) /\ Has(base, "proxy") /\ token \in 0 .. MaxInstalls
    BY <1>1, <1>4, <2>1 DEF PatchOf
  <2>3. QED
    BY <1>1, <2>1, <2>2, UpdateOfPatched
<1>5. QED
  BY <1>2, <1>3, <1>4

\* A run that ends leaves the files as they are.
LEMMA KeptEnds ==
  ASSUME KeptInv, NEW how, Ends(how),
         kept' = kept, caddyfile' = caddyfile, installs' = installs
  PROVE  KeptInv'
<1>1. install'.at = "none"
  BY RunEnds
<1>2. BaseKept' /\ FileKept'
  BY DEF KeptInv, BaseKept, FileKept
<1>3. RunKept'
  BY <1>1 DEF RunKept
<1>4. QED
  BY <1>2, <1>3 DEF KeptInv

LEMMA KeptBegins ==
  ASSUME InstallTypes, KeptInv, InstallBegins
  PROVE  KeptInv'
<1>1. PICK d \in Dir :
        install' = [NoInstall EXCEPT !.at = "backup", !.dir = d, !.token = installs']
  BY DEF InstallBegins
<1>2. install'.at = "backup"
  BY <1>1 DEF NoInstall
<1>3. kept' = kept /\ caddyfile' = caddyfile /\ installs' = installs + 1
  BY DEF InstallBegins, caddyVars
<1>4. 1 .. installs \subseteq 1 .. installs'
  BY <1>3, InstallFields
<1>5. BaseKept' /\ FileKept'
  BY <1>3, <1>4 DEF KeptInv, BaseKept, FileKept, PatchOf
<1>6. RunKept'
  BY <1>2 DEF RunKept
<1>7. QED
  BY <1>5, <1>6 DEF KeptInv

LEMMA KeptPatching ==
  ASSUME InstallTypes, KeptInv, Backup \/ Patch \/ Validate
  PROVE  KeptInv'
<1>1. caddyfile' = caddyfile /\ kept' = kept /\ installs' = installs
  BY DEF Backup, Patch, Validate, caddyVars, boundVars
<1>2. BaseKept' /\ FileKept'
  BY <1>1 DEF KeptInv, BaseKept, FileKept
<1>3. install \in InstallRun
  BY DEF InstallTypes
<1>4. CASE Backup
  <2>1. install' = [install EXCEPT !.at = "patch", !.saved = caddyfile]
    BY <1>4 DEF Backup
  <2>2. install'.at = "patch" /\ install'.saved = caddyfile
    BY <1>3, <2>1 DEF InstallRun
  <2>3. RunKept'
    BY <1>1, <2>2 DEF KeptInv, FileKept, RunKept
  <2>4. QED
    BY <1>2, <2>3 DEF KeptInv
<1>5. CASE Ends("refused")
  BY <1>1, <1>5, KeptEnds
<1>6. ASSUME Patch, ~Ends("refused")
      PROVE  KeptInv'
  <2> DEFINE token == install.token
             mode == PatchMode(caddyfile)
             patched == IF mode = "fresh" THEN FreshPatch(caddyfile, token)
                        ELSE UpdatePatch(caddyfile, token)
  <2>1. /\ install.at = "patch" /\ mode # "neither"
        /\ install' = [install EXCEPT !.at = "validate", !.patched = patched]
    BY <1>6 DEF Patch
  <2>2. PatchOf(kept, installs, patched) \/ ~Valid(patched)
    <3>1. /\ kept \in Seq(CaddyLine) /\ installs \in 0 .. MaxInstalls
          /\ token \in 1 .. installs
      BY <2>1, InstallFields
    <3>2. /\ mode = "fresh" => PatchOf(kept, installs, FreshPatch(caddyfile, token))
          /\ mode # "fresh" => \/ PatchOf(kept, installs, UpdatePatch(caddyfile, token))
                               \/ ~Valid(UpdatePatch(caddyfile, token))
      BY <2>1, <3>1, PatchKeepsBase DEF KeptInv, BaseKept, FileKept
    <3>3. CASE mode = "fresh"
      BY <3>2, <3>3
    <3>4. CASE mode # "fresh"
      BY <3>2, <3>4
    <3>5. QED
      BY <3>3, <3>4
  <2> HIDE DEF patched
  <2>3. /\ install'.at = "validate" /\ install'.patched = patched
        /\ install'.saved = install.saved
    BY <1>3, <2>1 DEF InstallRun
  <2>4. RunKept'
    BY <1>1, <2>1, <2>2, <2>3 DEF KeptInv, RunKept
  <2>5. QED
    BY <1>2, <2>4 DEF KeptInv
<1>7. ASSUME Validate, ~Ends("refused")
      PROVE  KeptInv'
  <2>1. install.at = "validate" /\ Valid(install.patched) /\ GoesOn("copy")
    BY <1>7 DEF Validate
  <2>2. "copy" \in InstallStep
    BY DEF InstallStep
  <2>3. /\ install'.at = "copy" /\ install'.patched = install.patched
        /\ install'.saved = install.saved
    BY <2>1, <2>2, RunGoesOn
  <2>4. RunKept'
    BY <1>1, <2>1, <2>3 DEF KeptInv, RunKept
  <2>5. QED
    BY <1>2, <2>4 DEF KeptInv
<1>8. QED
  BY <1>4, <1>5, <1>6, <1>7

LEMMA KeptCopied ==
  ASSUME InstallTypes, KeptInv, CopyPatched \/ RestoreCaddyfile
  PROVE  KeptInv'
<1>1. kept' = kept /\ installs' = installs
  BY DEF CopyPatched, RestoreCaddyfile, boundVars
<1>2. BaseKept'
  BY <1>1 DEF KeptInv, BaseKept
<1>3. CASE CopyPatched
  <2>1. /\ install.at = "copy" /\ caddyfile' = install.patched /\ GoesOn("restart")
        /\ PatchOf(kept, installs, install.patched)
    BY <1>3 DEF CopyPatched, KeptInv, RunKept
  <2>2. "restart" \in InstallStep
    BY DEF InstallStep
  <2>3. install'.at = "restart" /\ install'.saved = install.saved
    BY <2>1, <2>2, RunGoesOn
  <2>4. FileKept' /\ Pristine(kept)
    BY <1>1, <2>1 DEF FileKept, PatchOf
  <2>5. RunKept'
    BY <1>1, <2>1, <2>3, <2>4 DEF KeptInv, RunKept
  <2>6. QED
    BY <1>2, <2>4, <2>5 DEF KeptInv
<1>4. CASE RestoreCaddyfile
  <2>1. install.at = "restore" /\ caddyfile' = install.saved /\ GoesOn("again")
    BY <1>4 DEF RestoreCaddyfile
  <2>2. "again" \in InstallStep
    BY DEF InstallStep
  <2>3. install'.at = "again"
    BY <2>1, <2>2, RunGoesOn
  <2>4. FileKept'
    BY <1>1, <2>1 DEF KeptInv, RunKept, FileKept
  <2>5. RunKept'
    BY <2>3 DEF RunKept
  <2>6. QED
    BY <1>2, <2>4, <2>5 DEF KeptInv
<1>5. QED
  BY <1>3, <1>4

LEMMA KeptRestarted ==
  ASSUME InstallTypes, KeptInv, RestartCaddy \/ RestartAgain
  PROVE  KeptInv'
<1>1. caddyfile' = caddyfile /\ kept' = kept /\ installs' = installs
  BY DEF RestartCaddy, RestartAgain
<1>2. BaseKept' /\ FileKept'
  BY <1>1 DEF KeptInv, BaseKept, FileKept
<1>3. CASE RestartCaddy
  <2>1. install.at = "restart" /\ (GoesOn("binary") \/ GoesOn("restore"))
    BY <1>3 DEF RestartCaddy, CaddyRestarts
  <2>2. "binary" \in InstallStep /\ "restore" \in InstallStep
    BY DEF InstallStep
  <2>3. install'.at \in {"binary", "restore"} /\ install'.saved = install.saved
    BY <2>1, <2>2, RunGoesOn
  <2>4. RunKept'
    BY <1>1, <2>1, <2>3 DEF KeptInv, RunKept
  <2>5. QED
    BY <1>2, <2>4 DEF KeptInv
<1>4. CASE RestartAgain
  <2>1. Ends("restored")
    BY <1>4 DEF RestartAgain, CaddyRestarts
  <2>2. QED
    BY <1>1, <2>1, KeptEnds
<1>5. QED
  BY <1>3, <1>4

\* The steps after Caddy's restart, and failures.
LEMMA KeptUntouched ==
  ASSUME InstallTypes, KeptInv,
         \/ GetBinary \/ InstallScript \/ InstallSudoers \/ WriteDotenv \/ InstallUnit
         \/ StartPanel \/ StepFails
  PROVE  KeptInv'
<1>1. /\ caddyfile' = caddyfile /\ kept' = kept /\ installs' = installs
      /\ \/ \E at \in {"script", "sudoers", "env", "unit", "start"} : GoesOn(at)
         \/ Ends("ok") \/ Ends("failed")
  BY DEF GetBinary, InstallScript, InstallSudoers, WriteDotenv, InstallUnit, StartPanel,
         StepFails, caddyVars, boundVars
<1>2. CASE Ends("ok") \/ Ends("failed")
  BY <1>1, <1>2, KeptEnds
<1>3. CASE \E at \in {"script", "sudoers", "env", "unit", "start"} : GoesOn(at)
  <2>1. PICK at \in {"script", "sudoers", "env", "unit", "start"} : GoesOn(at)
    BY <1>3
  <2>2. at \in InstallStep
    BY DEF InstallStep
  <2>3. install'.at \in {"script", "sudoers", "env", "unit", "start"}
    BY <2>1, <2>2, RunGoesOn
  <2>4. BaseKept' /\ FileKept' /\ RunKept'
    BY <1>1, <2>3 DEF KeptInv, BaseKept, FileKept, RunKept
  <2>5. QED
    BY <2>4 DEF KeptInv
<1>4. QED
  BY <1>1, <1>2, <1>3

\* A copy that is cut off is what the administrator finds from then on.
LEMMA KeptCut ==
  ASSUME InstallTypes, KeptInv, InstallKilled \/ Reboot
  PROVE  KeptInv'
<1>1. /\ Interrupted /\ installs' = installs
      /\ \/ install.at = "none" /\ install' = install
         \/ Ends("killed")
  BY DEF InstallKilled, Reboot
<1>2. install'.at = "none"
  <2>1. CASE install.at = "none" /\ install' = install
    BY <2>1
  <2>2. CASE Ends("killed")
    BY <2>2, RunEnds
  <2>3. QED
    BY <1>1, <2>1, <2>2
<1>3. kept \in Seq(CaddyLine) /\ installs \in 0 .. MaxInstalls
  BY InstallFields
<1>4. BaseKept' /\ FileKept'
  <2>1. CASE install.at \in {"copy", "restore"}
    <3> DEFINE file == IF install.at = "copy" THEN install.patched ELSE install.saved
    <3>1. Torn(file)
      BY <1>1, <2>1 DEF Interrupted
    <3>2. /\ file = kept \/ PatchOf(kept, installs, file)
          /\ Pristine(kept)
      BY <2>1 DEF KeptInv, RunKept, PatchOf
    <3> HIDE DEF file
    <3>3. PICK m \in 0 .. Len(file) - 1 :
            caddyfile' = SubSeq(file, 1, m) /\ kept' = caddyfile'
      BY <3>1 DEF Torn
    <3>4. Pristine(SubSeq(file, 1, m)) \/ Spoilt(SubSeq(file, 1, m))
      BY <1>3, <3>2, CutKeepsBase
    <3>5. QED
      BY <3>3, <3>4 DEF BaseKept, FileKept
  <2>2. CASE install.at \notin {"copy", "restore"}
    <3>1. caddyfile' = caddyfile /\ kept' = kept
      BY <1>1, <2>2 DEF Interrupted
    <3>2. QED
      BY <1>1, <3>1 DEF KeptInv, BaseKept, FileKept
  <2>3. QED
    BY <2>1, <2>2
<1>5. RunKept'
  BY <1>2 DEF RunKept
<1>6. QED
  BY <1>4, <1>5 DEF KeptInv

LEMMA KeptEdited ==
  ASSUME InstallTypes, KeptInv, EditCaddyfile
  PROVE  KeptInv'
<1>1. /\ install.at = "none" /\ install' = install /\ installs' = installs
      /\ \/ /\ caddyfile' = <<L("text")>> \o caddyfile
            /\ kept' = <<L("text")>> \o kept
         \/ \E i \in DOMAIN caddyfile :
              /\ caddyfile[i].part = "end"
              /\ caddyfile' = RemoveAt(caddyfile, i) /\ kept' = caddyfile'
         \/ caddyfile' \in Sites /\ kept' = caddyfile'
  BY DEF EditCaddyfile
<1>2. /\ kept \in Seq(CaddyLine) /\ installs \in 0 .. MaxInstalls
      /\ Pristine(kept) \/ Spoilt(kept)
      /\ caddyfile = kept \/ PatchOf(kept, installs, caddyfile)
  BY InstallFields DEF KeptInv, BaseKept, FileKept
<1>3. BaseKept' /\ FileKept'
  <2>1. CASE /\ caddyfile' = <<L("text")>> \o caddyfile
             /\ kept' = <<L("text")>> \o kept
    <3>1. /\ Pristine(kept') \/ Spoilt(kept')
          /\ caddyfile' = kept' \/ PatchOf(kept', installs, caddyfile')
      BY <1>2, <2>1, LineKeepsBase
    <3>2. QED
      BY <1>1, <3>1 DEF BaseKept, FileKept
  <2>2. CASE \E i \in DOMAIN caddyfile :
               /\ caddyfile[i].part = "end"
               /\ caddyfile' = RemoveAt(caddyfile, i) /\ kept' = caddyfile'
    <3>1. PICK i \in DOMAIN caddyfile :
            /\ caddyfile[i].part = "end"
            /\ caddyfile' = RemoveAt(caddyfile, i) /\ kept' = caddyfile'
      BY <2>2
    <3>2. Spoilt(RemoveAt(caddyfile, i))
      BY <1>2, <3>1, MarkerKeepsBase
    <3>3. QED
      BY <3>1, <3>2 DEF BaseKept, FileKept
  <2>3. CASE caddyfile' \in Sites /\ kept' = caddyfile'
    BY <2>3, SitesAssumption DEF BaseKept, FileKept
  <2>4. QED
    BY <1>1, <2>1, <2>2, <2>3
<1>4. RunKept'
  BY <1>1 DEF RunKept
<1>5. QED
  BY <1>3, <1>4 DEF KeptInv

\* KeptInv holds after any number of runs, failures, kills and edits: the Caddyfile
\* is the one the administrator, or a copy that was cut off, left, or a single patch
\* of it; so is each backup and each file that caddy validate accepts.
THEOREM KeptInvariant ==
  InstallSpec => []KeptInv
<1>1. InstallInit => KeptInv
  BY SitesAssumption
     DEF InstallInit, NoInstall, KeptInv, BaseKept, FileKept, RunKept
<1>2. InstallInv /\ KeptInv /\ [InstallNext]_installVars => KeptInv'
  <2> SUFFICES ASSUME InstallInv, KeptInv, [InstallNext]_installVars
               PROVE  KeptInv'
    OBVIOUS
  <2>1. InstallTypes
    BY DEF InstallInv
  <2>2. CASE InstallBegins
    BY <2>1, <2>2, KeptBegins
  <2>3. CASE Backup \/ Patch \/ Validate
    BY <2>1, <2>3, KeptPatching
  <2>4. CASE CopyPatched \/ RestoreCaddyfile
    BY <2>1, <2>4, KeptCopied
  <2>5. CASE RestartCaddy \/ RestartAgain
    BY <2>1, <2>5, KeptRestarted
  <2>6. CASE \/ GetBinary \/ InstallScript \/ InstallSudoers \/ WriteDotenv
             \/ InstallUnit \/ StartPanel \/ StepFails
    BY <2>1, <2>6, KeptUntouched
  <2>7. CASE InstallKilled \/ Reboot
    BY <2>1, <2>7, KeptCut
  <2>8. CASE EditCaddyfile
    BY <2>1, <2>8, KeptEdited
  <2>9. CASE UNCHANGED installVars
    BY <2>9 DEF installVars, caddyVars, boundVars, KeptInv, BaseKept, FileKept, RunKept
  <2>10. QED
    BY <2>2, <2>3, <2>4, <2>5, <2>6, <2>7, <2>8, <2>9 DEF InstallNext
<1>3. QED
  BY <1>1, <1>2, InstallInvariant, PTL DEF InstallSpec

\* CaddyfileKept: whatever runs, failures and edits came before, the Caddyfile is the
\* administrator's or that one patched a single time, with no run's block in the other
\* and nothing of it lost.
THEOREM InstallKeepsCaddyfile ==
  InstallSpec => []CaddyfileKept
<1>1. KeptInv => CaddyfileKept
  BY DEF KeptInv, FileKept, PatchOf, Pristine, CaddyfileKept
<1>2. QED
  BY <1>1, KeptInvariant, PTL
==============================================================================
