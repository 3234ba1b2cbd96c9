-------------------------- MODULE DelegationProofs --------------------------
(***************************************************************************)
(* Of sessions beside each other, for any number of sessions, events and    *)
(* crashes: every session that can be had is portable, and which trees of  *)
(* delegations can be read.                                                *)
(***************************************************************************)
EXTENDS Delegation, FiniteSetTheorems, SequenceTheorems, WellFoundedInduction, TLAPS

Types == {"message", "agent_spawn", "agent_result"}
Rows == [seq : Nat, type : Types, spawn : Nat, payload : Payloads]
Headers == [id : Nat, parent : Nat, root : Nat, spawn : Nat]
SessionRecords == [id : Nat, parent : Nat, root : Nat, spawn : Nat,
                   log : Seq(Rows), latched : BOOLEAN]

(* What is known of a session, in memory or in a file: its header and rows.  *)
IsSpawn(row) == row.type = "agent_spawn"

(* Whatever was cut off or forked, the rows are dense, the parent is an older *)
(* session, and a spawn is of a younger one, unless it came with a fork.     *)
Sound(s, h, rows) ==
  /\ h \in Headers /\ rows \in Seq(Rows)
  /\ h.id = s /\ s <= drawn /\ h.parent < s
  /\ Dense(rows)
  /\ \A i \in 1 .. Len(rows) : IsSpawn(rows[i]) =>
       /\ rows[i].spawn \in 1 .. drawn
       /\ i <= copied[s] => rows[i].spawn < s
       /\ i > copied[s] => rows[i].spawn > s

(* A file as Save leaves it, whole or cut off. *)
Holds(file, h, rows) == file.lines = <<h>> \o rows

(* Of a session: in memory, or in its file. *)
Known(s, h, rows) ==
  \/ s \in Live /\ h = Header(sessions[s]) /\ rows = sessions[s].log
  \/ h \in Headers /\ rows \in Seq(Rows) /\ Holds(files[s], h, rows)

FilesOK ==
  /\ DOMAIN files = SessionIds
  /\ \A s \in SessionIds : \/ files[s].lines = <<>>
                           \/ \E h \in Headers, rows \in Seq(Rows) : Holds(files[s], h, rows)

DelegationTypeOK ==
  /\ drawn \in 0 .. MaxSessions
  /\ copied \in [SessionIds -> Nat] /\ strays \subseteq SessionIds
  /\ sessions \in [SessionIds -> SessionRecords \cup {Gone}]
  /\ FilesOK

KnownIsSound ==
  \A s \in SessionIds : \A h, rows : Known(s, h, rows) => Sound(s, h, rows)

CopiedIsThere ==
  /\ \A s \in Live : copied[s] <= Len(sessions[s].log)
  /\ \A s \in SessionIds : s > drawn => copied[s] = 0 /\ s \notin strays

(* The session a spawn made names the session that made it, unless its       *)
(* Runner had another parent or the spawn came with a fork.                *)
Linked(s, c) == \A g, rows : Known(c, g, rows) => (g.parent = s <=> c \notin strays) /\ g.spawn = c

Own(s, rows, i) == IsSpawn(rows[i]) /\ i > copied[s]

SpawnsAreLinked ==
  \A s \in SessionIds : \A h, rows : Known(s, h, rows) =>
    \A i \in 1 .. Len(rows) : Own(s, rows, i) => Linked(s, rows[i].spawn)

DelegationInv == KnownIsSound /\ CopiedIsThere /\ SpawnsAreLinked

-----------------------------------------------------------------------------
LEMMA LiveRecords ==
  ASSUME DelegationTypeOK, NEW s \in Live
  PROVE  s \in SessionIds /\ sessions[s] \in SessionRecords /\ Header(sessions[s]) \in Headers
<1>1. s \in SessionIds /\ sessions[s] \in SessionRecords
  BY DEF Live, DelegationTypeOK
<1> QED
  BY <1>1 DEF SessionRecords, Header, Headers

LEMMA GoneIsNoSession == ASSUME NEW p \in SessionRecords PROVE p # Gone
<1>1. "parent" \in DOMAIN p
  BY DEF SessionRecords
<1>2. "parent" \notin DOMAIN Gone
  BY DEF Gone
<1> QED
  BY <1>1, <1>2

(* Lines and what LoadSession makes of them. *)
LEMMA LinesFacts ==
  ASSUME NEW h \in Headers, NEW rows \in Seq(Rows)
  PROVE  /\ Len(<<h>> \o rows) = Len(rows) + 1 /\ <<h>> \o rows # <<>>
         /\ Head(<<h>> \o rows) = h /\ Tail(<<h>> \o rows) = rows
<1> DEFINE lines == <<h>> \o rows
           any == Headers \cup Rows
<1>1. <<h>> \in Seq(any) /\ rows \in Seq(any)
  BY SeqDef
<1>2. /\ lines \in Seq(any) /\ Len(lines) = Len(rows) + 1 /\ lines[1] = h
      /\ \A i \in 1 .. Len(rows) : lines[i + 1] = rows[i]
  BY <1>1
<1>3. lines # <<>> /\ Head(lines) = h
  BY <1>1, <1>2
<1>4. /\ Tail(lines) \in Seq(any) /\ Len(Tail(lines)) = Len(rows)
      /\ \A i \in 1 .. Len(rows) : Tail(lines)[i] = lines[i + 1]
  BY <1>2, <1>3
<1>5. Tail(lines) = rows
  BY <1>1, <1>2, <1>4, SeqEqual
<1> QED
  BY <1>2, <1>3, <1>5

(* A file holds one header and one list of rows. *)
LEMMA HoldsOne ==
  ASSUME NEW file, NEW h \in Headers, NEW rows \in Seq(Rows), Holds(file, h, rows)
  PROVE  /\ file.lines # <<>> /\ h = Head(file.lines) /\ rows = Tail(file.lines)
         /\ Len(file.lines) = Len(rows) + 1
BY LinesFacts DEF Holds

LEMMA HoldsNoOther ==
  ASSUME NEW file, NEW h \in Headers, NEW rows \in Seq(Rows), Holds(file, h, rows),
         NEW g \in Headers, NEW rest \in Seq(Rows), Holds(file, g, rest)
  PROVE  g = h /\ rest = rows
<1>1. h = Head(file.lines) /\ rows = Tail(file.lines)
  BY HoldsOne
<1>2. g = Head(file.lines) /\ rest = Tail(file.lines)
  BY HoldsOne
<1> QED
  BY <1>1, <1>2

(* The first lines of a file are its header and the first rows. *)
LEMMA LinesCut ==
  ASSUME NEW h \in Headers, NEW rows \in Seq(Rows), NEW k \in 1 .. Len(rows) + 1
  PROVE  /\ SubSeq(rows, 1, k - 1) \in Seq(Rows)
         /\ SubSeq(<<h>> \o rows, 1, k) = <<h>> \o SubSeq(rows, 1, k - 1)
<1> DEFINE lines == <<h>> \o rows
           any == Headers \cup Rows
           first == SubSeq(rows, 1, k - 1)
<1>1. <<h>> \in Seq(any) /\ rows \in Seq(any)
  BY SeqDef
<1>2. /\ lines \in Seq(any) /\ Len(lines) = Len(rows) + 1 /\ lines[1] = h
      /\ \A i \in 1 .. Len(rows) : lines[i + 1] = rows[i]
  BY <1>1
<1>3. /\ first \in Seq(Rows) /\ Len(first) = k - 1
      /\ \A i \in 1 .. k - 1 : first[i] = rows[i] /\ i \in 1 .. Len(rows)
  OBVIOUS
<1>4. first \in Seq(any)
  BY <1>3, SeqDef
<1> HIDE DEF lines, first
<1>5. /\ <<h>> \o first \in Seq(any) /\ Len(<<h>> \o first) = k /\ (<<h>> \o first)[1] = h
      /\ \A i \in 1 .. k - 1 : (<<h>> \o first)[i + 1] = first[i]
  BY <1>1, <1>3, <1>4
<1>6. /\ SubSeq(lines, 1, k) \in Seq(any) /\ Len(SubSeq(lines, 1, k)) = k
      /\ \A i \in 1 .. k : SubSeq(lines, 1, k)[i] = lines[i]
  BY <1>2
<1>7. ASSUME NEW i \in 1 .. k
      PROVE  SubSeq(lines, 1, k)[i] = (<<h>> \o first)[i]
  <2>1. CASE i = 1
    BY <1>2, <1>5, <1>6, <2>1
  <2>2. CASE i # 1
    <3>1. i - 1 \in 1 .. k - 1 /\ (i - 1) + 1 = i
      BY <2>2
    <3>2. lines[(i - 1) + 1] = rows[i - 1] /\ (<<h>> \o first)[(i - 1) + 1] = rows[i - 1]
      BY <1>2, <1>3, <1>5, <3>1
    <3> QED
      BY <1>6, <3>1, <3>2
  <2> QED
    BY <2>1, <2>2
<1>8. SubSeq(lines, 1, k) = <<h>> \o first
  BY <1>5, <1>6, <1>7, SeqEqual
<1> QED
  BY <1>3, <1>8 DEF lines, first

LEMMA CutToNothing ==
  ASSUME NEW h \in Headers, NEW rows \in Seq(Rows)
  PROVE  SubSeq(<<h>> \o rows, 1, 0) = <<>>
<1> DEFINE any == Headers \cup Rows
           whole == <<h>> \o rows
<1>1. <<h>> \in Seq(any) /\ rows \in Seq(any)
  BY SeqDef
<1>2. whole \in Seq(any)
  BY <1>1
<1> HIDE DEF whole, any
<1>3. SubSeq(whole, 1, 0) = <<>>
  BY <1>2
<1> QED
  BY <1>3 DEF whole

LEMMA KnownTypes ==
  ASSUME DelegationTypeOK, NEW s, NEW h, NEW rows, Known(s, h, rows)
  PROVE  h \in Headers /\ rows \in Seq(Rows)
<1>1. ASSUME s \in Live
      PROVE  Header(sessions[s]) \in Headers /\ sessions[s].log \in Seq(Rows)
  BY <1>1, LiveRecords DEF SessionRecords
<1> QED
  BY <1>1 DEF Known

(* The records the actions make. *)
LEMMA NewRecords ==
  ASSUME NEW id \in Nat, NEW log \in Seq(Rows)
  PROVE  /\ NewSession(id, log) \in SessionRecords
         /\ NewSession(id, log).log = log
         /\ Header(NewSession(id, log)) = [id |-> id, parent |-> 0, root |-> 0, spawn |-> 0]
BY DEF NewSession, SessionRecords, Header

LEMMA RowTypes ==
  /\ \A n, k \in Nat : \A type \in Types : \A load \in Payloads : Row(n, type, k, load) \in Rows
  /\ "message" \in Types /\ "agent_spawn" \in Types /\ "agent_result" \in Types
  /\ \A n, type, k, load : /\ Row(n, type, k, load).seq = n /\ Row(n, type, k, load).type = type
                           /\ Row(n, type, k, load).spawn = k
BY DEF Row, Rows, Types

LEMMA PayloadTypes ==
  /\ \A payloads : Allowed(payloads) \subseteq payloads
  /\ TextPayloads \subseteq Payloads /\ "canonical" \in Payloads
BY DEF Allowed, TextPayloads, Payloads

LEMMA AppendedFacts ==
  ASSUME NEW log \in Seq(Rows), NEW type \in Types, NEW k \in Nat, NEW load \in Payloads
  PROVE  /\ Appended(log, type, k, load) \in Seq(Rows)
         /\ Len(Appended(log, type, k, load)) = Len(log) + 1
         /\ \A i \in 1 .. Len(log) : Appended(log, type, k, load)[i] = log[i]
         /\ Appended(log, type, k, load)[Len(log) + 1] = Row(Len(log), type, k, load)
<1>1. Row(Len(log), type, k, load) \in Rows
  BY RowTypes
<1> QED
  BY <1>1 DEF Appended

(* What a fork copies is the first events of a log. *)
LEMMA KeptFacts ==
  ASSUME NEW log \in Seq(Rows), NEW kept \in SUBSET DOMAIN log
  PROVE  /\ Cardinality(kept) \in 0 .. Len(log)
         /\ kept = DOMAIN log => Cardinality(kept) = Len(log)
<1>1. DOMAIN log = 1 .. Len(log) /\ 1 \in Int /\ Len(log) \in Int /\ Len(log) \in Nat
  OBVIOUS
<1>2. IsFiniteSet(1 .. Len(log)) /\ Cardinality(1 .. Len(log)) = Len(log)
  <2>1. /\ IsFiniteSet(1 .. Len(log))
        /\ Cardinality(1 .. Len(log)) = IF 1 > Len(log) THEN 0 ELSE Len(log) - 1 + 1
    BY <1>1, FS_Interval
  <2> QED
    BY <1>1, <2>1
<1>3. kept \in SUBSET (1 .. Len(log))
  BY <1>1
<1>4. Cardinality(kept) \in Nat /\ Cardinality(kept) <= Len(log)
  BY <1>2, <1>3, FS_Subset, FS_CardinalityType
<1>5. Cardinality(kept) \in 0 .. Len(log)
  BY <1>1, <1>4
<1> QED
  BY <1>1, <1>2, <1>5

LEMMA ForkedFacts ==
  ASSUME NEW log \in Seq(Rows), NEW at
  PROVE  \E k \in 0 .. Len(log) : ForkedLog(log, at) = SubSeq(log, 1, k)
<1> DEFINE kept == {i \in DOMAIN log : \A j \in 1 .. i : log[j].seq <= at}
<1>1. ForkedLog(log, at) = SubSeq(log, 1, Cardinality(kept))
  BY DEF ForkedLog, RowsWhile
<1>2. kept \in SUBSET DOMAIN log
  OBVIOUS
<1> HIDE DEF kept
<1> QED
  BY <1>1, <1>2, KeptFacts

LEMMA PrefixFacts ==
  ASSUME NEW log \in Seq(Rows), NEW k \in 0 .. Len(log)
  PROVE  /\ SubSeq(log, 1, k) \in Seq(Rows) /\ Len(SubSeq(log, 1, k)) = k
         /\ \A i \in 1 .. k : i \in 1 .. Len(log) /\ SubSeq(log, 1, k)[i] = log[i]
OBVIOUS

LEMMA LoadedFacts ==
  ASSUME NEW file, NEW h \in Headers, NEW rows \in Seq(Rows), Holds(file, h, rows)
  PROVE  /\ Loaded(file) \in SessionRecords /\ Loaded(file).log = rows
         /\ Header(Loaded(file)) = h /\ Loaded(file).id = h.id
         /\ Loaded(file).parent = h.parent /\ Loaded(file).spawn = h.spawn
<1>1. Head(file.lines) = h /\ Tail(file.lines) = rows
  BY HoldsOne
<1>2. /\ Loaded(file) = [NewSession(h.id, rows) EXCEPT !.parent = h.parent, !.root = h.root,
                                                       !.spawn = h.spawn]
      /\ h.id \in Nat /\ h.parent \in Nat /\ h.root \in Nat /\ h.spawn \in Nat
      /\ h = [id |-> h.id, parent |-> h.parent, root |-> h.root, spawn |-> h.spawn]
  BY <1>1 DEF Loaded, Headers
<1>3. NewSession(h.id, rows) \in SessionRecords /\ NewSession(h.id, rows).log = rows
      /\ NewSession(h.id, rows).id = h.id
  BY <1>2, NewRecords DEF NewSession
<1> DEFINE p == Loaded(file)
<1>4. /\ p \in SessionRecords /\ p.id = h.id /\ p.parent = h.parent /\ p.root = h.root
      /\ p.spawn = h.spawn /\ p.log = rows
  <2> DEFINE n == NewSession(h.id, rows)
  <2>1. p = [n EXCEPT !.parent = h.parent, !.root = h.root, !.spawn = h.spawn]
    BY <1>2
  <2>2. n \in SessionRecords /\ n.log = rows /\ n.id = h.id
    BY <1>3
  <2> HIDE DEF n, p
  <2> QED
    BY <1>2, <2>1, <2>2 DEF SessionRecords
<1> HIDE DEF p
<1>5. Header(p) = h
  BY <1>2, <1>4 DEF Header
<1> QED
  BY <1>4, <1>5 DEF p

-----------------------------------------------------------------------------
(* What is known after the sessions in some set were made or have changed. *)
LEMMA SomeChanged ==
  ASSUME DelegationTypeOK, NEW D, D \subseteq SessionIds, files' = files,
         sessions' \in [SessionIds -> SessionRecords \cup {Gone}],
         \A t \in D : sessions'[t] \in SessionRecords,
         \A t \in SessionIds \ D : sessions'[t] = sessions[t]
  PROVE  /\ Live' = Live \cup D
         /\ \A t, h, rows : Known(t, h, rows)' =>
              \/ t \in D /\ h = Header(sessions'[t]) /\ rows = sessions'[t].log
              \/ Known(t, h, rows)
<1>1. Live' = Live \cup D
  BY GoneIsNoSession DEF Live
<1>2. ASSUME NEW t, NEW h, NEW rows, Known(t, h, rows)'
      PROVE  \/ t \in D /\ h = Header(sessions'[t]) /\ rows = sessions'[t].log
             \/ Known(t, h, rows)
  <2>1. CASE t \in Live' /\ h = Header(sessions'[t]) /\ rows = sessions'[t].log
    <3>1. t \in SessionIds
      BY <2>1 DEF Live
    <3>2. CASE t \in D
      BY <2>1, <3>2
    <3>3. CASE t \notin D
      <4>1. t \in Live /\ sessions'[t] = sessions[t]
        BY <1>1, <2>1, <3>1, <3>3
      <4> QED
        BY <2>1, <4>1 DEF Known
    <3> QED
      BY <3>2, <3>3
  <2>2. CASE h \in Headers /\ rows \in Seq(Rows) /\ Holds(files'[t], h, rows)
    BY <2>2 DEF Known
  <2>3. \/ t \in Live' /\ h = Header(sessions'[t]) /\ rows = sessions'[t].log
        \/ h \in Headers /\ rows \in Seq(Rows) /\ Holds(files'[t], h, rows)
    <3>1. Header(sessions[t])' = Header(sessions'[t])
      BY DEF Header
    <3>2. Holds(files[t], h, rows)' <=> Holds(files'[t], h, rows)
      BY DEF Holds
    <3> QED
      BY <1>2, <3>1, <3>2 DEF Known
  <2> QED
    BY <2>1, <2>2, <2>3
<1> QED
  BY <1>1, <1>2

SameRow(a, b) == a.seq = b.seq /\ a.type = b.type /\ a.spawn = b.spawn
Follows(rest, rows) == Len(rest) <= Len(rows) /\ \A i \in 1 .. Len(rest) : SameRow(rest[i], rows[i])

(* What a save writes of a log. *)
LEMMA EncodedFacts ==
  ASSUME NEW log \in Seq(Rows)
  PROVE  /\ \E k \in 0 .. Len(log) : Encoded(log) = SubSeq(log, 1, k)
         /\ (\A i \in DOMAIN log : log[i].payload # "NaN") => Encoded(log) = log
<1> DEFINE kept == {i \in DOMAIN log : \A j \in 1 .. i : log[j].payload # "NaN"}
<1>1. Encoded(log) = SubSeq(log, 1, Cardinality(kept))
  BY DEF Encoded, RowsWhile
<1>2. kept \in SUBSET DOMAIN log
  OBVIOUS
<1>3. ASSUME \A i \in DOMAIN log : log[i].payload # "NaN"
      PROVE  kept = DOMAIN log
  <2>1. DOMAIN log = 1 .. Len(log) /\ Len(log) \in Nat
    OBVIOUS
  <2>2. \A i \in DOMAIN log : \A j \in 1 .. i : j \in DOMAIN log
    BY <2>1
  <2> QED
    BY <1>3, <2>2
<1> HIDE DEF kept
<1>4. Cardinality(kept) \in 0 .. Len(log) /\ (kept = DOMAIN log => Cardinality(kept) = Len(log))
  BY <1>2, KeptFacts
<1>5. SubSeq(log, 1, Len(log)) = log
  OBVIOUS
<1> QED
  BY <1>1, <1>3, <1>4, <1>5

LEMMA AsWrittenFacts ==
  ASSUME NEW e \in Rows
  PROVE  /\ AsWritten(e) \in Rows /\ SameRow(AsWritten(e), e) /\ AsWritten(e).payload = "canonical"
         /\ e.payload = "canonical" <=> AsWritten(e) = e
BY DEF AsWritten, Rows, SameRow, Payloads

LEMMA WrittenFacts ==
  ASSUME NEW log \in Seq(Rows), NEW rows, rows = RowLines(log)
  PROVE  /\ rows \in Seq(Rows) /\ Follows(rows, log)
         /\ \A i \in 1 .. Len(rows) : i \in 1 .. Len(log) /\ rows[i] = AsWritten(log[i])
         /\ (\A i \in DOMAIN log : log[i].payload # "NaN") => Len(rows) = Len(log)
<1>1. PICK k \in 0 .. Len(log) : Encoded(log) = SubSeq(log, 1, k)
  BY EncodedFacts
<1>2. k \in Nat /\ Len(log) \in Nat /\ k <= Len(log) /\ DOMAIN Encoded(log) = 1 .. k
  BY <1>1
<1>3. rows = [i \in 1 .. k |-> AsWritten(log[i])]
  BY <1>2 DEF RowLines
<1>4. ASSUME NEW i \in 1 .. k
      PROVE  /\ i \in 1 .. Len(log) /\ log[i] \in Rows /\ rows[i] = AsWritten(log[i])
             /\ rows[i] \in Rows /\ SameRow(rows[i], log[i])
  <2>1. i \in 1 .. Len(log) /\ log[i] \in Rows
    BY <1>2
  <2>2. rows[i] = AsWritten(log[i])
    BY <1>3
  <2> QED
    BY <2>1, <2>2, AsWrittenFacts
<1>5. rows \in Seq(Rows) /\ Len(rows) = k
  <2>1. rows \in [1 .. k -> Rows]
    BY <1>3, <1>4
  <2>2. rows \in Seq(Rows)
    BY <1>2, <2>1, SeqDef
  <2> QED
    BY <1>2, <2>1, <2>2
<1>6. Follows(rows, log)
  BY <1>2, <1>4, <1>5 DEF Follows
<1>7. ASSUME \A i \in DOMAIN log : log[i].payload # "NaN"
      PROVE  k = Len(log)
  <2>1. Encoded(log) = log
    BY <1>7, EncodedFacts
  <2>2. 1 .. k = 1 .. Len(log)
    BY <1>2, <2>1
  <2>3. k < Len(log) => Len(log) \in 1 .. Len(log) /\ Len(log) \notin 1 .. k
    BY <1>2
  <2> QED
    BY <1>2, <2>2, <2>3
<1> QED
  BY <1>4, <1>5, <1>6, <1>7

Begins(rest, rows) == Len(rest) <= Len(rows) /\ \A i \in 1 .. Len(rest) : rest[i] = rows[i]

(* Which children are strays is settled when they are made. *)
StraysStay == \A c \in SessionIds : c <= drawn => (c \in strays' <=> c \in strays)

(* What is known after a step was known before, perhaps with more rows and   *)
(* other payloads, ...                                                     *)
FromBefore(t, h, rows) ==
  \E r \in Seq(Rows) : /\ Known(t, h, r) /\ Follows(rows, r)
                       /\ \A i \in 1 .. Len(rows) : i <= copied'[t] <=> i <= copied[t]

(* ... or is new, as a session or as more rows of one, and the session that  *)
(* a new row says was spawned is new too.                                  *)
NewOrLonger(t, h, rows) ==
  /\ Sound(t, h, rows)'
  /\ t > drawn \/ \E r : Known(t, h, r)
  /\ \A i \in 1 .. Len(rows) : Own(t, rows, i)' =>
       \/ \E r : Known(t, h, r) /\ i \in 1 .. Len(r) /\ r[i] = rows[i] /\ Own(t, r, i)
       \/ Linked(t, rows[i].spawn)'

LEMMA SoundStays ==
  ASSUME DelegationTypeOK, DelegationTypeOK', drawn <= drawn',
         NEW t \in SessionIds, NEW h, NEW rows, NEW r, Sound(t, h, r), Follows(rows, r),
         rows \in Seq(Rows),
         \A i \in 1 .. Len(rows) : i <= copied'[t] <=> i <= copied[t]
  PROVE  Sound(t, h, rows)'
<1>1. /\ r \in Seq(Rows) /\ h \in Headers /\ h.id = t /\ t <= drawn /\ h.parent < t
      /\ \A i \in 1 .. Len(r) : r[i].seq = i - 1
      /\ \A i \in 1 .. Len(r) : IsSpawn(r[i]) =>
           /\ r[i].spawn \in 1 .. drawn
           /\ i <= copied[t] => r[i].spawn < t
           /\ i > copied[t] => r[i].spawn > t
  BY DEF Sound, Dense
<1>2. drawn \in Nat /\ drawn' \in Nat /\ copied[t] \in Nat /\ copied'[t] \in Nat /\ t \in Nat
  <2>1. t \in Nat
    BY DelegationAssumption DEF SessionIds
  <2> QED
    BY <2>1 DEF DelegationTypeOK
<1>3. \A i \in 1 .. Len(rows) :
        /\ i \in 1 .. Len(r) /\ rows[i].seq = r[i].seq /\ rows[i].spawn = r[i].spawn
        /\ IsSpawn(rows[i]) <=> IsSpawn(r[i])
  BY <1>1 DEF Follows, SameRow, IsSpawn
<1>4. \A i \in 1 .. Len(rows) : rows[i].seq = i - 1
  BY <1>1, <1>3
<1>5. ASSUME NEW i \in 1 .. Len(rows), IsSpawn(rows[i])
      PROVE  /\ rows[i].spawn \in 1 .. drawn'
             /\ i <= copied'[t] => rows[i].spawn < t
             /\ i > copied'[t] => rows[i].spawn > t
  <2>1. i \in 1 .. Len(r) /\ rows[i].spawn = r[i].spawn /\ IsSpawn(r[i])
    BY <1>3, <1>5
  <2>2. r[i].spawn \in 1 .. drawn /\ (i <= copied[t] => r[i].spawn < t) /\ (i > copied[t] => r[i].spawn > t)
    BY <1>1, <2>1
  <2>3. i > copied'[t] => i > copied[t]
    BY <1>2
  <2> QED
    BY <1>2, <2>1, <2>2, <2>3
<1>6. t <= drawn'
  BY <1>1, <1>2
<1>7. DOMAIN rows = 1 .. Len(rows)
  OBVIOUS
<1> QED
  BY <1>1, <1>4, <1>5, <1>6, <1>7 DEF Sound, Dense, IsSpawn

(* A step that adds nothing but sound and linked rows keeps the invariant. *)
LEMMA InvStays ==
  ASSUME DelegationTypeOK, DelegationTypeOK', DelegationInv, drawn <= drawn', CopiedIsThere', StraysStay,
         \A t \in SessionIds : \A h, rows : Known(t, h, rows)' =>
           FromBefore(t, h, rows) \/ NewOrLonger(t, h, rows)
  PROVE  DelegationInv'
<1>1. \A t, h, rows : Known(t, h, rows)' => rows \in Seq(Rows)
  <2>1. DelegationTypeOK' => \A t, h, rows : Known(t, h, rows)' => h \in Headers /\ rows \in Seq(Rows)
    <3> SUFFICES ASSUME DelegationTypeOK', NEW t, NEW h, NEW rows, Known(t, h, rows)'
                 PROVE  h \in Headers /\ rows \in Seq(Rows)
      OBVIOUS
    <3>1. ASSUME t \in Live'
          PROVE  Header(sessions[t])' \in Headers /\ sessions'[t].log \in Seq(Rows)
      <4>1. sessions'[t] \in SessionRecords
        BY <3>1 DEF Live, DelegationTypeOK
      <4> QED
        BY <4>1 DEF SessionRecords, Header, Headers
    <3> QED
      BY <3>1 DEF Known
  <2> QED
    BY <2>1
<1>2. KnownIsSound'
  <2>1. ASSUME NEW t \in SessionIds, NEW h, NEW rows, Known(t, h, rows)'
        PROVE  Sound(t, h, rows)'
    <3>1. CASE FromBefore(t, h, rows)
      <4>1. PICK r \in Seq(Rows) : /\ Known(t, h, r) /\ Follows(rows, r)
                                   /\ \A i \in 1 .. Len(rows) : i <= copied'[t] <=> i <= copied[t]
        BY <3>1 DEF FromBefore
      <4>2. Sound(t, h, r)
        BY <4>1 DEF DelegationInv, KnownIsSound
      <4> QED
        BY <1>1, <2>1, <4>1, <4>2, SoundStays
    <3>2. CASE NewOrLonger(t, h, rows)
      BY <3>2 DEF NewOrLonger
    <3> QED
      BY <2>1, <3>1, <3>2
  <2> QED
    BY <2>1 DEF KnownIsSound
<1>3. \A t \in SessionIds : \A g, rest : Known(t, g, rest)' => t > drawn \/ \E r : Known(t, g, r)
  BY DEF FromBefore, NewOrLonger
<1>4. ASSUME NEW t \in SessionIds, NEW h, NEW r, Known(t, h, r),
             NEW i \in 1 .. Len(r), Own(t, r, i)
      PROVE  Linked(t, r[i].spawn)'
  <2>1. r[i].spawn \in 1 .. drawn
    BY <1>4 DEF DelegationInv, KnownIsSound, Sound, Own
  <2>2. r[i].spawn \in SessionIds /\ ~(r[i].spawn > drawn)
    BY <2>1, DelegationAssumption DEF DelegationTypeOK, SessionIds
  <2>3. Linked(t, r[i].spawn)
    BY <1>4 DEF DelegationInv, SpawnsAreLinked
  <2> DEFINE c == r[i].spawn
  <2> HIDE DEF c
  <2>4. c \in SessionIds /\ ~(c > drawn) /\ Linked(t, c)
    BY <2>2, <2>3 DEF c
  <2>5. ASSUME NEW g, NEW rest, Known(c, g, rest)'
        PROVE  (g.parent = t <=> c \notin strays') /\ g.spawn = c
    <3>1. PICK q : Known(c, g, q)
      BY <1>3, <2>4, <2>5
    <3>2. (g.parent = t <=> c \notin strays) /\ g.spawn = c
      BY <2>4, <3>1 DEF Linked
    <3>3. c <= drawn
      BY <2>1 DEF c, DelegationTypeOK
    <3> QED
      BY <2>4, <3>2, <3>3 DEF StraysStay
  <2>6. Linked(t, c)'
    BY <2>5 DEF Linked
  <2> QED
    BY <2>6 DEF c
<1>5. ASSUME NEW t \in SessionIds, NEW h, NEW rows, Known(t, h, rows)',
             NEW i \in 1 .. Len(rows), Own(t, rows, i)'
      PROVE  Linked(t, rows[i].spawn)'
  <2>1. CASE FromBefore(t, h, rows)
    <3>1. PICK r \in Seq(Rows) : /\ Known(t, h, r) /\ Follows(rows, r)
                                 /\ \A j \in 1 .. Len(rows) : j <= copied'[t] <=> j <= copied[t]
      BY <2>1 DEF FromBefore
    <3>2. /\ i \in 1 .. Len(r) /\ rows[i].spawn = r[i].spawn
          /\ IsSpawn(rows[i]) <=> IsSpawn(r[i])
      BY <1>1, <1>5, <3>1 DEF Follows, SameRow, IsSpawn
    <3>3. Own(t, r, i)
      <4>1. copied[t] \in Nat /\ copied'[t] \in Nat /\ i \in Nat
        BY <1>1, <1>5 DEF DelegationTypeOK
      <4>2. IsSpawn(rows[i]) /\ i > copied'[t]
        BY <1>5 DEF Own, IsSpawn
      <4> QED
        BY <3>1, <3>2, <4>1, <4>2 DEF Own
    <3>4. Linked(t, r[i].spawn)'
      BY <1>4, <3>1, <3>2, <3>3
    <3> QED
      BY <3>2, <3>4
  <2>2. CASE NewOrLonger(t, h, rows)
    <3>1. \/ \E r : Known(t, h, r) /\ i \in 1 .. Len(r) /\ r[i] = rows[i] /\ Own(t, r, i)
          \/ Linked(t, rows[i].spawn)'
      BY <1>5, <2>2 DEF NewOrLonger
    <3>2. ASSUME NEW r, Known(t, h, r), i \in 1 .. Len(r), r[i] = rows[i], Own(t, r, i)
          PROVE  Linked(t, rows[i].spawn)'
      <4>1. Linked(t, r[i].spawn)'
        BY <1>4, <3>2
      <4> QED
        BY <3>2, <4>1
    <3> QED
      BY <3>1, <3>2
  <2> QED
    BY <1>5, <2>1, <2>2
<1>6. \A t \in SessionIds : \A h, rows : Known(t, h, rows)' =>
        \A i \in 1 .. Len(rows) : Own(t, rows, i)' => Linked(t, rows[i].spawn)'
  BY <1>5
<1>7. SpawnsAreLinked'
  BY <1>6 DEF SpawnsAreLinked
<1> QED
  BY <1>2, <1>7 DEF DelegationInv

-----------------------------------------------------------------------------
LEMMA StraysUnchanged == ASSUME strays' = strays PROVE StraysStay
BY DEF StraysStay

LEMMA FilesStay == ASSUME DelegationTypeOK, files' = files PROVE FilesOK'
<1>1. FilesOK' <=> FilesOK
  BY DEF FilesOK, Holds
<1> QED
  BY <1>1 DEF DelegationTypeOK

LEMMA KnownIds ==
  ASSUME DelegationTypeOK, DelegationInv, NEW t \in SessionIds, NEW h, NEW rows, Known(t, h, rows)
  PROVE  t <= drawn /\ h.id = t /\ h.parent < t
BY DEF DelegationInv, KnownIsSound, Sound

LEMMA StillKnown ==
  ASSUME DelegationTypeOK, NEW t, NEW h, NEW rows, Known(t, h, rows), copied'[t] = copied[t]
  PROVE  FromBefore(t, h, rows)
<1>1. rows \in Seq(Rows)
  BY KnownTypes
<1>2. Follows(rows, rows)
  BY <1>1 DEF Follows, SameRow
<1> QED
  BY <1>1, <1>2 DEF FromBefore

(* A session that got more rows. *)
LEMMA Longer ==
  ASSUME DelegationTypeOK, DelegationInv, DelegationTypeOK', drawn <= drawn',
         NEW s \in Live, copied'[s] = copied[s],
         NEW h, h = Header(sessions[s]),
         NEW old, old = sessions[s].log, NEW rows \in Seq(Rows), Begins(old, rows),
         \A i \in 1 .. Len(rows) : i > Len(old) =>
           /\ rows[i].seq = i - 1
           /\ IsSpawn(rows[i]) =>
                rows[i].spawn \in 1 .. drawn' /\ rows[i].spawn > s /\ Linked(s, rows[i].spawn)'
  PROVE  NewOrLonger(s, h, rows)
<1>1. Known(s, h, old)
  BY DEF Known
<1>2. s \in SessionIds
  BY DEF Live
<1>3. Sound(s, h, old)
  BY <1>1, <1>2 DEF DelegationInv, KnownIsSound
<1>4. /\ old \in Seq(Rows) /\ h \in Headers /\ h.id = s /\ s <= drawn /\ h.parent < s
      /\ \A i \in 1 .. Len(old) : old[i].seq = i - 1
      /\ \A i \in 1 .. Len(old) : IsSpawn(old[i]) =>
           /\ old[i].spawn \in 1 .. drawn
           /\ i <= copied[s] => old[i].spawn < s
           /\ i > copied[s] => old[i].spawn > s
  BY <1>3 DEF Sound, Dense
<1>5. drawn \in Nat /\ drawn' \in Nat /\ copied[s] \in Nat /\ s \in Nat
  BY <1>2, DelegationAssumption DEF DelegationTypeOK, SessionIds
<1>6. copied[s] <= Len(old)
  BY DEF DelegationInv, CopiedIsThere
<1>7. ASSUME NEW i \in 1 .. Len(rows), i <= Len(old)
      PROVE  i \in 1 .. Len(old) /\ rows[i] = old[i]
  BY <1>4, <1>7 DEF Begins
<1>8. ASSUME NEW i \in 1 .. Len(rows)
      PROVE  /\ rows[i].seq = i - 1
             /\ IsSpawn(rows[i]) =>
                  /\ rows[i].spawn \in 1 .. drawn'
                  /\ i <= copied'[s] => rows[i].spawn < s
                  /\ i > copied'[s] => rows[i].spawn > s
  <2>1. CASE i <= Len(old)
    <3>1. i \in 1 .. Len(old) /\ rows[i] = old[i]
      BY <1>7, <2>1
    <3>2. \A n \in 1 .. drawn : n \in 1 .. drawn'
      BY <1>5
    <3> QED
      BY <1>4, <3>1, <3>2
  <2>2. CASE ~(i <= Len(old))
    <3>1. i > Len(old) /\ ~(i <= copied'[s])
      BY <1>4, <1>5, <1>6, <2>2
    <3> QED
      BY <3>1
  <2> QED
    BY <2>1, <2>2
<1>9. s <= drawn'
  BY <1>4, <1>5
<1>10. Sound(s, h, rows)'
  <2>1. DOMAIN rows = 1 .. Len(rows)
    OBVIOUS
  <2> QED
    BY <1>4, <1>8, <1>9, <2>1 DEF Sound, Dense, IsSpawn
<1>11. ASSUME NEW i \in 1 .. Len(rows), Own(s, rows, i)'
       PROVE  \/ \E r : Known(s, h, r) /\ i \in 1 .. Len(r) /\ r[i] = rows[i] /\ Own(s, r, i)
              \/ Linked(s, rows[i].spawn)'
  <2>1. IsSpawn(rows[i]) /\ i > copied[s]
    BY <1>11 DEF Own, IsSpawn
  <2>2. CASE i <= Len(old)
    <3>1. i \in 1 .. Len(old) /\ rows[i] = old[i]
      BY <1>7, <2>2
    <3>2. Own(s, old, i)
      BY <2>1, <3>1 DEF Own
    <3> QED
      BY <1>1, <3>1, <3>2
  <2>3. CASE ~(i <= Len(old))
    <3>1. i > Len(old)
      BY <1>4, <2>3
    <3> QED
      BY <2>1, <3>1
  <2> QED
    BY <2>2, <2>3
<1> QED
  BY <1>1, <1>10, <1>11 DEF NewOrLonger

LEMMA CreateSessionKeeps ==
  ASSUME DelegationTypeOK, DelegationInv, NEW s \in SessionIds, CreateSession(s)
  PROVE  DelegationTypeOK' /\ DelegationInv'
<1>1. /\ s = drawn + 1 /\ drawn' = s /\ files' = files /\ copied' = copied /\ strays' = strays
      /\ sessions' = [sessions EXCEPT ![s] = NewSession(s, <<>>)]
  BY DEF CreateSession, Draw
<1>2. /\ s \in Nat /\ s > 0 /\ s <= MaxSessions /\ drawn \in Nat
      /\ sessions \in [SessionIds -> SessionRecords \cup {Gone}] /\ copied \in [SessionIds -> Nat]
  BY DelegationAssumption DEF DelegationTypeOK, SessionIds
<1> DEFINE p == NewSession(s, <<>>)
           header == [id |-> s, parent |-> 0, root |-> 0, spawn |-> 0]
<1>3. p \in SessionRecords /\ p.log = <<>> /\ Header(p) = header
  <2>1. <<>> \in Seq(Rows)
    OBVIOUS
  <2> QED
    BY <1>2, <2>1, NewRecords
<1> HIDE DEF p
<1>4. /\ sessions' \in [SessionIds -> SessionRecords \cup {Gone}] /\ sessions'[s] = p
      /\ \A t \in SessionIds \ {s} : sessions'[t] = sessions[t]
  BY <1>1, <1>2, <1>3 DEF p
<1>5. /\ Live' = Live \cup {s}
      /\ \A t, h, rows : Known(t, h, rows)' =>
           \/ t \in {s} /\ h = Header(sessions'[t]) /\ rows = sessions'[t].log
           \/ Known(t, h, rows)
  <2>1. {s} \subseteq SessionIds /\ \A t \in {s} : sessions'[t] \in SessionRecords
    BY <1>3, <1>4
  <2> DEFINE D == {s}
  <2> HIDE DEF D
  <2>2. /\ D \subseteq SessionIds /\ \A t \in D : sessions'[t] \in SessionRecords
        /\ \A t \in SessionIds \ D : sessions'[t] = sessions[t]
    BY <1>4, <2>1 DEF D
  <2>3. /\ Live' = Live \cup D
        /\ \A t, h, rows : Known(t, h, rows)' =>
             \/ t \in D /\ h = Header(sessions'[t]) /\ rows = sessions'[t].log
             \/ Known(t, h, rows)
    BY <1>1, <1>4, <2>2, SomeChanged
  <2> QED
    BY <2>3 DEF D
<1>6. DelegationTypeOK'
  <2>1. drawn' \in 0 .. MaxSessions
    BY <1>1, <1>2
  <2> QED
    BY <1>1, <1>2, <1>4, <2>1, FilesStay DEF DelegationTypeOK
<1>7. CopiedIsThere'
  <2>1. copied[s] = 0
    BY <1>1, <1>2 DEF DelegationInv, CopiedIsThere
  <2>2. \A t \in Live' : copied'[t] <= Len(sessions'[t].log)
    <3>1. copied[s] <= Len(sessions'[s].log)
      BY <1>3, <1>4, <2>1
    <3>2. \A t \in Live : t # s => copied[t] <= Len(sessions'[t].log)
      BY <1>4 DEF DelegationInv, CopiedIsThere, Live
    <3> QED
      BY <1>1, <1>5, <3>1, <3>2
  <2>3. \A t \in SessionIds : t > drawn' => copied'[t] = 0 /\ t \notin strays'
    <3>1. \A t \in SessionIds : t > drawn' => t > drawn
      BY <1>1, <1>2 DEF SessionIds
    <3> QED
      BY <1>1, <3>1 DEF DelegationInv, CopiedIsThere
  <2> QED
    BY <2>2, <2>3 DEF CopiedIsThere
<1>8. NewOrLonger(s, header, <<>>)
  <2>1. header \in Headers /\ header.id = s /\ header.parent < s /\ <<>> \in Seq(Rows) /\ Len(<<>>) = 0
    BY <1>2 DEF Headers
  <2>2. Sound(s, header, <<>>)'
    BY <1>1, <1>2, <2>1 DEF Sound, Dense
  <2>3. s > drawn
    BY <1>1, <1>2
  <2> HIDE DEF header
  <2> QED
    BY <2>1, <2>2, <2>3 DEF NewOrLonger
<1>9. \A t \in SessionIds : \A h, rows : Known(t, h, rows)' =>
        FromBefore(t, h, rows) \/ NewOrLonger(t, h, rows)
  BY <1>1, <1>3, <1>4, <1>5, <1>8, StillKnown
<1>10. drawn <= drawn'
  BY <1>1, <1>2
<1> QED
  BY <1>1, <1>6, <1>7, <1>9, <1>10, InvStays, StraysUnchanged

(* One session got more rows, and nothing else was changed. *)
LEMMA LongerKeeps ==
  ASSUME DelegationTypeOK, DelegationInv, NEW s \in Live, NEW rows \in Seq(Rows),
         UNCHANGED <<files, drawn, copied, strays>>,
         sessions' = [sessions EXCEPT ![s].log = rows],
         Begins(sessions[s].log, rows),
         \A i \in 1 .. Len(rows) : i > Len(sessions[s].log) =>
           rows[i].seq = i - 1 /\ ~IsSpawn(rows[i])
  PROVE  DelegationTypeOK' /\ DelegationInv'
<1>1. /\ s \in SessionIds /\ sessions[s] \in SessionRecords
      /\ sessions \in [SessionIds -> SessionRecords \cup {Gone}] /\ drawn \in Nat
  BY LiveRecords DEF DelegationTypeOK
<1>0. PICK old, header : old = sessions[s].log /\ header = Header(sessions[s])
  OBVIOUS
<1> DEFINE p == [sessions[s] EXCEPT !.log = rows]
<1>2. p \in SessionRecords /\ p.log = rows /\ Header(p) = header
  BY <1>0, <1>1 DEF SessionRecords, Header
<1>3. /\ sessions' \in [SessionIds -> SessionRecords \cup {Gone}] /\ sessions'[s] = p
      /\ \A t \in SessionIds \ {s} : sessions'[t] = sessions[t]
  <2>1. sessions' = [sessions EXCEPT ![s] = p]
    BY <1>1
  <2> HIDE DEF p
  <2> QED
    BY <1>1, <1>2, <2>1
<1> HIDE DEF p
<1>4. /\ Live' = Live \cup {s}
      /\ \A t, h, r : Known(t, h, r)' =>
           \/ t \in {s} /\ h = Header(sessions'[t]) /\ r = sessions'[t].log
           \/ Known(t, h, r)
  <2> DEFINE D == {s}
  <2> HIDE DEF D
  <2>1. /\ D \subseteq SessionIds /\ \A t \in D : sessions'[t] \in SessionRecords
        /\ \A t \in SessionIds \ D : sessions'[t] = sessions[t]
    BY <1>1, <1>2, <1>3 DEF D
  <2>2. /\ Live' = Live \cup D
        /\ \A t, h, r : Known(t, h, r)' =>
             \/ t \in D /\ h = Header(sessions'[t]) /\ r = sessions'[t].log
             \/ Known(t, h, r)
    BY <1>3, <2>1, SomeChanged
  <2> QED
    BY <2>2 DEF D
<1>5. DelegationTypeOK'
  BY <1>3, FilesStay DEF DelegationTypeOK
<1>6. Len(old) <= Len(rows)
  BY <1>0 DEF Begins
<1>7. CopiedIsThere'
  <2>1. \A t \in Live : copied[t] <= Len(sessions'[t].log)
    <3>1. copied[s] <= Len(old)
      BY <1>0 DEF DelegationInv, CopiedIsThere
    <3>2. copied[s] \in Nat /\ Len(old) \in Nat /\ Len(rows) \in Nat
      BY <1>0, <1>1 DEF DelegationTypeOK, SessionRecords
    <3>3. copied[s] <= Len(rows)
      BY <1>6, <3>1, <3>2
    <3>4. \A t \in Live : t # s => copied[t] <= Len(sessions'[t].log)
      BY <1>3 DEF DelegationInv, CopiedIsThere, Live
    <3> QED
      BY <1>2, <1>3, <3>3, <3>4
  <2> QED
    BY <1>4, <2>1 DEF DelegationInv, CopiedIsThere
<1>8. NewOrLonger(s, header, rows)
  <2>1. header = Header(sessions[s]) /\ old = sessions[s].log /\ Begins(old, rows)
    BY <1>0
  <2>2. \A i \in 1 .. Len(rows) : i > Len(old) => rows[i].seq = i - 1 /\ ~IsSpawn(rows[i])
    BY <1>0
  <2>3. drawn <= drawn' /\ copied'[s] = copied[s]
    BY <1>1
  <2> QED
    BY <1>5, <2>1, <2>2, <2>3, Longer
<1>9. \A t \in SessionIds : \A h, r : Known(t, h, r)' => FromBefore(t, h, r) \/ NewOrLonger(t, h, r)
  BY <1>2, <1>3, <1>4, <1>8, StillKnown
<1>10. drawn <= drawn'
  BY <1>1
<1> QED
  BY <1>5, <1>7, <1>9, <1>10, InvStays, StraysUnchanged

LEMMA AppendEventKeeps ==
  ASSUME DelegationTypeOK, DelegationInv, NEW s \in SessionIds, AppendEvent(s)
  PROVE  DelegationTypeOK' /\ DelegationInv'
<1>1. s \in Live /\ UNCHANGED <<files, drawn, copied, strays>>
  BY DEF AppendEvent
<1>0. PICK log : log = sessions[s].log
  OBVIOUS
<1>2. log \in Seq(Rows)
  BY <1>0, <1>1, LiveRecords DEF SessionRecords
<1>10. PICK load \in Payloads :
         \/ sessions' = [sessions EXCEPT ![s].log = Appended(@, "message", 0, load)]
         \/ \E e \in ToSet(log) :
              sessions' = [sessions EXCEPT ![s].log = Appended(@, "agent_result", e.spawn, load)]
  BY <1>0, PayloadTypes DEF AppendEvent
<1>3. PICK type \in {"message", "agent_result"}, k \in Nat :
        sessions' = [sessions EXCEPT ![s].log = Appended(log, type, k, load)]
  <2>1. CASE sessions' = [sessions EXCEPT ![s].log = Appended(@, "message", 0, load)]
    BY <1>0, <2>1
  <2>2. CASE \E e \in ToSet(log) :
               sessions' = [sessions EXCEPT ![s].log = Appended(@, "agent_result", e.spawn, load)]
    <3>1. PICK e \in ToSet(log) :
            sessions' = [sessions EXCEPT ![s].log = Appended(@, "agent_result", e.spawn, load)]
      BY <2>2
    <3>2. PICK i \in DOMAIN log : e = log[i]
      BY DEF ToSet
    <3>3. log[i] \in Rows
      BY <1>2
    <3>4. e.spawn \in Nat
      BY <3>2, <3>3 DEF Rows
    <3> QED
      BY <1>0, <3>1, <3>4
  <2> QED
    BY <1>10, <2>1, <2>2
<1>4. type \in Types /\ type # "agent_spawn"
  BY DEF Types
<1> DEFINE rows == Appended(log, type, k, load)
<1>5. /\ rows \in Seq(Rows) /\ Len(rows) = Len(log) + 1
      /\ \A i \in 1 .. Len(log) : rows[i] = log[i]
      /\ rows[Len(log) + 1] = Row(Len(log), type, k, load)
  BY <1>2, <1>4, AppendedFacts
<1> HIDE DEF rows
<1>6. Begins(log, rows)
  BY <1>2, <1>5 DEF Begins
<1>7. ASSUME NEW i \in 1 .. Len(rows), i > Len(log)
      PROVE  rows[i].seq = i - 1 /\ ~IsSpawn(rows[i])
  <2>1. i = Len(log) + 1 /\ i - 1 = Len(log)
    BY <1>2, <1>5, <1>7
  <2>2. rows[i].seq = Len(log) /\ rows[i].type = type
    BY <1>5, <2>1, RowTypes
  <2> QED
    BY <1>4, <2>1, <2>2 DEF IsSpawn
<1>8. sessions' = [sessions EXCEPT ![s].log = rows]
  BY <1>3 DEF rows
<1> QED
  BY <1>0, <1>1, <1>5, <1>6, <1>7, <1>8, LongerKeeps

(* What a session's log may be after spawn_agent. *)
LEMMA SpawnedLog ==
  ASSUME NEW log \in Seq(Rows), NEW c \in Nat, NEW task \in Payloads,
         NEW after \in {log, Appended(log, "agent_spawn", c, task),
                        Appended(Appended(log, "agent_spawn", c, task), "message", 0, "canonical")}
  PROVE  /\ after \in Seq(Rows) /\ Begins(log, after)
         /\ \A i \in 1 .. Len(after) : i > Len(log) =>
              after[i].seq = i - 1 /\ (IsSpawn(after[i]) => after[i].spawn = c)
<1> DEFINE one == Appended(log, "agent_spawn", c, task)
           two == Appended(one, "message", 0, "canonical")
<1>1. Len(log) \in Nat
  OBVIOUS
<1>2. /\ one \in Seq(Rows) /\ Len(one) = Len(log) + 1
      /\ \A i \in 1 .. Len(log) : one[i] = log[i]
      /\ one[Len(log) + 1] = Row(Len(log), "agent_spawn", c, task)
  BY RowTypes, AppendedFacts
<1> HIDE DEF one
<1>3. /\ two \in Seq(Rows) /\ Len(two) = Len(one) + 1
      /\ \A i \in 1 .. Len(one) : two[i] = one[i]
      /\ two[Len(one) + 1] = Row(Len(one), "message", 0, "canonical")
  <2>1. "message" \in Types /\ 0 \in Nat /\ "canonical" \in Payloads
    BY RowTypes, PayloadTypes
  <2> QED
    BY <1>2, <2>1, AppendedFacts
<1> HIDE DEF two
<1>4. one[Len(log) + 1].seq = Len(log) /\ one[Len(log) + 1].spawn = c
  BY <1>2, RowTypes
<1>5. two[Len(log) + 2].seq = Len(log) + 1 /\ ~IsSpawn(two[Len(log) + 2])
  <2>1. Len(one) + 1 = Len(log) + 2
    BY <1>1, <1>2
  <2>2. two[Len(log) + 2].seq = Len(one) /\ two[Len(log) + 2].type = "message"
    BY <1>3, <2>1, RowTypes
  <2> QED
    BY <1>2, <2>2 DEF IsSpawn
<1>6. CASE after = log
  BY <1>1, <1>6 DEF Begins
<1>7. CASE after = one
  <2>1. Begins(log, one)
    BY <1>1, <1>2 DEF Begins
  <2>2. \A i \in 1 .. Len(one) : i > Len(log) => i = Len(log) + 1 /\ i - 1 = Len(log)
    BY <1>1, <1>2
  <2> QED
    BY <1>2, <1>4, <1>7, <2>1, <2>2
<1>8. CASE after = two
  <2>1. Len(two) = Len(log) + 2
    BY <1>1, <1>2, <1>3
  <2>2. \A i \in 1 .. Len(log) : i \in 1 .. Len(one)
    BY <1>1, <1>2
  <2>3. Begins(log, two)
    BY <1>1, <1>2, <1>3, <2>1, <2>2 DEF Begins
  <2>4. ASSUME NEW i \in 1 .. Len(two), i > Len(log)
        PROVE  two[i].seq = i - 1 /\ (IsSpawn(two[i]) => two[i].spawn = c)
    <3>1. \/ i = Len(log) + 1 /\ i - 1 = Len(log) /\ Len(log) + 1 \in 1 .. Len(one)
          \/ i = Len(log) + 2 /\ i - 1 = Len(log) + 1
      BY <1>1, <1>2, <2>1, <2>4
    <3>2. Len(log) + 1 \in 1 .. Len(one) => two[Len(log) + 1] = one[Len(log) + 1]
      BY <1>3
    <3> QED
      BY <1>4, <1>5, <3>1, <3>2
  <2> QED
    BY <1>3, <1>8, <2>3, <2>4
<1> QED
  BY <1>6, <1>7, <1>8 DEF one, two

LEMMA SpawnAgentKeeps ==
  ASSUME DelegationTypeOK, DelegationInv, NEW s \in SessionIds, NEW c \in SessionIds,
         NEW owner \in SessionIds \cup {NoParent}, SpawnAgent(s, c, owner)
  PROVE  DelegationTypeOK' /\ DelegationInv'
<1>1. /\ s \in Live /\ c = drawn + 1 /\ drawn' = c /\ files' = files /\ copied' = copied
      /\ owner \in Live \cup {NoParent}
      /\ strays' = IF owner = s THEN strays ELSE strays \cup {c}
  BY DEF SpawnAgent, Draw
<1>2. /\ sessions[s] \in SessionRecords /\ drawn \in Nat /\ c \in Nat /\ s \in Nat /\ c > 0
      /\ c <= MaxSessions
      /\ sessions \in [SessionIds -> SessionRecords \cup {Gone}] /\ copied \in [SessionIds -> Nat]
  BY <1>1, LiveRecords, DelegationAssumption DEF DelegationTypeOK, SessionIds
<1>0. PICK log, header : log = sessions[s].log /\ header = Header(sessions[s])
  OBVIOUS
<1>22. PICK task \in Payloads :
         LET p == sessions[s]
             l == Lineage(owner)
             child == [NewSession(c, <<Row(0, "message", 0, task)>>) EXCEPT
                         !.parent = l.parent, !.root = l.root, !.spawn = c]
             spawned == Appended(p.log, "agent_spawn", c, task)
         IN \E after \in {p.log, spawned, Appended(spawned, "message", 0, "canonical")} :
              sessions' = [sessions EXCEPT ![c] = child, ![s].log = after,
                                           ![s].latched = Len(after) < Len(p.log) + 2]
  BY PayloadTypes DEF SpawnAgent
<1> DEFINE lineage == Lineage(owner)
           first == <<Row(0, "message", 0, task)>>
           made == [NewSession(c, first) EXCEPT !.parent = lineage.parent,
                                                !.root = lineage.root, !.spawn = c]
<1>3. log \in Seq(Rows) /\ Len(log) \in Nat
  BY <1>0, <1>2 DEF SessionRecords
<1>4. header \in Headers /\ header.id = s /\ sessions[s].id = s /\ s <= drawn
  <2>1. Known(s, header, log)
    BY <1>0, <1>1 DEF Known
  <2> QED
    BY <1>0, <1>1, <2>1, KnownIds, LiveRecords DEF Header
<1>5. s # c /\ c > drawn /\ c > s
  BY <1>1, <1>2, <1>4
<1>6. /\ first \in Seq(Rows) /\ Len(first) = 1 /\ first[1].seq = 0 /\ ~IsSpawn(first[1])
  <2>1. /\ Row(0, "message", 0, task) \in Rows /\ Row(0, "message", 0, task).seq = 0
        /\ Row(0, "message", 0, task).type = "message"
    BY RowTypes
  <2> QED
    BY <2>1 DEF IsSpawn
<1>23. lineage.parent = owner /\ lineage.root \in Nat /\ owner \in Nat /\ owner <= drawn
  <2>1. CASE owner = NoParent
    BY <1>2, <2>1 DEF Lineage, NoParent
  <2>2. CASE owner # NoParent
    <3>1. owner \in Live /\ owner \in SessionIds /\ sessions[owner] \in SessionRecords
      BY <1>1, <2>2, LiveRecords
    <3>2. Known(owner, Header(sessions[owner]), sessions[owner].log)
      BY <3>1 DEF Known
    <3>3. owner <= drawn /\ Header(sessions[owner]).id = owner
      BY <3>1, <3>2, KnownIds
    <3>4. sessions[owner].id = owner /\ sessions[owner].root \in Nat /\ owner \in Nat
      BY <3>1, <3>3 DEF Header, SessionRecords
    <3> QED
      BY <2>2, <3>3, <3>4 DEF Lineage
  <2> QED
    BY <2>1, <2>2
<1>7. PICK child : /\ child = made /\ child \in SessionRecords /\ child.id = c
                   /\ child.parent = owner /\ child.spawn = c /\ child.log = first
  <2>1. lineage.parent = owner /\ lineage.root \in Nat /\ owner \in Nat
    BY <1>23
  <2> DEFINE n == NewSession(c, first)
  <2>2. n \in SessionRecords /\ n.log = first /\ n.id = c
    BY <1>2, <1>6, NewRecords DEF NewSession
  <2> HIDE DEF n, lineage, first
  <2>3. made = [n EXCEPT !.parent = lineage.parent, !.root = lineage.root, !.spawn = c]
    BY DEF n
  <2>4. made \in SessionRecords /\ made.id = c /\ made.parent = owner /\ made.spawn = c
        /\ made.log = first
    <3> DEFINE root == lineage.root
    <3> HIDE DEF made
    <3>1. PICK q : q = lineage.root
      OBVIOUS
    <3>2. made = [n EXCEPT !.parent = owner, !.root = q, !.spawn = c]
      BY <2>1, <2>3, <3>1
    <3>3. q \in Nat
      BY <2>1, <3>1
    <3> QED
      BY <1>2, <2>1, <2>2, <3>2, <3>3 DEF SessionRecords
  <2> QED
    BY <2>4
<1>8. PICK after :
        /\ after \in {log, Appended(log, "agent_spawn", c, task),
                      Appended(Appended(log, "agent_spawn", c, task), "message", 0, "canonical")}
        /\ sessions' = [sessions EXCEPT ![c] = child, ![s].log = after,
                                        ![s].latched = Len(after) < Len(log) + 2]
  BY <1>0, <1>7, <1>22
<1> HIDE DEF first, lineage, made
<1>9. /\ after \in Seq(Rows) /\ Begins(log, after)
      /\ \A i \in 1 .. Len(after) : i > Len(log) =>
           after[i].seq = i - 1 /\ (IsSpawn(after[i]) => after[i].spawn = c)
  <2>1. after \in {log, Appended(log, "agent_spawn", c, task),
                   Appended(Appended(log, "agent_spawn", c, task), "message", 0, "canonical")}
    BY <1>8
  <2>2. log \in Seq(Rows) /\ c \in Nat /\ task \in Payloads
    BY <1>2, <1>3, <1>22
  <2> QED
    BY <2>1, <2>2, SpawnedLog
<1> DEFINE latched == Len(after) < Len(log) + 2
           parent == [sessions[s] EXCEPT !.log = after, !.latched = latched]
<1>10. parent \in SessionRecords /\ parent.log = after /\ Header(parent) = header
  <2>1. latched \in BOOLEAN
    OBVIOUS
  <2> HIDE DEF latched
  <2> QED
    BY <1>0, <1>2, <1>9, <2>1 DEF SessionRecords, Header
<1>11. /\ sessions' \in [SessionIds -> SessionRecords \cup {Gone}]
       /\ sessions'[s] = parent /\ sessions'[c] = child
       /\ \A t \in SessionIds \ {s, c} : sessions'[t] = sessions[t]
  <2>1. sessions' = [sessions EXCEPT ![c] = child, ![s] = parent]
    BY <1>2, <1>5, <1>8
  <2> HIDE DEF parent
  <2> QED
    BY <1>2, <1>5, <1>7, <1>10, <2>1
<1> HIDE DEF parent
<1>12. /\ Live' = Live \cup {s, c}
       /\ \A t, h, r : Known(t, h, r)' =>
            \/ t \in {s, c} /\ h = Header(sessions'[t]) /\ r = sessions'[t].log
            \/ Known(t, h, r)
  <2> DEFINE D == {s, c}
  <2> HIDE DEF D
  <2>1. /\ D \subseteq SessionIds /\ \A t \in D : sessions'[t] \in SessionRecords
        /\ \A t \in SessionIds \ D : sessions'[t] = sessions[t]
    BY <1>7, <1>10, <1>11 DEF D
  <2>2. /\ Live' = Live \cup D
        /\ \A t, h, r : Known(t, h, r)' =>
             \/ t \in D /\ h = Header(sessions'[t]) /\ r = sessions'[t].log
             \/ Known(t, h, r)
    BY <1>1, <1>11, <2>1, SomeChanged
  <2> QED
    BY <2>2 DEF D
<1>13. DelegationTypeOK'
  <2>1. drawn' \in 0 .. MaxSessions
    BY <1>1, <1>2
  <2> QED
    BY <1>1, <1>2, <1>11, <2>1, FilesStay DEF DelegationTypeOK
<1>14. drawn <= drawn'
  BY <1>1, <1>2
<1>15. CopiedIsThere'
  <2>1. \A t \in Live' : copied[t] <= Len(sessions'[t].log)
    <3>1. copied[c] <= Len(sessions'[c].log)
      <4>1. copied[c] = 0
        BY <1>5 DEF DelegationInv, CopiedIsThere
      <4> QED
        BY <1>6, <1>7, <1>11, <4>1
    <3>2. copied[s] <= Len(sessions'[s].log)
      <4>1. copied[s] <= Len(log) /\ Len(log) <= Len(after)
        BY <1>0, <1>1, <1>9 DEF DelegationInv, CopiedIsThere, Begins
      <4>2. copied[s] \in Nat /\ Len(after) \in Nat
        BY <1>2, <1>9
      <4>3. copied[s] <= Len(after)
        BY <1>3, <4>1, <4>2
      <4> QED
        BY <1>10, <1>11, <4>3
    <3>3. \A t \in Live : t \notin {s, c} => copied[t] <= Len(sessions'[t].log)
      BY <1>11 DEF DelegationInv, CopiedIsThere, Live
    <3> QED
      BY <1>12, <3>1, <3>2, <3>3
  <2>2. \A t \in SessionIds : t > drawn' => copied[t] = 0 /\ t \notin strays'
    <3>1. \A t \in SessionIds : t > drawn' => t > drawn /\ t # c
      BY <1>1, <1>2 DEF SessionIds
    <3> QED
      BY <1>1, <3>1 DEF DelegationInv, CopiedIsThere
  <2> QED
    BY <1>1, <2>1, <2>2 DEF CopiedIsThere
<1>16. PICK top : /\ top = Header(child) /\ top \in Headers /\ top.id = c
                  /\ top.parent = owner /\ top.spawn = c
  <2>1. /\ Header(child) \in Headers /\ Header(child).id = c
        /\ Header(child).parent = owner /\ Header(child).spawn = c
    BY <1>7 DEF Header, Headers, SessionRecords
  <2> QED
    BY <2>1
<1>17. \A g, r : ~Known(c, g, r)
  <2>1. ~(c <= drawn)
    BY <1>2, <1>5
  <2> QED
    BY <2>1, KnownIds
<1>18. Linked(s, c)'
  <2>1. ASSUME NEW g, NEW r, Known(c, g, r)'
        PROVE  (g.parent = s <=> c \notin strays') /\ g.spawn = c
    <3>1. g = top
      BY <1>7, <1>11, <1>12, <1>16, <1>17, <2>1
    <3>2. c \notin strays
      BY <1>5 DEF DelegationInv, CopiedIsThere
    <3> QED
      BY <1>1, <1>16, <3>1, <3>2
  <2> QED
    BY <2>1 DEF Linked
<1>19. NewOrLonger(s, header, after)
  <2>1. ASSUME NEW i \in 1 .. Len(after), i > Len(log)
        PROVE  /\ after[i].seq = i - 1
               /\ IsSpawn(after[i]) =>
                    after[i].spawn \in 1 .. drawn' /\ after[i].spawn > s /\ Linked(s, after[i].spawn)'
    <3>1. after[i].seq = i - 1 /\ (IsSpawn(after[i]) => after[i].spawn = c)
      BY <1>9, <2>1
    <3>2. c \in 1 .. drawn'
      BY <1>1, <1>2
    <3> QED
      BY <1>5, <1>18, <3>1, <3>2
  <2>2. copied'[s] = copied[s]
    BY <1>1
  <2> QED
    BY <1>0, <1>1, <1>9, <1>13, <1>14, <2>1, <2>2, Longer
<1>20. NewOrLonger(c, top, first)
  <2>1. Sound(c, top, first)'
    <3>1. DOMAIN first = 1 .. 1 /\ 1 - 1 = 0
      BY <1>6
    <3>2. \A i \in 1 .. 1 : i = 1
      OBVIOUS
    <3>3. Dense(first)
      BY <1>6, <3>1, <3>2 DEF Dense
    <3>4. \A i \in 1 .. Len(first) : ~IsSpawn(first[i])
      BY <1>6, <3>2
    <3>5. c <= drawn' /\ owner < c
      BY <1>1, <1>2, <1>5, <1>23
    <3> QED
      BY <1>6, <1>16, <3>3, <3>4, <3>5 DEF Sound, IsSpawn, Dense
  <2>2. \A i \in 1 .. Len(first) : ~(Own(c, first, i)')
    <3>1. \A i \in 1 .. 1 : i = 1
      OBVIOUS
    <3> QED
      BY <1>6, <3>1 DEF Own, IsSpawn
  <2>3. c > drawn
    BY <1>5
  <2> QED
    BY <2>1, <2>2, <2>3 DEF NewOrLonger
<1>21. \A t \in SessionIds : \A h, r : Known(t, h, r)' => FromBefore(t, h, r) \/ NewOrLonger(t, h, r)
  BY <1>1, <1>7, <1>10, <1>11, <1>12, <1>16, <1>19, <1>20, StillKnown
<1>24. StraysStay
  <2>1. ~(c <= drawn)
    BY <1>2, <1>5
  <2> QED
    BY <1>1, <2>1 DEF StraysStay
<1> QED
  BY <1>13, <1>14, <1>15, <1>21, <1>24, InvStays

LEMMA ForkKeeps ==
  ASSUME DelegationTypeOK, DelegationInv, NEW s \in SessionIds, NEW f \in SessionIds, Fork(s, f)
  PROVE  DelegationTypeOK' /\ DelegationInv'
<1>1. PICK at \in 0 .. MaxRows :
        /\ s \in Live /\ f = drawn + 1 /\ drawn' = f /\ files' = files /\ strays' = strays
        /\ sessions' = [sessions EXCEPT ![f] =
             [sessions[s] EXCEPT !.id = f, !.log = ForkedLog(@, at), !.latched = FALSE]]
        /\ copied' = [copied EXCEPT ![f] = Len(ForkedLog(sessions[s].log, at))]
  BY DEF Fork, Draw
<1>2. /\ sessions[s] \in SessionRecords /\ drawn \in Nat /\ f \in Nat /\ s \in Nat /\ f > 0
      /\ f <= MaxSessions
      /\ sessions \in [SessionIds -> SessionRecords \cup {Gone}] /\ copied \in [SessionIds -> Nat]
  BY <1>1, LiveRecords, DelegationAssumption DEF DelegationTypeOK, SessionIds
<1>3. PICK log, header : log = sessions[s].log /\ header = Header(sessions[s])
  OBVIOUS
<1>4. log \in Seq(Rows) /\ Len(log) \in Nat
  BY <1>2, <1>3 DEF SessionRecords
<1>5. Sound(s, header, log)
  <2>1. Known(s, header, log)
    BY <1>1, <1>3 DEF Known
  <2> QED
    BY <2>1 DEF DelegationInv, KnownIsSound
<1>6. PICK k \in 0 .. Len(log) : ForkedLog(log, at) = SubSeq(log, 1, k)
  BY <1>4, ForkedFacts
<1>7. PICK rows : rows = SubSeq(log, 1, k)
  OBVIOUS
<1>8. /\ rows \in Seq(Rows) /\ Len(rows) = k /\ k \in Nat
      /\ \A i \in 1 .. k : i \in 1 .. Len(log) /\ rows[i] = log[i]
  BY <1>4, <1>7, PrefixFacts
<1> DEFINE fork == [sessions[s] EXCEPT !.id = f, !.log = rows, !.latched = FALSE]
<1>9. /\ fork \in SessionRecords /\ fork.log = rows /\ fork.id = f
      /\ fork.parent = sessions[s].parent
  BY <1>2, <1>8 DEF SessionRecords
<1>10. /\ sessions' \in [SessionIds -> SessionRecords \cup {Gone}] /\ sessions'[f] = fork
       /\ \A t \in SessionIds \ {f} : sessions'[t] = sessions[t]
       /\ copied' \in [SessionIds -> Nat] /\ copied'[f] = k
       /\ \A t \in SessionIds \ {f} : copied'[t] = copied[t]
  <2>1. sessions' = [sessions EXCEPT ![f] = fork]
    BY <1>1, <1>3, <1>6, <1>7
  <2>2. copied' = [copied EXCEPT ![f] = k]
    BY <1>1, <1>3, <1>6, <1>7, <1>8
  <2> HIDE DEF fork
  <2> QED
    BY <1>2, <1>8, <1>9, <2>1, <2>2
<1> HIDE DEF fork
<1>11. PICK top : top = Header(fork) /\ top \in Headers /\ top.id = f /\ top.parent = header.parent
  <2>1. Header(fork) \in Headers /\ Header(fork).id = f /\ Header(fork).parent = header.parent
    BY <1>3, <1>9 DEF Header, Headers, SessionRecords
  <2> QED
    BY <2>1
<1>12. /\ Live' = Live \cup {f}
       /\ \A t, h, r : Known(t, h, r)' =>
            \/ t \in {f} /\ h = Header(sessions'[t]) /\ r = sessions'[t].log
            \/ Known(t, h, r)
  <2> DEFINE D == {f}
  <2> HIDE DEF D
  <2>1. /\ D \subseteq SessionIds /\ \A t \in D : sessions'[t] \in SessionRecords
        /\ \A t \in SessionIds \ D : sessions'[t] = sessions[t]
    BY <1>9, <1>10 DEF D
  <2>2. /\ Live' = Live \cup D
        /\ \A t, h, r : Known(t, h, r)' =>
             \/ t \in D /\ h = Header(sessions'[t]) /\ r = sessions'[t].log
             \/ Known(t, h, r)
    BY <1>1, <1>10, <2>1, SomeChanged
  <2> QED
    BY <2>2 DEF D
<1>13. DelegationTypeOK'
  <2>1. drawn' \in 0 .. MaxSessions
    BY <1>1, <1>2
  <2> QED
    BY <1>1, <1>10, <2>1, FilesStay DEF DelegationTypeOK
<1>14. drawn <= drawn' /\ ~(f <= drawn)
  BY <1>1, <1>2
<1>15. CopiedIsThere'
  <2>1. \A t \in Live' : copied'[t] <= Len(sessions'[t].log)
    <3>1. copied'[f] <= Len(sessions'[f].log)
      BY <1>8, <1>9, <1>10
    <3>2. \A t \in Live : t # f => copied'[t] <= Len(sessions'[t].log)
      BY <1>10 DEF DelegationInv, CopiedIsThere, Live
    <3> QED
      BY <1>12, <3>1, <3>2
  <2>2. \A t \in SessionIds : t > drawn' => copied'[t] = 0 /\ t \notin strays'
    <3>1. \A t \in SessionIds : t > drawn' => t > drawn /\ t # f
      BY <1>1, <1>2 DEF SessionIds
    <3> QED
      BY <1>1, <1>10, <3>1 DEF DelegationInv, CopiedIsThere
  <2> QED
    BY <2>1, <2>2 DEF CopiedIsThere
<1>16. /\ s <= drawn /\ header.parent < s /\ header.parent \in Nat
       /\ \A i \in 1 .. Len(log) : log[i].seq = i - 1
       /\ \A i \in 1 .. Len(log) : IsSpawn(log[i]) => log[i].spawn \in 1 .. drawn
  BY <1>5 DEF Sound, Dense, Headers
<1>17. NewOrLonger(f, top, rows)
  <2>1. \A i \in 1 .. Len(rows) : rows[i].seq = i - 1
    BY <1>8, <1>16
  <2>2. ASSUME NEW i \in 1 .. Len(rows)
        PROVE  ~(i > copied'[f])
    BY <1>8, <1>10
  <2>3. ASSUME NEW i \in 1 .. Len(rows), IsSpawn(rows[i])
        PROVE  rows[i].spawn \in 1 .. drawn' /\ rows[i].spawn < f
    <3>1. rows[i].spawn \in 1 .. drawn
      BY <1>8, <1>16, <2>3
    <3> QED
      BY <1>1, <1>2, <3>1
  <2>4. DOMAIN rows = 1 .. Len(rows)
    BY <1>8
  <2>5. f <= drawn' /\ top.parent < f
    BY <1>1, <1>2, <1>11, <1>16
  <2>6. Sound(f, top, rows)'
    BY <1>8, <1>11, <2>1, <2>2, <2>3, <2>4, <2>5 DEF Sound, Dense, IsSpawn
  <2>7. \A i \in 1 .. Len(rows) : ~(Own(f, rows, i)')
    BY <2>2 DEF Own
  <2>8. f > drawn
    BY <1>1, <1>2
  <2> QED
    BY <2>6, <2>7, <2>8 DEF NewOrLonger
<1>18. ASSUME NEW t \in SessionIds, NEW h, NEW r, Known(t, h, r)'
       PROVE  FromBefore(t, h, r) \/ NewOrLonger(t, h, r)
  <2>1. CASE Known(t, h, r)
    <3>1. t # f
      BY <1>14, <2>1, KnownIds
    <3> QED
      BY <1>10, <2>1, <3>1, StillKnown
  <2>2. CASE t = f /\ h = Header(sessions'[f]) /\ r = sessions'[f].log
    BY <1>9, <1>10, <1>11, <1>17, <2>2
  <2> QED
    BY <1>12, <1>18, <2>1, <2>2
<1> QED
  BY <1>1, <1>13, <1>14, <1>15, <1>18, InvStays, StraysUnchanged

LEMMA SaveKeeps ==
  ASSUME DelegationTypeOK, DelegationInv, NEW s \in SessionIds, Save(s)
  PROVE  DelegationTypeOK' /\ DelegationInv'
<1>1. /\ s \in Live /\ sessions' = sessions /\ drawn' = drawn /\ copied' = copied /\ strays' = strays
      /\ files' = [files EXCEPT ![s] = [lines |-> Lines(sessions[s]), torn |-> FALSE]]
  BY DEF Save
<1>0. PICK log, header, written : /\ log = sessions[s].log /\ header = Header(sessions[s])
                                  /\ written = RowLines(log)
  OBVIOUS
<1>2. header \in Headers /\ log \in Seq(Rows)
  BY <1>0, <1>1, LiveRecords DEF SessionRecords
<1>10. written \in Seq(Rows) /\ Follows(written, log)
  BY <1>0, <1>2, WrittenFacts
<1>3. /\ DOMAIN files' = SessionIds /\ Holds(files'[s], header, written)
      /\ \A t \in SessionIds : t # s => files'[t] = files[t]
  BY <1>0, <1>1 DEF DelegationTypeOK, FilesOK, Lines, Holds
<1>4. Live' = Live
  BY <1>1 DEF Live
<1>5. DelegationTypeOK'
  <2>1. ASSUME NEW t \in SessionIds
        PROVE  \/ files'[t].lines = <<>>
               \/ \E h \in Headers, rows \in Seq(Rows) : Holds(files'[t], h, rows)
    <3>1. CASE t = s
      BY <1>2, <1>3, <1>10, <3>1
    <3>2. CASE t # s
      BY <1>3, <3>2 DEF DelegationTypeOK, FilesOK
    <3> QED
      BY <3>1, <3>2
  <2>2. FilesOK'
    BY <1>3, <2>1 DEF FilesOK, Holds
  <2> QED
    BY <1>1, <2>2 DEF DelegationTypeOK
<1>6. CopiedIsThere'
  BY <1>1, <1>4 DEF DelegationInv, CopiedIsThere
<1>7. ASSUME NEW t \in SessionIds, NEW h, NEW rows, Known(t, h, rows)'
      PROVE  FromBefore(t, h, rows)
  <2>1. \/ t \in Live /\ h = Header(sessions[t]) /\ rows = sessions[t].log
        \/ h \in Headers /\ rows \in Seq(Rows) /\ Holds(files'[t], h, rows)
    <3>1. Header(sessions[t])' = Header(sessions[t])
      BY <1>1 DEF Header
    <3>2. Holds(files[t], h, rows)' <=> Holds(files'[t], h, rows)
      BY DEF Holds
    <3> QED
      BY <1>1, <1>4, <1>7, <3>1, <3>2 DEF Known
  <2>2. CASE Known(t, h, rows)
    BY <1>1, <2>2, StillKnown
  <2>3. CASE ~Known(t, h, rows)
    <3>1. t = s /\ h \in Headers /\ rows \in Seq(Rows) /\ Holds(files'[s], h, rows)
      BY <1>3, <2>1, <2>3 DEF Known
    <3>2. h = header /\ rows = written
      BY <1>2, <1>3, <1>10, <3>1, HoldsNoOther
    <3>3. Known(s, header, log)
      BY <1>0, <1>1 DEF Known
    <3> QED
      BY <1>1, <1>2, <1>10, <3>1, <3>2, <3>3 DEF FromBefore
  <2> QED
    BY <2>2, <2>3
<1>8. drawn <= drawn'
  BY <1>1, DelegationAssumption DEF DelegationTypeOK
<1> QED
  BY <1>1, <1>5, <1>6, <1>7, <1>8, InvStays, StraysUnchanged

LEMMA DieKeeps ==
  ASSUME DelegationTypeOK, DelegationInv, Die
  PROVE  DelegationTypeOK' /\ DelegationInv'
<1>1. sessions' = [t \in SessionIds |-> Gone] /\ drawn' = drawn /\ copied' = copied /\ strays' = strays
  BY DEF Die
<1>2. Live' = {}
  BY <1>1 DEF Live
<1>3. ASSUME NEW t \in SessionIds, NEW h, NEW rows, Known(t, h, rows)'
      PROVE  h \in Headers /\ rows \in Seq(Rows) /\ Holds(files'[t], h, rows)
  <2>1. Holds(files[t], h, rows)' <=> Holds(files'[t], h, rows)
    BY DEF Holds
  <2> QED
    BY <1>2, <1>3, <2>1 DEF Known
<1>4. CASE files' = files
  <2>1. DelegationTypeOK'
    BY <1>1, <1>4, FilesStay DEF DelegationTypeOK
  <2>2. \A t \in SessionIds : \A h, rows : Known(t, h, rows)' => FromBefore(t, h, rows)
    BY <1>1, <1>3, <1>4, StillKnown DEF Known
  <2>3. CopiedIsThere'
    BY <1>1, <1>2 DEF DelegationInv, CopiedIsThere
  <2>4. drawn <= drawn'
    BY <1>1, DelegationAssumption DEF DelegationTypeOK
  <2> QED
    BY <1>1, <2>1, <2>2, <2>3, <2>4, InvStays, StraysUnchanged
<1>5. CASE files' # files
  <2>0. PICK s \in Live : \E k \in 0 .. Len(RowLines(sessions[s].log)), torn \in BOOLEAN :
          files' = [files EXCEPT ![s] = [lines |-> SubSeq(Lines(sessions[s]), 1, k), torn |-> torn]]
    BY <1>5 DEF Die
  <2>1. PICK k \in 0 .. Len(RowLines(sessions[s].log)), torn \in BOOLEAN :
          files' = [files EXCEPT ![s] = [lines |-> SubSeq(Lines(sessions[s]), 1, k), torn |-> torn]]
    BY <2>0
  <2>2. PICK whole, log, header : /\ whole = sessions[s].log /\ header = Header(sessions[s])
                                  /\ log = RowLines(whole)
    OBVIOUS
  <2>3. /\ s \in SessionIds /\ whole \in Seq(Rows) /\ header \in Headers /\ Known(s, header, whole)
        /\ log \in Seq(Rows) /\ Follows(log, whole)
    <3>1. s \in SessionIds /\ whole \in Seq(Rows) /\ header \in Headers /\ Known(s, header, whole)
      BY <2>2, LiveRecords DEF SessionRecords, Known
    <3> QED
      BY <2>2, <3>1, WrittenFacts
  <2>4. /\ DOMAIN files' = SessionIds
        /\ files'[s].lines = SubSeq(<<header>> \o log, 1, k)
        /\ \A t \in SessionIds : t # s => files'[t] = files[t]
    BY <2>1, <2>2, <2>3 DEF DelegationTypeOK, FilesOK, Lines
  <2>5. Len(log) \in Nat /\ k \in 0 .. Len(log)
    BY <2>2, <2>3
  <2>6. CASE k = 0
    <3>1. files'[s].lines = <<>>
      <4>1. SubSeq(<<header>> \o log, 1, 0) = <<>>
        BY <2>3, CutToNothing
      <4> QED
        BY <2>4, <2>6, <4>1
    <3>2. FilesOK'
      <4>1. \A t \in SessionIds :
              \/ files'[t].lines = <<>>
              \/ \E h \in Headers, rows \in Seq(Rows) : Holds(files'[t], h, rows)
        BY <2>4, <3>1 DEF DelegationTypeOK, FilesOK
      <4> QED
        BY <2>4, <4>1 DEF FilesOK, Holds
    <3>3. ASSUME NEW t \in SessionIds, NEW h, NEW rows, Known(t, h, rows)'
          PROVE  FromBefore(t, h, rows)
      <4>1. h \in Headers /\ rows \in Seq(Rows) /\ Holds(files'[t], h, rows)
        BY <1>3, <3>3
      <4>2. t # s
        BY <3>1, <4>1, HoldsOne
      <4> QED
        BY <1>1, <2>4, <4>1, <4>2, StillKnown DEF Known
    <3>4. DelegationTypeOK'
      BY <1>1, <3>2 DEF DelegationTypeOK
    <3>5. CopiedIsThere'
      BY <1>1, <1>2 DEF DelegationInv, CopiedIsThere
    <3>6. drawn <= drawn'
      BY <1>1, DelegationAssumption DEF DelegationTypeOK
    <3> QED
      BY <1>1, <3>3, <3>4, <3>5, <3>6, InvStays, StraysUnchanged
  <2>7. CASE k # 0
    <3>1. k \in 1 .. Len(log) + 1 /\ k - 1 \in 0 .. Len(log)
      BY <2>5, <2>7
    <3>2. PICK rest : rest = SubSeq(log, 1, k - 1)
      OBVIOUS
    <3>3. /\ rest \in Seq(Rows) /\ SubSeq(<<header>> \o log, 1, k) = <<header>> \o rest
      BY <2>3, <3>1, <3>2, LinesCut
    <3>4. /\ Len(rest) = k - 1
          /\ \A i \in 1 .. k - 1 : i \in 1 .. Len(log) /\ rest[i] = log[i]
      BY <2>3, <3>1, <3>2, PrefixFacts
    <3>5. Holds(files'[s], header, rest)
      BY <2>4, <3>3 DEF Holds
    <3>6. FilesOK'
      <4>1. \A t \in SessionIds :
              \/ files'[t].lines = <<>>
              \/ \E h \in Headers, rows \in Seq(Rows) : Holds(files'[t], h, rows)
        BY <2>3, <2>4, <3>3, <3>5 DEF DelegationTypeOK, FilesOK
      <4> QED
        BY <2>4, <4>1 DEF FilesOK, Holds
    <3>7. Follows(rest, whole)
      <4>1. Len(log) <= Len(whole) /\ Len(whole) \in Nat /\ k - 1 <= Len(log)
        BY <2>3, <2>5, <3>1 DEF Follows
      <4>2. Len(rest) <= Len(whole)
        BY <2>5, <3>1, <3>4, <4>1
      <4> QED
        BY <2>3, <3>4, <4>2 DEF Follows
    <3>8. ASSUME NEW t \in SessionIds, NEW h, NEW rows, Known(t, h, rows)'
          PROVE  FromBefore(t, h, rows)
      <4>1. h \in Headers /\ rows \in Seq(Rows) /\ Holds(files'[t], h, rows)
        BY <1>3, <3>8
      <4>2. CASE t = s
        <5>1. h = header /\ rows = rest
          BY <2>3, <3>3, <3>5, <4>1, <4>2, HoldsNoOther
        <5> QED
          BY <1>1, <2>3, <3>7, <4>2, <5>1 DEF FromBefore
      <4>3. CASE t # s
        BY <1>1, <2>4, <4>1, <4>3, StillKnown DEF Known
      <4> QED
        BY <4>2, <4>3
    <3>9. DelegationTypeOK'
      BY <1>1, <3>6 DEF DelegationTypeOK
    <3>10. CopiedIsThere'
      BY <1>1, <1>2 DEF DelegationInv, CopiedIsThere
    <3>11. drawn <= drawn'
      BY <1>1, DelegationAssumption DEF DelegationTypeOK
    <3> QED
      BY <1>1, <3>8, <3>9, <3>10, <3>11, InvStays, StraysUnchanged
  <2> QED
    BY <2>6, <2>7
<1> QED
  BY <1>4, <1>5

LEMMA LoadSessionKeeps ==
  ASSUME DelegationTypeOK, DelegationInv, NEW s \in SessionIds, LoadSession(s)
  PROVE  DelegationTypeOK' /\ DelegationInv'
<1>1. /\ s \notin Live /\ files[s].lines # <<>> /\ files' = files /\ drawn' = drawn /\ strays' = strays
      /\ sessions' = [sessions EXCEPT ![s] = Loaded(files[s])]
      /\ copied' = [copied EXCEPT ![s] = Min({@, Len(files[s].lines) - 1})]
  BY DEF LoadSession, Loadable
<1>2. PICK header \in Headers, rows \in Seq(Rows) : Holds(files[s], header, rows)
  BY <1>1 DEF DelegationTypeOK, FilesOK
<1>3. /\ Loaded(files[s]) \in SessionRecords /\ Loaded(files[s]).log = rows
      /\ Header(Loaded(files[s])) = header
  BY <1>2, LoadedFacts
<1>4. Known(s, header, rows)
  BY <1>2 DEF Known
<1>5. /\ sessions \in [SessionIds -> SessionRecords \cup {Gone}] /\ copied \in [SessionIds -> Nat]
      /\ drawn \in Nat /\ copied[s] \in Nat /\ Len(rows) \in Nat
  BY DelegationAssumption DEF DelegationTypeOK
<1>6. /\ sessions' \in [SessionIds -> SessionRecords \cup {Gone}] /\ sessions'[s] = Loaded(files[s])
      /\ \A t \in SessionIds \ {s} : sessions'[t] = sessions[t]
  <2> DEFINE p == Loaded(files[s])
  <2> HIDE DEF p
  <2>1. sessions' = [sessions EXCEPT ![s] = p] /\ p \in SessionRecords
    BY <1>1, <1>3 DEF p
  <2>2. /\ sessions' \in [SessionIds -> SessionRecords \cup {Gone}] /\ sessions'[s] = p
        /\ \A t \in SessionIds \ {s} : sessions'[t] = sessions[t]
    BY <1>5, <2>1
  <2> QED
    BY <2>2 DEF p
<1>7. PICK n \in Nat : /\ n = Min({copied[s], Len(rows)}) /\ n <= Len(rows) /\ n <= copied[s]
                       /\ n = copied[s] \/ n = Len(rows)
  <2>1. ASSUME NEW x \in Nat, NEW y \in Nat
        PROVE  LET m == Min({x, y})
               IN  m \in Nat /\ m <= x /\ m <= y /\ (m = x \/ m = y)
    <3>1. \E m \in {x, y} : \A z \in {x, y} : m <= z
      <4>1. x <= y \/ y <= x
        OBVIOUS
      <4>2. x <= x /\ y <= y
        OBVIOUS
      <4> QED
        BY <4>1, <4>2
    <3>2. Min({x, y}) \in {x, y} /\ \A z \in {x, y} : Min({x, y}) <= z
      BY <3>1 DEF Min
    <3> QED
      BY <3>2
  <2> QED
    BY <1>5, <2>1
<1>8. /\ copied' \in [SessionIds -> Nat] /\ copied'[s] = n
      /\ \A t \in SessionIds \ {s} : copied'[t] = copied[t]
  <2>1. Len(files[s].lines) - 1 = Len(rows)
    <3>1. Len(files[s].lines) = Len(rows) + 1
      BY <1>2, HoldsOne
    <3> QED
      BY <1>5, <3>1
  <2>2. copied' = [copied EXCEPT ![s] = n]
    BY <1>1, <1>7, <2>1
  <2> QED
    BY <1>5, <2>2
<1>9. /\ Live' = Live \cup {s}
      /\ \A t, h, r : Known(t, h, r)' =>
           \/ t \in {s} /\ h = Header(sessions'[t]) /\ r = sessions'[t].log
           \/ Known(t, h, r)
  <2> DEFINE D == {s}
  <2> HIDE DEF D
  <2>1. /\ D \subseteq SessionIds /\ \A t \in D : sessions'[t] \in SessionRecords
        /\ \A t \in SessionIds \ D : sessions'[t] = sessions[t]
    BY <1>3, <1>6 DEF D
  <2>2. /\ Live' = Live \cup D
        /\ \A t, h, r : Known(t, h, r)' =>
             \/ t \in D /\ h = Header(sessions'[t]) /\ r = sessions'[t].log
             \/ Known(t, h, r)
    BY <1>1, <1>6, <2>1, SomeChanged
  <2> QED
    BY <2>2 DEF D
<1>10. DelegationTypeOK'
  BY <1>1, <1>6, <1>8, FilesStay DEF DelegationTypeOK
<1>11. CopiedIsThere'
  <2>1. copied'[s] <= Len(sessions'[s].log)
    BY <1>3, <1>6, <1>7, <1>8
  <2>2. \A t \in Live : t # s => copied'[t] <= Len(sessions'[t].log)
    BY <1>6, <1>8 DEF DelegationInv, CopiedIsThere, Live
  <2>3. \A t \in SessionIds : t > drawn' => copied'[t] = 0 /\ t \notin strays'
    <3>1. s <= drawn /\ s \in Nat
      BY <1>4, KnownIds DEF SessionIds
    <3>2. ~(s > drawn)
      BY <1>5, <3>1
    <3> QED
      BY <1>1, <1>8, <3>2 DEF DelegationInv, CopiedIsThere
  <2> QED
    BY <1>9, <2>1, <2>2, <2>3 DEF CopiedIsThere
<1>12. ASSUME NEW t \in SessionIds, NEW h, NEW r, Known(t, h, r)'
       PROVE  FromBefore(t, h, r)
  <2>1. CASE t = s
    <3>1. h = header /\ r = rows
      <4>1. CASE h = Header(sessions'[s]) /\ r = sessions'[s].log
        BY <1>3, <1>6, <4>1
      <4>2. CASE Known(s, h, r)
        <5>1. h \in Headers /\ r \in Seq(Rows) /\ Holds(files[s], h, r)
          BY <1>1, <4>2 DEF Known
        <5> QED
          BY <1>2, <5>1, HoldsNoOther
      <4> QED
        BY <1>9, <1>12, <2>1, <4>1, <4>2
    <3>2. \A i \in 1 .. Len(rows) : i <= copied'[s] <=> i <= copied[s]
      BY <1>5, <1>7, <1>8
    <3>3. Follows(rows, rows)
      BY <1>5 DEF Follows, SameRow
    <3> QED
      BY <1>4, <2>1, <3>1, <3>2, <3>3 DEF FromBefore
  <2>2. CASE t # s
    BY <1>8, <1>9, <1>12, <2>2, StillKnown
  <2> QED
    BY <2>1, <2>2
<1>13. drawn <= drawn'
  BY <1>1, <1>5
<1> QED
  BY <1>1, <1>10, <1>11, <1>12, <1>13, InvStays, StraysUnchanged

LEMMA InitKeeps == ASSUME DelegationInit PROVE DelegationTypeOK /\ DelegationInv
<1>1. Live = {}
  BY DEF DelegationInit, Live
<1>2. \A s \in SessionIds : files[s].lines = <<>>
  BY DEF DelegationInit, NoFile
<1>3. \A s \in SessionIds : \A h, rows : ~Known(s, h, rows)
  <2>1. \A s \in SessionIds : \A h \in Headers, rows \in Seq(Rows) : ~Holds(files[s], h, rows)
    BY <1>2, HoldsOne
  <2> QED
    BY <1>1, <2>1 DEF Known
<1>4. DelegationTypeOK
  BY <1>2, DelegationAssumption DEF DelegationInit, DelegationTypeOK, FilesOK
<1>5. DelegationInv
  BY <1>1, <1>3 DEF DelegationInv, KnownIsSound, CopiedIsThere, SpawnsAreLinked, DelegationInit
<1> QED
  BY <1>4, <1>5

LEMMA StutterKeeps ==
  ASSUME DelegationTypeOK, DelegationInv, UNCHANGED delegationVars
  PROVE  DelegationTypeOK' /\ DelegationInv'
<1>1. /\ sessions' = sessions /\ files' = files /\ drawn' = drawn /\ copied' = copied /\ strays' = strays
  BY DEF delegationVars
<1>2. Live' = Live
  BY <1>1 DEF Live
<1>3. DelegationTypeOK'
  BY <1>1, FilesStay DEF DelegationTypeOK
<1>4. CopiedIsThere'
  BY <1>1, <1>2 DEF DelegationInv, CopiedIsThere
<1>5. \A t \in SessionIds : \A h, rows : Known(t, h, rows)' => Known(t, h, rows)
  BY <1>1, <1>2 DEF Known, Holds, Header
<1>6. drawn <= drawn'
  BY <1>1, DelegationAssumption DEF DelegationTypeOK
<1>7. \A t \in SessionIds : \A h, rows : Known(t, h, rows)' =>
        FromBefore(t, h, rows) \/ NewOrLonger(t, h, rows)
  BY <1>1, <1>5, StillKnown
<1> QED
  BY <1>1, <1>3, <1>4, <1>6, <1>7, InvStays, StraysUnchanged

(* What is known of a session, in memory or in a file that loads: its rows   *)
(* are dense, its parent is older, and the session a spawn made names it as *)
(* its parent, unless the Runner had another parent session or none.        *)
THEOREM SessionsAreSound == DelegationSpec => [](DelegationTypeOK /\ DelegationInv)
<1>1. DelegationInit => DelegationTypeOK /\ DelegationInv
  BY InitKeeps
<1>2. DelegationTypeOK /\ DelegationInv /\ [DelegationNext]_delegationVars =>
        DelegationTypeOK' /\ DelegationInv'
  <2> SUFFICES ASSUME DelegationTypeOK, DelegationInv, [DelegationNext]_delegationVars
               PROVE  DelegationTypeOK' /\ DelegationInv'
    OBVIOUS
  <2>1. CASE Die
    BY <2>1, DieKeeps
  <2>2. ASSUME NEW s \in SessionIds, CreateSession(s)
        PROVE  DelegationTypeOK' /\ DelegationInv'
    BY <2>2, CreateSessionKeeps
  <2>3. ASSUME NEW s \in SessionIds, AppendEvent(s)
        PROVE  DelegationTypeOK' /\ DelegationInv'
    BY <2>3, AppendEventKeeps
  <2>4. ASSUME NEW s \in SessionIds, Save(s)
        PROVE  DelegationTypeOK' /\ DelegationInv'
    BY <2>4, SaveKeeps
  <2>5. ASSUME NEW s \in SessionIds, LoadSession(s)
        PROVE  DelegationTypeOK' /\ DelegationInv'
    BY <2>5, LoadSessionKeeps
  <2>6. ASSUME NEW s \in SessionIds, NEW t \in SessionIds,
               NEW owner \in SessionIds \cup {NoParent}, SpawnAgent(s, t, owner)
        PROVE  DelegationTypeOK' /\ DelegationInv'
    BY <2>6, SpawnAgentKeeps
  <2>7. ASSUME NEW s \in SessionIds, NEW t \in SessionIds, Fork(s, t)
        PROVE  DelegationTypeOK' /\ DelegationInv'
    BY <2>7, ForkKeeps
  <2>8. CASE UNCHANGED delegationVars
    BY <2>8, StutterKeeps
  <2> QED
    BY <2>1, <2>2, <2>3, <2>4, <2>5, <2>6, <2>7, <2>8 DEF DelegationNext
<1> QED
  BY <1>1, <1>2, PTL DEF DelegationSpec

-----------------------------------------------------------------------------
(* What a file holds: plain rows, which are the first of its session's while *)
(* that is in memory.                                                      *)
Plain(rows) == \A i \in 1 .. Len(rows) : rows[i].payload = "canonical"

CopyOf(rows, log) ==
  Len(rows) <= Len(log) /\ \A i \in 1 .. Len(rows) : rows[i] = AsWritten(log[i])

FilesAreWritten ==
  \A t \in SessionIds : \A h \in Headers, rows \in Seq(Rows) : Holds(files[t], h, rows) =>
    Plain(rows) /\ (t \in Live => CopyOf(rows, sessions[t].log))

GrownOrNew(t) ==
  t \in Live' => \/ t \in Live /\ Begins(sessions[t].log, sessions'[t].log)
                 \/ t > drawn
                 \/ \E h \in Headers : Holds(files[t], h, sessions'[t].log)

LEMMA LiveLogs ==
  ASSUME DelegationTypeOK', NEW t \in Live'
  PROVE  sessions'[t].log \in Seq(Rows)
<1>1. sessions'[t] \in SessionRecords
  BY DEF Live, DelegationTypeOK
<1> QED
  BY <1>1 DEF SessionRecords

LEMMA FilesKept ==
  ASSUME DelegationTypeOK, DelegationInv, DelegationTypeOK', FilesAreWritten, files' = files,
         \A t \in SessionIds : GrownOrNew(t)
  PROVE  FilesAreWritten'
<1>1. ASSUME NEW t \in SessionIds, NEW h \in Headers, NEW rows \in Seq(Rows), Holds(files[t], h, rows)
      PROVE  Plain(rows) /\ (t \in Live' => CopyOf(rows, sessions'[t].log))
  <2>1. Plain(rows)
    BY <1>1 DEF FilesAreWritten
  <2> SUFFICES ASSUME t \in Live'
               PROVE  CopyOf(rows, sessions'[t].log)
    BY <2>1
  <2>2. PICK log : log = sessions'[t].log /\ log \in Seq(Rows)
    BY LiveLogs
  <2>3. ~(t > drawn)
    <3>1. Known(t, h, rows)
      BY <1>1 DEF Known
    <3>2. t <= drawn
      BY <3>1, KnownIds
    <3> QED
      BY <3>2, DelegationAssumption DEF DelegationTypeOK, SessionIds
  <2>4. CASE t \in Live /\ Begins(sessions[t].log, log)
    <3>1. PICK old : old = sessions[t].log /\ old \in Seq(Rows)
      BY <2>4, LiveRecords DEF SessionRecords
    <3>2. CopyOf(rows, old) /\ Begins(old, log)
      BY <1>1, <2>4, <3>1 DEF FilesAreWritten
    <3>3. Len(rows) \in Nat /\ Len(old) \in Nat /\ Len(log) \in Nat
      BY <2>2, <3>1
    <3>4. Len(rows) <= Len(log) /\ \A i \in 1 .. Len(rows) : i \in 1 .. Len(old)
      BY <3>2, <3>3 DEF CopyOf, Begins
    <3>5. \A i \in 1 .. Len(rows) : rows[i] = AsWritten(log[i])
      BY <3>2, <3>4 DEF CopyOf, Begins
    <3> QED
      BY <2>2, <3>4, <3>5 DEF CopyOf
  <2>5. CASE \E g \in Headers : Holds(files[t], g, log)
    <3>1. log = rows
      BY <1>1, <2>2, <2>5, HoldsNoOther
    <3>2. \A i \in 1 .. Len(rows) : rows[i] \in Rows /\ rows[i] = AsWritten(rows[i])
      BY <2>1, AsWrittenFacts DEF Plain
    <3> QED
      BY <2>2, <3>1, <3>2 DEF CopyOf
  <2> QED
    BY <2>2, <2>3, <2>4, <2>5 DEF GrownOrNew
<1> QED
  BY <1>1 DEF FilesAreWritten, Plain, CopyOf, Holds

LEMMA Untouched ==
  ASSUME DelegationTypeOK, NEW t \in SessionIds, sessions'[t] = sessions[t]
  PROVE  GrownOrNew(t)
<1> SUFFICES ASSUME t \in Live'
             PROVE  t \in Live /\ Begins(sessions[t].log, sessions'[t].log)
  BY DEF GrownOrNew
<1>1. t \in Live
  BY DEF Live
<1>2. sessions[t].log \in Seq(Rows)
  BY <1>1, LiveRecords DEF SessionRecords
<1> QED
  BY <1>1, <1>2 DEF Begins

(* A step that makes one session, or adds to one. *)
LEMMA AppendEventGrows ==
  ASSUME DelegationTypeOK, DelegationInv, NEW s \in SessionIds, AppendEvent(s)
  PROVE  files' = files /\ \A t \in SessionIds : GrownOrNew(t)
<1>1. s \in Live /\ files' = files
  BY DEF AppendEvent
<1>0. PICK log : log = sessions[s].log
  OBVIOUS
<1>2. log \in Seq(Rows) /\ sessions[s] \in SessionRecords
  BY <1>0, <1>1, LiveRecords DEF SessionRecords
<1>3. PICK rows : /\ sessions' = [sessions EXCEPT ![s].log = rows]
                  /\ \E row : rows = Append(log, row)
  BY <1>0 DEF AppendEvent, Appended
<1>4. Begins(log, rows)
  <2>1. PICK row : rows = Append(log, row)
    BY <1>3
  <2>2. Len(rows) = Len(log) + 1 /\ \A i \in 1 .. Len(log) : rows[i] = log[i]
    <3> DEFINE any == Rows \cup {row}
    <3>1. log \in Seq(any) /\ row \in any
      BY <1>2, SeqDef
    <3> HIDE DEF any
    <3> QED
      BY <2>1, <3>1
  <2> QED
    BY <1>2, <2>2 DEF Begins
<1>5. sessions \in [SessionIds -> SessionRecords \cup {Gone}]
  BY DEF DelegationTypeOK
<1>6. sessions'[s].log = rows /\ \A t \in SessionIds : t # s => sessions'[t] = sessions[t]
  BY <1>2, <1>3, <1>5 DEF SessionRecords
<1>7. GrownOrNew(s)
  BY <1>0, <1>1, <1>4, <1>6 DEF GrownOrNew
<1> QED
  BY <1>1, <1>6, <1>7, Untouched

LEMMA OneMadeGrows ==
  ASSUME DelegationTypeOK, NEW s \in SessionIds, s = drawn + 1,
         \A t \in SessionIds \ {s} : sessions'[t] = sessions[t] \/ GrownOrNew(t)
  PROVE  \A t \in SessionIds : GrownOrNew(t)
<1>1. s > drawn
  BY DelegationAssumption DEF DelegationTypeOK, SessionIds
<1>2. GrownOrNew(s)
  BY <1>1 DEF GrownOrNew
<1> QED
  BY <1>2, Untouched

LEMMA SpawnAgentGrows ==
  ASSUME DelegationTypeOK, DelegationInv, NEW s \in SessionIds, NEW c \in SessionIds,
         NEW owner \in SessionIds \cup {NoParent}, SpawnAgent(s, c, owner)
  PROVE  files' = files /\ \A t \in SessionIds : GrownOrNew(t)
<1>1. s \in Live /\ c = drawn + 1 /\ files' = files
  BY DEF SpawnAgent, Draw
<1>0. PICK log, header : log = sessions[s].log /\ header = Header(sessions[s])
  OBVIOUS
<1>2. sessions[s] \in SessionRecords /\ log \in Seq(Rows) /\ c \in Nat
  BY <1>0, <1>1, LiveRecords DEF SessionRecords, SessionIds
<1>3. s # c
  <2>1. Known(s, header, log)
    BY <1>0, <1>1 DEF Known
  <2>2. s <= drawn
    BY <2>1, KnownIds
  <2> QED
    BY <1>1, <2>2, DelegationAssumption DEF DelegationTypeOK, SessionIds
<1>10. PICK task \in Payloads :
         \E child : \E after \in {log, Appended(log, "agent_spawn", c, task),
                                  Appended(Appended(log, "agent_spawn", c, task), "message", 0, "canonical")} :
           sessions' = [sessions EXCEPT ![c] = child, ![s].log = after,
                                        ![s].latched = Len(after) < Len(log) + 2]
  <2>1. PICK task \in Allowed(TextPayloads) :
          \E child : \E after \in {sessions[s].log, Appended(sessions[s].log, "agent_spawn", c, task),
                                   Appended(Appended(sessions[s].log, "agent_spawn", c, task),
                                            "message", 0, "canonical")} :
            sessions' = [sessions EXCEPT ![c] = child, ![s].log = after,
                                         ![s].latched = Len(after) < Len(sessions[s].log) + 2]
    BY Zenon DEF SpawnAgent
  <2>2. task \in Payloads
    BY <2>1, PayloadTypes
  <2> QED
    BY <1>0, <2>1, <2>2
<1>11. PICK child :
         \E after \in {log, Appended(log, "agent_spawn", c, task),
                       Appended(Appended(log, "agent_spawn", c, task), "message", 0, "canonical")} :
           sessions' = [sessions EXCEPT ![c] = child, ![s].log = after,
                                        ![s].latched = Len(after) < Len(log) + 2]
  BY <1>10
<1>4. PICK after \in {log, Appended(log, "agent_spawn", c, task),
                      Appended(Appended(log, "agent_spawn", c, task), "message", 0, "canonical")} :
        sessions' = [sessions EXCEPT ![c] = child, ![s].log = after,
                                     ![s].latched = Len(after) < Len(log) + 2]
  BY <1>11
<1>5. Begins(log, after)
  BY <1>2, <1>4, SpawnedLog
<1>6. sessions \in [SessionIds -> SessionRecords \cup {Gone}]
  BY DEF DelegationTypeOK
<1>7. /\ sessions'[s].log = after
      /\ \A t \in SessionIds \ {s, c} : sessions'[t] = sessions[t]
  <2> DEFINE latched == Len(after) < Len(log) + 2
  <2>1. sessions' = [sessions EXCEPT ![c] = child, ![s].log = after, ![s].latched = latched]
    BY <1>4
  <2> HIDE DEF latched
  <2> QED
    BY <1>2, <1>3, <1>6, <2>1 DEF SessionRecords
<1>8. GrownOrNew(s)
  BY <1>0, <1>1, <1>5, <1>7 DEF GrownOrNew
<1>9. \A t \in SessionIds \ {c} : sessions'[t] = sessions[t] \/ GrownOrNew(t)
  BY <1>7, <1>8
<1> QED
  BY <1>1, <1>9, OneMadeGrows

(* A step that writes one file, of a session that stays as it is or is gone. *)
FileFits(t) ==
  \A h \in Headers, rows \in Seq(Rows) : Holds(files'[t], h, rows) =>
    Plain(rows) /\ (t \in Live' => CopyOf(rows, sessions[t].log))

LEMMA OneRewritten ==
  ASSUME DelegationTypeOK, FilesAreWritten, NEW s \in SessionIds, FileFits(s),
         \A t \in SessionIds : t # s => files'[t] = files[t],
         \A t \in Live' : t \in Live /\ sessions'[t] = sessions[t]
  PROVE  FilesAreWritten'
<1>1. ASSUME NEW t \in SessionIds, NEW h \in Headers, NEW rows \in Seq(Rows), Holds(files'[t], h, rows)
      PROVE  Plain(rows) /\ (t \in Live' => CopyOf(rows, sessions'[t].log))
  <2>1. CASE t = s
    BY <1>1, <2>1 DEF FileFits
  <2>2. CASE t # s
    BY <1>1, <2>2 DEF FilesAreWritten
  <2> QED
    BY <2>1, <2>2
<1> QED
  BY <1>1 DEF FilesAreWritten, Plain, CopyOf, Holds

(* The first rows of what a save writes. *)
LEMMA WrittenAreCopies ==
  ASSUME NEW log \in Seq(Rows), NEW k \in 0 .. Len(RowLines(log)),
         NEW rows, rows = SubSeq(RowLines(log), 1, k)
  PROVE  rows \in Seq(Rows) /\ Plain(rows) /\ CopyOf(rows, log)
<1>1. PICK written : written = RowLines(log)
  OBVIOUS
<1>2. /\ written \in Seq(Rows) /\ Len(written) <= Len(log)
      /\ \A i \in 1 .. Len(written) : i \in 1 .. Len(log) /\ written[i] = AsWritten(log[i])
  BY <1>1, WrittenFacts DEF Follows
<1>3. /\ rows \in Seq(Rows) /\ Len(rows) = k /\ k \in Nat /\ k <= Len(written)
      /\ \A i \in 1 .. k : i \in 1 .. Len(written) /\ rows[i] = written[i]
  BY <1>1, <1>2, PrefixFacts
<1>4. \A i \in 1 .. k : rows[i] = AsWritten(log[i]) /\ log[i] \in Rows
  BY <1>2, <1>3
<1>5. k <= Len(log)
  BY <1>2, <1>3
<1> QED
  BY <1>3, <1>4, <1>5, AsWrittenFacts DEF Plain, CopyOf

LEMMA SaveWrites ==
  ASSUME DelegationTypeOK, DelegationInv, FilesAreWritten, NEW s \in SessionIds, Save(s)
  PROVE  FilesAreWritten'
<1>1. /\ s \in Live /\ sessions' = sessions
      /\ files' = [files EXCEPT ![s] = [lines |-> Lines(sessions[s]), torn |-> FALSE]]
  BY DEF Save
<1>2. PICK log, header, written : /\ log = sessions[s].log /\ header = Header(sessions[s])
                                  /\ written = RowLines(log)
  OBVIOUS
<1>3. header \in Headers /\ log \in Seq(Rows)
  BY <1>1, <1>2, LiveRecords DEF SessionRecords
<1>4. written \in Seq(Rows) /\ Plain(written) /\ CopyOf(written, log)
  <2>1. written \in Seq(Rows)
    BY <1>2, <1>3, WrittenFacts
  <2>2. written = SubSeq(written, 1, Len(written)) /\ Len(written) \in 0 .. Len(written)
    BY <2>1
  <2> QED
    BY <1>2, <1>3, <2>2, WrittenAreCopies
<1>5. /\ Holds(files'[s], header, written)
      /\ \A t \in SessionIds : t # s => files'[t] = files[t]
  BY <1>1, <1>2 DEF DelegationTypeOK, FilesOK, Lines, Holds
<1>6. FileFits(s)
  <2>1. ASSUME NEW h \in Headers, NEW rows \in Seq(Rows), Holds(files'[s], h, rows)
        PROVE  rows = written
    BY <1>3, <1>4, <1>5, <2>1, HoldsNoOther
  <2> QED
    BY <1>2, <1>4, <2>1 DEF FileFits
<1>7. Live' = Live
  BY <1>1 DEF Live
<1> QED
  BY <1>1, <1>5, <1>6, <1>7, OneRewritten

LEMMA DieWrites ==
  ASSUME DelegationTypeOK, DelegationInv, FilesAreWritten, Die
  PROVE  FilesAreWritten'
<1>1. Live' = {}
  BY DEF Die, Live
<1>2. CASE files' = files
  BY <1>1, <1>2 DEF FilesAreWritten, Plain, Holds
<1>3. CASE files' # files
  <2>0. PICK s \in Live : \E k \in 0 .. Len(RowLines(sessions[s].log)), torn \in BOOLEAN :
          files' = [files EXCEPT ![s] = [lines |-> SubSeq(Lines(sessions[s]), 1, k), torn |-> torn]]
    BY <1>3 DEF Die
  <2>1. PICK k \in 0 .. Len(RowLines(sessions[s].log)), torn \in BOOLEAN :
          files' = [files EXCEPT ![s] = [lines |-> SubSeq(Lines(sessions[s]), 1, k), torn |-> torn]]
    BY <2>0
  <2>2. PICK log, written, header : /\ log = sessions[s].log /\ header = Header(sessions[s])
                                    /\ written = RowLines(log)
    OBVIOUS
  <2>3. s \in SessionIds /\ log \in Seq(Rows) /\ header \in Headers /\ written \in Seq(Rows)
    BY <2>2, LiveRecords, WrittenFacts DEF SessionRecords
  <2>4. /\ files'[s].lines = SubSeq(<<header>> \o written, 1, k)
        /\ \A t \in SessionIds : t # s => files'[t] = files[t]
    BY <2>1, <2>2, <2>3 DEF DelegationTypeOK, FilesOK, Lines
  <2>5. Len(written) \in Nat /\ k \in 0 .. Len(written)
    BY <2>2, <2>3
  <2>6. FileFits(s)
    <3> SUFFICES ASSUME NEW h \in Headers, NEW rows \in Seq(Rows), Holds(files'[s], h, rows)
                 PROVE  Plain(rows)
      BY <1>1 DEF FileFits
    <3>1. CASE k = 0
      <4>1. SubSeq(<<header>> \o written, 1, 0) = <<>>
        BY <2>3, CutToNothing
      <4>2. files'[s].lines = <<>>
        BY <2>4, <3>1, <4>1
      <4> QED
        BY <4>2, HoldsOne
    <3>2. CASE k # 0
      <4>1. k \in 1 .. Len(written) + 1 /\ k - 1 \in 0 .. Len(written)
        BY <2>5, <3>2
      <4>2. PICK rest : rest = SubSeq(written, 1, k - 1)
        OBVIOUS
      <4>3. rest \in Seq(Rows) /\ SubSeq(<<header>> \o written, 1, k) = <<header>> \o rest
        BY <2>3, <4>1, <4>2, LinesCut
      <4>4. Holds(files'[s], header, rest)
        BY <2>4, <4>3 DEF Holds
      <4>5. rows = rest
        BY <2>3, <4>3, <4>4, HoldsNoOther
      <4> QED
        BY <2>2, <2>3, <4>1, <4>2, <4>5, WrittenAreCopies
    <3> QED
      BY <3>1, <3>2
  <2> QED
    BY <1>1, <2>3, <2>4, <2>6, OneRewritten
<1> QED
  BY <1>2, <1>3

LEMMA LoadGrows ==
  ASSUME DelegationTypeOK, NEW s \in SessionIds, LoadSession(s)
  PROVE  files' = files /\ \A t \in SessionIds : GrownOrNew(t)
<1>1. /\ files[s].lines # <<>> /\ files' = files
      /\ sessions' = [sessions EXCEPT ![s] = Loaded(files[s])]
  BY DEF LoadSession, Loadable
<1>2. PICK header \in Headers, rows \in Seq(Rows) : Holds(files[s], header, rows)
  BY <1>1 DEF DelegationTypeOK, FilesOK
<1>3. Loaded(files[s]).log = rows
  BY <1>2, LoadedFacts
<1>4. sessions'[s].log = rows /\ \A t \in SessionIds : t # s => sessions'[t] = sessions[t]
  BY <1>1, <1>3 DEF DelegationTypeOK
<1>5. GrownOrNew(s)
  BY <1>2, <1>4 DEF GrownOrNew
<1> QED
  BY <1>1, <1>4, <1>5, Untouched

LEMMA MadeGrows ==
  ASSUME DelegationTypeOK, NEW s \in SessionIds, NEW t \in SessionIds, CreateSession(s) \/ Fork(t, s)
  PROVE  files' = files /\ \A u \in SessionIds : GrownOrNew(u)
<1>1. s = drawn + 1 /\ files' = files /\ \E p : sessions' = [sessions EXCEPT ![s] = p]
  BY DEF CreateSession, Fork, Draw
<1>2. \A u \in SessionIds \ {s} : sessions'[u] = sessions[u]
  BY <1>1 DEF DelegationTypeOK
<1> QED
  BY <1>1, <1>2, OneMadeGrows

LEMMA FilesStayWritten ==
  ASSUME DelegationTypeOK, DelegationInv, DelegationTypeOK', FilesAreWritten,
         [DelegationNext]_delegationVars
  PROVE  FilesAreWritten'
<1>1. CASE Die
  BY <1>1, DieWrites
<1>2. ASSUME NEW s \in SessionIds, CreateSession(s)
      PROVE  FilesAreWritten'
  BY <1>2, MadeGrows, FilesKept
<1>3. ASSUME NEW s \in SessionIds, AppendEvent(s)
      PROVE  FilesAreWritten'
  BY <1>3, AppendEventGrows, FilesKept
<1>4. ASSUME NEW s \in SessionIds, Save(s)
      PROVE  FilesAreWritten'
  BY <1>4, SaveWrites
<1>5. ASSUME NEW s \in SessionIds, LoadSession(s)
      PROVE  FilesAreWritten'
  BY <1>5, LoadGrows, FilesKept
<1>6. ASSUME NEW s \in SessionIds, NEW t \in SessionIds,
             NEW owner \in SessionIds \cup {NoParent}, SpawnAgent(s, t, owner)
      PROVE  FilesAreWritten'
  BY <1>6, SpawnAgentGrows, FilesKept
<1>7. ASSUME NEW s \in SessionIds, NEW t \in SessionIds, Fork(s, t)
      PROVE  FilesAreWritten'
  BY <1>7, MadeGrows, FilesKept
<1>8. CASE UNCHANGED delegationVars
  <2>1. sessions' = sessions /\ files' = files
    BY <1>8 DEF delegationVars
  <2> QED
    BY <2>1, FilesKept, Untouched
<1> QED
  BY <1>1, <1>2, <1>3, <1>4, <1>5, <1>6, <1>7, <1>8 DEF DelegationNext

(* Whatever an odd payload is, it is what VerifySessionPortable finds. *)
LEMMA PlainIsPortable ==
  ASSUME NEW p \in SessionRecords, Dense(p.log)
  PROVE  Portable(p) <=> Plain(p.log)
<1> DEFINE file == [lines |-> Lines(p), torn |-> FALSE]
           header == Header(p)
           log == p.log
           written == RowLines(p.log)
<1>1. header \in Headers /\ log \in Seq(Rows)
  BY DEF SessionRecords, Header, Headers
<1>2. Holds(file, header, written) /\ ~file.torn
  BY DEF Holds, Lines
<1>3. /\ Portable(p) <=> /\ \A i \in DOMAIN log : Hashed(log[i])
                        /\ Loadable(file) /\ Loaded(file).log = log
  BY DEF Portable
<1>4. /\ written \in Seq(Rows)
      /\ \A i \in 1 .. Len(written) : i \in 1 .. Len(log) /\ written[i] = AsWritten(log[i])
      /\ (\A i \in DOMAIN log : log[i].payload # "NaN") => Len(written) = Len(log)
  BY <1>1, WrittenFacts
<1> HIDE DEF file, header, written, log
<1>5. Loaded(file).log = written
  BY <1>1, <1>2, <1>4, LoadedFacts
<1>6. Tail(file.lines) = written /\ Len(file.lines) > 0
  <2>1. Tail(file.lines) = written /\ Len(file.lines) = Len(written) + 1 /\ Len(written) \in Nat
    BY <1>1, <1>2, <1>4, HoldsOne
  <2> QED
    BY <2>1
<1>7. ASSUME Plain(log)
      PROVE  Portable(p)
  <2>1. \A i \in DOMAIN log : log[i].payload = "canonical" /\ log[i] \in Rows
    BY <1>1, <1>7 DEF Plain
  <2>2. Len(written) = Len(log)
    BY <1>4, <2>1
  <2>3. \A i \in 1 .. Len(log) : written[i] = log[i]
    BY <1>1, <1>4, <2>1, <2>2, AsWrittenFacts
  <2>4. written = log
    BY <1>1, <1>4, <2>2, <2>3, SeqEqual
  <2>5. Dense(log)
    BY DEF log
  <2>6. Loadable(file)
    BY <1>2, <1>6, <2>4, <2>5 DEF Loadable
  <2> QED
    BY <1>3, <1>5, <2>1, <2>4, <2>6 DEF Hashed
<1>8. ASSUME Portable(p)
      PROVE  Plain(log)
  <2>1. written = log
    BY <1>3, <1>5, <1>8
  <2>2. \A i \in 1 .. Len(log) : log[i] \in Rows /\ log[i] = AsWritten(log[i])
    BY <1>1, <1>4, <2>1
  <2> QED
    BY <2>2, AsWrittenFacts DEF Plain
<1> QED
  BY <1>7, <1>8 DEF log

(* Only a payload keeps a session in memory from being portable; what a file *)
(* loads as is portable, though the save was cut off or gave up halfway, and *)
(* is the first events of the session in memory, as written.               *)
THEOREM FilesArePortable == DelegationSpec => []SavedIsPortable
<1>1. DelegationInit => FilesAreWritten
  <2> SUFFICES ASSUME DelegationInit
               PROVE  FilesAreWritten
    OBVIOUS
  <2>1. \A s \in SessionIds : files[s].lines = <<>>
    BY DEF DelegationInit, NoFile
  <2> QED
    BY <2>1, HoldsOne DEF FilesAreWritten
<1>2. DelegationTypeOK /\ DelegationInv /\ DelegationTypeOK' /\ FilesAreWritten
        /\ [DelegationNext]_delegationVars => FilesAreWritten'
  <2> SUFFICES ASSUME DelegationTypeOK, DelegationInv, DelegationTypeOK', FilesAreWritten,
                      [DelegationNext]_delegationVars
               PROVE  FilesAreWritten'
    OBVIOUS
  <2> QED
    BY FilesStayWritten
<1>3. DelegationTypeOK /\ DelegationInv /\ FilesAreWritten => SavedIsPortable
  <2> SUFFICES ASSUME DelegationTypeOK, DelegationInv, FilesAreWritten, NEW s \in SessionIds
               PROVE  /\ s \in Live => (Portable(sessions[s]) <=>
                             \A i \in DOMAIN sessions[s].log : sessions[s].log[i].payload = "canonical")
                      /\ Loadable(files[s]) => Portable(Loaded(files[s]))
                      /\ s \in Live /\ Loadable(files[s]) =>
                           CopyOf(Loaded(files[s]).log, sessions[s].log)
                           /\ DOMAIN Loaded(files[s]).log = 1 .. Len(Loaded(files[s]).log)
    BY DEF SavedIsPortable, CopyOf
  <2>1. ASSUME s \in Live
        PROVE  Portable(sessions[s]) <=>
                 \A i \in DOMAIN sessions[s].log : sessions[s].log[i].payload = "canonical"
    <3>1. Known(s, Header(sessions[s]), sessions[s].log)
      BY <2>1 DEF Known
    <3>2. Dense(sessions[s].log)
      BY <3>1 DEF DelegationInv, KnownIsSound, Sound
    <3>3. sessions[s] \in SessionRecords
      BY <2>1, LiveRecords
    <3>4. Portable(sessions[s]) <=> Plain(sessions[s].log)
      BY <3>2, <3>3, PlainIsPortable
    <3>5. DOMAIN sessions[s].log = 1 .. Len(sessions[s].log)
      BY <3>3 DEF SessionRecords
    <3> QED
      BY <3>4, <3>5 DEF Plain
  <2>2. ASSUME Loadable(files[s])
        PROVE  /\ Portable(Loaded(files[s]))
               /\ s \in Live => CopyOf(Loaded(files[s]).log, sessions[s].log)
               /\ DOMAIN Loaded(files[s]).log = 1 .. Len(Loaded(files[s]).log)
    <3>1. files[s].lines # <<>>
      BY <2>2 DEF Loadable
    <3>2. PICK h \in Headers, rows \in Seq(Rows) : Holds(files[s], h, rows)
      BY <3>1 DEF DelegationTypeOK, FilesOK
    <3>3. PICK p : p = Loaded(files[s]) /\ p \in SessionRecords /\ p.log = rows
      BY <3>2, LoadedFacts
    <3>4. Tail(files[s].lines) = rows
      BY <3>2, HoldsOne
    <3>5. Dense(rows)
      BY <2>2, <3>4 DEF Loadable
    <3>6. Plain(rows) /\ (s \in Live => CopyOf(rows, sessions[s].log))
      BY <3>2 DEF FilesAreWritten
    <3>7. Portable(p)
      BY <3>3, <3>5, <3>6, PlainIsPortable
    <3> QED
      BY <3>2, <3>3, <3>6, <3>7
  <2> QED
    BY <2>1, <2>2
<1>4. DelegationSpec => []FilesAreWritten
  BY <1>1, <1>2, SessionsAreSound, PTL DEF DelegationSpec
<1> QED
  BY <1>3, <1>4, SessionsAreSound, PTL

-----------------------------------------------------------------------------
(* What is met on the way down.  A set of numbers that is not empty has a    *)
(* least member: what is false of a step down is false of a first one.      *)
LEMMA LeastNatural ==
  ASSUME NEW T \in SUBSET Nat, NEW t \in T
  PROVE  \E x \in T : \A y \in T : x <= y
<1> DEFINE R == StrictSubsetOrdering(0 .. t)
           Segments == {0 .. x : x \in {y \in T : y <= t}}
<1>1. IsWellFoundedOn(R, SUBSET (0 .. t))
  <2>1. IsFiniteSet(0 .. t)
    BY FS_Interval
  <2>2. FiniteSubsetsOf(0 .. t) = SUBSET (0 .. t)
    BY <2>1, FS_FiniteSubsetsOfFinite
  <2> QED
    BY <2>2, FS_StrictSubsetOrderingWellFounded
<1>2. Segments \subseteq SUBSET (0 .. t) /\ 0 .. t \in Segments
  OBVIOUS
<1> HIDE DEF R
<1>3. \E s \in Segments : \A r \in Segments : <<r, s>> \notin R
  BY <1>1, <1>2, WFMin
<1>4. PICK x \in T : x <= t /\ \A r \in Segments : <<r, 0 .. x>> \notin R
  BY <1>3
<1>5. ASSUME NEW y \in T, y < x
      PROVE  FALSE
  <2>1. 0 .. y \in Segments /\ 0 .. x \in Segments
    BY <1>4, <1>5
  <2>2. 0 .. y \subseteq 0 .. x /\ 0 .. y # 0 .. x
    BY <1>5
  <2>3. <<0 .. y, 0 .. x>> \in R
    BY <1>2, <2>1, <2>2 DEF R, StrictSubsetOrdering
  <2> QED
    BY <1>4, <2>1, <2>3
<1> QED
  BY <1>5

More(S) == S \cup UNION {ChildrenOf(s) : s \in S}

IsDown(d, from, m) ==
  d = [n \in 0 .. m |-> IF n = 0 THEN from ELSE More(d[n - 1])]

LEMMA DownExists == ASSUME NEW from, NEW m \in Nat PROVE \E d : IsDown(d, from, m)
<1> DEFINE T == {n \in Nat : ~ \E d : IsDown(d, from, n)}
<1> SUFFICES ASSUME T # {} PROVE FALSE
  OBVIOUS
<1>1. PICK n \in T : \A k \in T : n <= k
  <2>1. PICK t \in T : TRUE
    OBVIOUS
  <2>2. T \in SUBSET Nat
    OBVIOUS
  <2> HIDE DEF T
  <2> QED
    BY <2>1, <2>2, LeastNatural
<1>2. n \in Nat /\ ~ \E d : IsDown(d, from, n)
  OBVIOUS
<1>3. CASE n = 0
  <2> DEFINE d == [i \in 0 .. 0 |-> from]
  <2>1. d = [i \in 0 .. 0 |-> IF i = 0 THEN from ELSE More(d[i - 1])]
    OBVIOUS
  <2> QED
    BY <1>2, <1>3, <2>1 DEF IsDown
<1>4. CASE n # 0
  <2>1. n - 1 \in Nat /\ ~(n <= n - 1)
    BY <1>2, <1>4
  <2>2. n - 1 \notin T
    BY <1>1, <2>1
  <2>3. PICK d : IsDown(d, from, n - 1)
    BY <2>1, <2>2
  <2> DEFINE e == [i \in 0 .. n |-> IF i = n THEN More(d[n - 1]) ELSE d[i]]
  <2>4. ASSUME NEW i \in 0 .. n
        PROVE  e[i] = IF i = 0 THEN from ELSE More(e[i - 1])
    <3>1. CASE i = n
      <4>1. i # 0 /\ n - 1 \in 0 .. n /\ n - 1 # n
        BY <1>2, <1>4, <3>1
      <4>2. e[n - 1] = d[n - 1] /\ e[n] = More(d[n - 1])
        BY <1>2, <4>1
      <4> QED
        BY <3>1, <4>1, <4>2
    <3>2. CASE i # n
      <4>1. i \in 0 .. n - 1 /\ (i # 0 => i - 1 \in 0 .. n /\ i - 1 # n)
        BY <1>2, <3>2
      <4>2. d[i] = IF i = 0 THEN from ELSE More(d[i - 1])
        BY <2>3, <4>1 DEF IsDown
      <4>3. e[i] = d[i] /\ (i # 0 => e[i - 1] = d[i - 1])
        BY <3>2, <4>1
      <4> QED
        BY <4>2, <4>3
    <3> QED
      BY <3>1, <3>2
  <2>5. e = [i \in 0 .. n |-> IF i = 0 THEN from ELSE More(e[i - 1])]
    <3>1. DOMAIN e = 0 .. n /\ e = [i \in 0 .. n |-> e[i]]
      OBVIOUS
    <3> HIDE DEF e
    <3> QED
      BY <2>4, <3>1
  <2> HIDE DEF e
  <2> QED
    BY <1>2, <2>5 DEF IsDown
<1> QED
  BY <1>3, <1>4

LEMMA DownIs ==
  ASSUME NEW from
  PROVE  \E d : /\ d[0] = from /\ Below(from) = d[MaxSessions]
                /\ \A n \in 1 .. MaxSessions : d[n] = More(d[n - 1])
<1>1. MaxSessions \in Nat
  BY DelegationAssumption
<1> DEFINE down == CHOOSE d : IsDown(d, from, MaxSessions)
<1>2. IsDown(down, from, MaxSessions)
  BY <1>1, DownExists
<1>3. Below(from) = down[MaxSessions]
  BY DEF Below, IsDown, More
<1> HIDE DEF down
<1>4. 0 \in 0 .. MaxSessions /\ \A n \in 1 .. MaxSessions : n \in 0 .. MaxSessions /\ n # 0
  BY <1>1
<1> QED
  BY <1>2, <1>3, <1>4 DEF IsDown

(* Whatever holds the first sessions and the children of each it holds.     *)
LEMMA BelowWithin ==
  ASSUME NEW from, NEW Q, from \subseteq Q, \A q \in Q : ChildrenOf(q) \subseteq Q
  PROVE  from \subseteq Below(from) /\ Below(from) \subseteq Q
<1>1. MaxSessions \in Nat
  BY DelegationAssumption
<1>2. PICK d : /\ d[0] = from /\ Below(from) = d[MaxSessions]
               /\ \A n \in 1 .. MaxSessions : d[n] = More(d[n - 1])
  BY DownIs
<1> DEFINE T == {n \in 0 .. MaxSessions : ~(from \subseteq d[n] /\ d[n] \subseteq Q)}
<1>3. T = {}
  <2> SUFFICES ASSUME T # {} PROVE FALSE
    OBVIOUS
  <2>1. PICK n \in T : \A k \in T : n <= k
    <3>1. PICK t \in T : TRUE
      OBVIOUS
    <3>2. T \in SUBSET Nat
      OBVIOUS
    <3> HIDE DEF T
    <3> QED
      BY <3>1, <3>2, LeastNatural
  <2>2. n \in 0 .. MaxSessions /\ n # 0
    BY <1>2
  <2>3. n \in 1 .. MaxSessions /\ n - 1 \in 0 .. MaxSessions /\ ~(n <= n - 1)
    BY <1>1, <2>2
  <2>4. from \subseteq d[n - 1] /\ d[n - 1] \subseteq Q
    BY <2>1, <2>3
  <2>5. d[n] = More(d[n - 1])
    BY <1>2, <2>3
  <2>6. from \subseteq d[n] /\ d[n] \subseteq Q
    BY <2>4, <2>5 DEF More
  <2> QED
    BY <2>6
<1>4. MaxSessions \in 0 .. MaxSessions
  BY <1>1
<1> QED
  BY <1>2, <1>3, <1>4

(* When children are younger, the way down is long enough.                  *)
LEMMA BelowIsClosed ==
  ASSUME NEW from, from \subseteq SessionIds,
         \A q \in SessionIds : ChildrenOf(q) \subseteq SessionIds,
         \A p \in Below(from) : \A c \in ChildrenOf(p) : c > p
  PROVE  \A p \in Below(from) : ChildrenOf(p) \subseteq Below(from)
<1>1. MaxSessions \in Nat
  BY DelegationAssumption
<1>2. PICK d : /\ d[0] = from /\ Below(from) = d[MaxSessions]
               /\ \A n \in 1 .. MaxSessions : d[n] = More(d[n - 1])
  BY DownIs
<1>3. ASSUME NEW n \in 0 .. MaxSessions
      PROVE  d[n] \subseteq Below(from)
  <2> DEFINE T == {k \in Nat : k <= MaxSessions /\ ~(d[MaxSessions - k] \subseteq Below(from))}
  <2>1. T = {}
    <3> SUFFICES ASSUME T # {} PROVE FALSE
      OBVIOUS
    <3>1. PICK k \in T : \A j \in T : k <= j
      <4>1. PICK t \in T : TRUE
        OBVIOUS
      <4>2. T \in SUBSET Nat
        OBVIOUS
      <4> HIDE DEF T
      <4> QED
        BY <4>1, <4>2, LeastNatural
    <3>2. k \in Nat /\ k <= MaxSessions /\ ~(d[MaxSessions - k] \subseteq Below(from))
      OBVIOUS
    <3>3. k # 0
      <4>1. MaxSessions - 0 = MaxSessions
        BY <1>1
      <4> QED
        BY <1>2, <3>2, <4>1
    <3>4. /\ k - 1 \in Nat /\ k - 1 <= MaxSessions /\ ~(k <= k - 1)
          /\ MaxSessions - (k - 1) \in 1 .. MaxSessions
          /\ (MaxSessions - (k - 1)) - 1 = MaxSessions - k
      BY <1>1, <3>2, <3>3
    <3>5. d[MaxSessions - (k - 1)] \subseteq Below(from)
      BY <3>1, <3>4
    <3>6. d[MaxSessions - (k - 1)] = More(d[MaxSessions - k])
      BY <1>2, <3>4
    <3> QED
      BY <3>2, <3>5, <3>6 DEF More
  <2>2. MaxSessions - n \in Nat /\ MaxSessions - n <= MaxSessions /\ MaxSessions - (MaxSessions - n) = n
    BY <1>1
  <2> QED
    BY <2>1, <2>2
<1>4. Below(from) \subseteq SessionIds
  BY BelowWithin
<1> DEFINE T == {n \in 0 .. MaxSessions : \E p \in d[n] : p <= n /\ ~(ChildrenOf(p) \subseteq d[n])}
<1>5. T = {}
  <2> SUFFICES ASSUME T # {} PROVE FALSE
    OBVIOUS
  <2>1. PICK n \in T : \A k \in T : n <= k
    <3>1. PICK t \in T : TRUE
      OBVIOUS
    <3>2. T \in SUBSET Nat
      OBVIOUS
    <3> HIDE DEF T
    <3> QED
      BY <3>1, <3>2, LeastNatural
  <2>2. PICK p \in d[n] : p <= n /\ ~(ChildrenOf(p) \subseteq d[n])
    OBVIOUS
  <2>3. n \in 0 .. MaxSessions
    OBVIOUS
  <2>4. p \in SessionIds /\ p \in Nat /\ p >= 1
    BY <1>3, <1>4, <2>2, <2>3 DEF SessionIds
  <2>5. n \in 1 .. MaxSessions /\ n - 1 \in 0 .. MaxSessions /\ ~(n <= n - 1)
    BY <1>1, <2>2, <2>3, <2>4
  <2>6. d[n] = More(d[n - 1])
    BY <1>2, <2>5
  <2>7. p \notin d[n - 1]
    BY <2>2, <2>6 DEF More
  <2>8. PICK q \in d[n - 1] : p \in ChildrenOf(q)
    BY <2>2, <2>6, <2>7 DEF More
  <2>9. q \in Below(from) /\ q \in SessionIds /\ q \in Nat /\ p > q
    BY <1>3, <1>4, <2>5, <2>8 DEF SessionIds
  <2>10. q <= n - 1
    BY <2>2, <2>3, <2>4, <2>9
  <2>11. n - 1 \notin T
    BY <2>1, <2>5
  <2>12. ChildrenOf(q) \subseteq d[n - 1]
    BY <2>5, <2>8, <2>10, <2>11
  <2> QED
    BY <2>7, <2>8, <2>12
<1>6. MaxSessions \in 0 .. MaxSessions /\ \A p \in SessionIds : p <= MaxSessions
  BY <1>1 DEF SessionIds
<1>7. \A p \in d[MaxSessions] : p <= MaxSessions => ChildrenOf(p) \subseteq d[MaxSessions]
  BY <1>5, <1>6
<1> HIDE DEF T
<1> QED
  BY <1>2, <1>4, <1>6, <1>7

-----------------------------------------------------------------------------
(* What a session resolves to is known of it. *)
LEMMA ResolvedIsKnown ==
  ASSUME DelegationTypeOK, DelegationInv, NEW p \in SessionIds, Resolves(p)
  PROVE  \E h, rows : /\ Known(p, h, rows) /\ Sound(p, h, rows)
                      /\ Resolved(p).id = p /\ Resolved(p).log = rows
                      /\ Resolved(p).parent = h.parent /\ Resolved(p).spawn = h.spawn
<1>1. CASE p \in Live
  <2> DEFINE h == Header(sessions[p])
             rows == sessions[p].log
  <2>1. Known(p, h, rows)
    BY <1>1 DEF Known
  <2>2. Sound(p, h, rows)
    BY <2>1 DEF DelegationInv, KnownIsSound
  <2>3. h.id = sessions[p].id /\ h.parent = sessions[p].parent /\ h.spawn = sessions[p].spawn
    BY DEF Header
  <2>4. Resolved(p) = sessions[p]
    BY <1>1 DEF Resolved
  <2>5. h.id = p
    BY <2>2 DEF Sound
  <2> QED
    BY <2>1, <2>2, <2>3, <2>4, <2>5
<1>2. CASE p \notin Live
  <2>1. files[p].lines # <<>>
    BY <1>2 DEF Resolves, Loadable
  <2>2. PICK h \in Headers, rows \in Seq(Rows) : Holds(files[p], h, rows)
    BY <2>1 DEF DelegationTypeOK, FilesOK
  <2>3. Known(p, h, rows)
    BY <2>2 DEF Known
  <2>4. Sound(p, h, rows)
    BY <2>3 DEF DelegationInv, KnownIsSound
  <2>5. Resolved(p) = Loaded(files[p])
    BY <1>2 DEF Resolved
  <2>6. h.id = p
    BY <2>4 DEF Sound
  <2> QED
    BY <2>2, <2>3, <2>4, <2>5, <2>6, LoadedFacts
<1> QED
  BY <1>1, <1>2

(* A spawn the session made itself is of a younger session, and its link is  *)
(* valid when that session is to be had; one that came with a fork is of an  *)
(* older session, which does not name the fork.                            *)
LEMMA LinkIsOwn ==
  ASSUME DelegationTypeOK, DelegationInv, NEW p \in SessionIds, Resolves(p), NEW e \in Spawns(p)
  PROVE  /\ e.spawn \in SessionIds
         /\ e.seq >= copied[p] => e.spawn > p
         /\ ValidChildLink(p, e.spawn) <=>
              Resolves(e.spawn) /\ e.seq >= copied[p] /\ e.spawn \notin strays
<1>1. PICK h, rows : /\ Known(p, h, rows) /\ Sound(p, h, rows)
                     /\ Resolved(p).id = p /\ Resolved(p).log = rows
  BY ResolvedIsKnown
<1>2. rows \in Seq(Rows)
  BY <1>1, KnownTypes
<1>3. e \in ToSet(rows) /\ IsSpawn(e)
  BY <1>1 DEF Spawns, IsSpawn
<1>4. PICK i \in DOMAIN rows : e = rows[i]
  BY <1>3 DEF ToSet
<1>5. i \in 1 .. Len(rows) /\ i \in Nat
  BY <1>2
<1>6. /\ drawn \in Nat /\ drawn <= MaxSessions /\ MaxSessions \in Nat /\ copied[p] \in Nat /\ p \in Nat
  BY DelegationAssumption DEF DelegationTypeOK, SessionIds
<1>7. /\ e.seq = i - 1 /\ e.spawn \in 1 .. drawn
      /\ i <= copied[p] => e.spawn < p
      /\ i > copied[p] => e.spawn > p
  BY <1>1, <1>3, <1>4, <1>5 DEF Sound, Dense
<1>8. e.seq >= copied[p] <=> i > copied[p]
  BY <1>5, <1>6, <1>7
<1>9. e.spawn \in SessionIds /\ e.spawn \in Nat
  BY <1>6, <1>7 DEF SessionIds
<1>10. CASE i > copied[p]
  <2>1. Own(p, rows, i)
    BY <1>3, <1>4, <1>10 DEF Own
  <2>2. Linked(p, e.spawn)
    BY <1>1, <1>4, <1>5, <2>1 DEF DelegationInv, SpawnsAreLinked
  <2>3. ASSUME Resolves(e.spawn)
        PROVE  /\ Resolved(e.spawn).parent = p <=> e.spawn \notin strays
               /\ Resolved(e.spawn).spawn = e.spawn
    <3> DEFINE c == e.spawn
    <3> HIDE DEF c
    <3>1. c \in SessionIds /\ Resolves(c) /\ Linked(p, c)
      BY <1>9, <2>2, <2>3 DEF c
    <3>2. PICK g, rest : /\ Known(c, g, rest)
                         /\ Resolved(c).parent = g.parent /\ Resolved(c).spawn = g.spawn
      BY <3>1, ResolvedIsKnown
    <3>3. (g.parent = p <=> c \notin strays) /\ g.spawn = c
      BY <3>1, <3>2 DEF Linked
    <3>4. (Resolved(c).parent = p <=> c \notin strays) /\ Resolved(c).spawn = c
      BY <3>2, <3>3
    <3> QED
      BY <3>4 DEF c
  <2>4. ValidChildLink(p, e.spawn) <=> Resolves(e.spawn) /\ e.spawn \notin strays
    BY <1>1, <2>3 DEF ValidChildLink
  <2> QED
    BY <1>7, <1>8, <1>9, <1>10, <2>4
<1>11. CASE ~(i > copied[p])
  <2>1. e.spawn < p
    BY <1>5, <1>6, <1>7, <1>11
  <2>2. ~ValidChildLink(p, e.spawn)
    <3> SUFFICES ASSUME ValidChildLink(p, e.spawn) PROVE FALSE
      OBVIOUS
    <3> DEFINE c == e.spawn
    <3> HIDE DEF c
    <3>1. c \in SessionIds /\ c \in Nat /\ c < p /\ ValidChildLink(p, c)
      BY <1>9, <2>1 DEF c
    <3>2. Resolves(c) /\ Resolved(c).parent = p
      BY <1>1, <3>1 DEF ValidChildLink
    <3>3. PICK g, rest : Known(c, g, rest) /\ Sound(c, g, rest) /\ Resolved(c).parent = g.parent
      BY <3>1, <3>2, ResolvedIsKnown
    <3>4. p < c
      BY <3>2, <3>3 DEF Sound
    <3> QED
      BY <1>6, <3>1, <3>4
  <2> QED
    BY <1>8, <1>9, <1>11, <2>2
<1> QED
  BY <1>10, <1>11

LEMMA ChildrenAreSessions ==
  ASSUME DelegationTypeOK, DelegationInv, NEW p \in SessionIds
  PROVE  ChildrenOf(p) \subseteq SessionIds
BY LinkIsOwn DEF ChildrenOf

(* A session's tree can be read exactly when every session met can be had,   *)
(* made its spawns itself and has no spawn reported twice.                  *)
THEOREM TreesAlwaysResolve == DelegationSpec => []TreesResolve
<1>1. DelegationTypeOK /\ DelegationInv => TreesResolve
  <2> SUFFICES ASSUME DelegationTypeOK, DelegationInv, NEW s \in Live
               PROVE  DelegationTree(s) <=>
                        \A p \in Below({s}) :
                          /\ Resolves(p) /\ OwnSpawns(p)
                          /\ \A e \in Spawns(p) : Cardinality(Results(p, e.spawn)) <= 1
    BY DEF TreesResolve
  <2> DEFINE B == Below({s})
  <2>1. {s} \subseteq SessionIds
    BY DEF Live
  <2>2. \A q \in SessionIds : ChildrenOf(q) \subseteq SessionIds
    BY ChildrenAreSessions
  <2>3. B \subseteq SessionIds
    BY <2>1, <2>2, BelowWithin
  <2>4. ASSUME DelegationTree(s), NEW p \in B
        PROVE  /\ Resolves(p) /\ OwnSpawns(p)
               /\ \A e \in Spawns(p) : Cardinality(Results(p, e.spawn)) <= 1
    <3>1. /\ Resolves(p)
          /\ \A e \in Spawns(p) : ValidChildLink(p, e.spawn) /\ Cardinality(Results(p, e.spawn)) <= 1
      BY <2>4 DEF DelegationTree
    <3>2. p \in SessionIds
      BY <2>3
    <3>3. \A e \in Spawns(p) : e.seq >= copied[p] /\ e.spawn \notin strays
      BY <3>1, <3>2, LinkIsOwn
    <3> QED
      BY <3>1, <3>3 DEF OwnSpawns
  <2>5. ASSUME \A p \in B : /\ Resolves(p) /\ OwnSpawns(p)
                            /\ \A e \in Spawns(p) : Cardinality(Results(p, e.spawn)) <= 1
        PROVE  DelegationTree(s)
    <3>1. ASSUME NEW p \in B
          PROVE  \A c \in ChildrenOf(p) : c > p
      <4>1. Resolves(p) /\ p \in SessionIds /\ \A e \in Spawns(p) : e.seq >= copied[p] /\ e.spawn \notin strays
        BY <2>3, <2>5 DEF OwnSpawns
      <4>2. \A e \in Spawns(p) : e.spawn > p
        BY <4>1, LinkIsOwn
      <4> QED
        BY <4>1, <4>2 DEF ChildrenOf
    <3>2. \A p \in B : ChildrenOf(p) \subseteq B
      BY <2>1, <2>2, <3>1, BelowIsClosed
    <3>3. ASSUME NEW p \in B
          PROVE  /\ Resolves(p) /\ p \notin Below(ChildrenOf(p))
                 /\ \A e \in Spawns(p) :
                      ValidChildLink(p, e.spawn) /\ Cardinality(Results(p, e.spawn)) <= 1
      <4>1. Resolves(p) /\ p \in SessionIds /\ \A e \in Spawns(p) : e.seq >= copied[p] /\ e.spawn \notin strays
        BY <2>3, <2>5 DEF OwnSpawns
      <4>2. ASSUME NEW e \in Spawns(p)
            PROVE  ValidChildLink(p, e.spawn) /\ Cardinality(Results(p, e.spawn)) <= 1
        <5>1. e.spawn \in ChildrenOf(p)
          BY <4>1 DEF ChildrenOf
        <5>2. Resolves(e.spawn)
          BY <2>5, <3>2, <5>1
        <5> QED
          BY <2>5, <4>1, <5>2, LinkIsOwn
      <4>3. p \notin Below(ChildrenOf(p))
        <5> DEFINE Q == {q \in B : q > p}
        <5>1. ChildrenOf(p) \subseteq Q
          BY <3>1, <3>2
        <5>2. ASSUME NEW q \in Q
              PROVE  ChildrenOf(q) \subseteq Q
          <6>1. \A c \in ChildrenOf(q) : c \in B /\ c > q
            BY <3>1, <3>2
          <6>2. q \in Nat /\ p \in Nat /\ q > p /\ \A c \in ChildrenOf(q) : c \in Nat
            BY <2>3, <4>1, <6>1 DEF SessionIds
          <6> QED
            BY <6>1, <6>2
        <5>3. Below(ChildrenOf(p)) \subseteq Q
          <6> HIDE DEF Q
          <6> QED
            BY <5>1, <5>2, BelowWithin
        <5>4. ~(p > p)
          BY <4>1 DEF SessionIds
        <5> QED
          BY <5>3, <5>4
      <4> QED
        BY <4>1, <4>2, <4>3
    <3> QED
      BY <3>3 DEF DelegationTree
  <2> QED
    BY <2>4, <2>5
<1> QED
  BY <1>1, SessionsAreSound, PTL
=============================================================================
