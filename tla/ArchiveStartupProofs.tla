------------------------- MODULE ArchiveStartupProofs -------------------------
(***************************************************************************)
(* Proofs about ArchiveStartup, for any number of instances, of keys made, *)
(* and of starts that end early.                                           *)
(*                                                                         *)
(* What keeps key and archive together is the order in which a start looks *)
(* for an archive, takes the key and opens the database; the schema plays  *)
(* no part in it. What keeps version and schema together is that no two    *)
(* statements of a script create the same thing, that the first of a       *)
(* creation is the table of the version, and that the version comes last.  *)
(* The lemmas about the scripts are of ArchiveSchema alone.                *)
(***************************************************************************)
EXTENDS ArchiveStartup, TLAPS, SequenceTheorems

(* The key that the archive is, or would be, encrypted with: losing the entry
   of the keyring and restoring it leave it as it is. *)
CurrentKey == IF keyring # 0 THEN keyring ELSE lost

Past == {"version", "create", "migrate", "open"}   \* has connected

Holding == Past \cup {"connect"}                   \* has its key

(* A start that found no archive, and has no key yet. *)
MayMakeKey(p) == starts[p].step = "set" \/ (starts[p].step = "key" /\ ~starts[p].exists)

FilesInv ==
  /\ rows # {} => file
  /\ blobs # {} => artifacts
  /\ \A p \in Instances : starts[p].step \in Past => file

LonelyInv ==
  \A p, q \in Instances : IsStarting(p) /\ IsStarting(q) => p = q

KeyInv ==
  /\ \A k \in rows \cup blobs : k = CurrentKey
  /\ \A p \in Instances : starts[p].step \in Holding => starts[p].key = CurrentKey
  /\ \A p \in Instances : MayMakeKey(p) =>
       /\ rows = {} /\ blobs = {}
       /\ \A q \in Instances : starts[q].step # "open"

(* As much of the type of a start as the steps below rely on. *)
Steps == Starting \cup Refused \cup {"ended", "open"}

Record == [step : Steps, exists : BOOLEAN, key : Nat, from : Int, done : Int]

Shape ==
  /\ made \in Nat /\ together \in BOOLEAN /\ keyring \in Nat /\ lost \in Nat
  /\ file \in BOOLEAN /\ artifacts \in BOOLEAN
  /\ starts \in [Instances -> Record]

IInv == Shape /\ FilesInv /\ (~together => LonelyInv /\ KeyInv)

-----------------------------------------------------------------------------
(* What the updates of a start leave as it was. *)
LEMMA EndedIsRecord == Ended \in Record /\ Ended.step = "ended"
<1>1. 0 \in Nat /\ 0 \in Int
  BY SMT
<1>2. FALSE \in BOOLEAN
  BY Zenon
<1>3. "ended" \in Steps
  BY DEF Steps
<1>4. Ended \in Record
  BY <1>1, <1>2, <1>3, Zenon DEF Ended, Record
<1> QED
  BY <1>4, Zenon DEF Ended

LEMMA SetsStep ==
  ASSUME NEW e \in Record, NEW x \in Steps, NEW s, s = [e EXCEPT !.step = x]
  PROVE  s \in Record /\ s.step = x /\ s.key = e.key /\ s.exists = e.exists
BY DEF Record

LEMMA SetsExists ==
  ASSUME NEW e \in Record, NEW b \in BOOLEAN, NEW s, s = [e EXCEPT !.exists = b]
  PROVE  s \in Record /\ s.exists = b /\ s.step = e.step
<1>1. s \in Record
  BY DEF Record
<1>2. s.exists = b /\ s.step = e.step
  BY DEF Record
<1> QED
  BY <1>1, <1>2

LEMMA SetsKey ==
  ASSUME NEW e \in Record, NEW n \in Nat, NEW s, s = [e EXCEPT !.key = n]
  PROVE  s \in Record /\ s.key = n /\ s.step = e.step
BY DEF Record

LEMMA SetsFrom ==
  ASSUME NEW e \in Record, NEW n \in Int, NEW s, s = [e EXCEPT !.from = n]
  PROVE  s \in Record /\ s.key = e.key /\ s.step = e.step
BY DEF Record

LEMMA SetsDone ==
  ASSUME NEW e \in Record, NEW n \in Int, NEW s, s = [e EXCEPT !.done = n]
  PROVE  s \in Record /\ s.key = e.key /\ s.step = e.step
BY DEF Record

LEMMA StepThenExists ==
  ASSUME NEW e, NEW x, NEW b, NEW s, s = [e EXCEPT !.step = x, !.exists = b],
         NEW e1, e1 = [e EXCEPT !.step = x]
  PROVE  s = [e1 EXCEPT !.exists = b]
OBVIOUS

LEMMA StepThenKey ==
  ASSUME NEW e, NEW x, NEW n, NEW s, s = [e EXCEPT !.step = x, !.key = n],
         NEW e1, e1 = [e EXCEPT !.step = x]
  PROVE  s = [e1 EXCEPT !.key = n]
OBVIOUS

LEMMA StepFromDone ==
  ASSUME NEW e, NEW x, NEW v, NEW n, NEW s,
         s = [e EXCEPT !.step = x, !.from = v, !.done = n],
         NEW e1, e1 = [e EXCEPT !.step = x], NEW e2, e2 = [e1 EXCEPT !.from = v]
  PROVE  s = [e2 EXCEPT !.done = n]
OBVIOUS

LEMMA Begun ==
  ASSUME NEW b \in BOOLEAN, NEW s, s = [Ended EXCEPT !.step = "key", !.exists = b]
  PROVE  s \in Record /\ s.step = "key" /\ s.exists = b
<1>1. PICK e : e = [Ended EXCEPT !.step = "key"]
  OBVIOUS
<1>2. s = [e EXCEPT !.exists = b]
  BY <1>1, StepThenExists
<1>3. "key" \in Steps
  BY DEF Steps, Starting
<1>4. e \in Record /\ e.step = "key"
  BY <1>1, <1>3, EndedIsRecord, SetsStep
<1> QED
  BY <1>2, <1>4, SetsExists

LEMMA HasKey ==
  ASSUME NEW e \in Record, NEW n \in Nat, NEW s,
         s = WithKey(e, n)
  PROVE  s \in Record /\ s.step = "connect" /\ s.key = n
<1>1. PICK e1 : e1 = [e EXCEPT !.step = "connect"]
  OBVIOUS
<1>2. s = [e1 EXCEPT !.key = n]
  BY <1>1, StepThenKey DEF WithKey
<1>3. "connect" \in Steps
  BY DEF Steps, Starting
<1>4. e1 \in Record /\ e1.step = "connect"
  BY <1>1, <1>3, SetsStep
<1>5. s \in Record /\ s.key = n /\ s.step = e1.step
  BY <1>2, <1>4, SetsKey
<1> QED
  BY <1>4, <1>5

LEMMA MigratesOrOpens ==
  ASSUME NEW e \in Record, NEW v \in Int, NEW s, s = Migrating(e, v)
  PROVE  s \in Record /\ s.step \in {"open", "migrate"} /\ s.key = e.key
<1>1. PICK x \in {"open", "migrate"} : s = [e EXCEPT !.step = x, !.from = v, !.done = 0]
  BY DEF Migrating
<1>2. PICK e1 : e1 = [e EXCEPT !.step = x]
  OBVIOUS
<1>3. PICK e2 : e2 = [e1 EXCEPT !.from = v]
  OBVIOUS
<1>4. s = [e2 EXCEPT !.done = 0]
  BY <1>1, <1>2, <1>3, StepFromDone
<1>5. x \in Steps /\ 0 \in Int
  BY DEF Steps, Starting
<1>6. e1 \in Record /\ e1.step = x /\ e1.key = e.key
  BY <1>2, <1>5, SetsStep
<1>7. e2 \in Record /\ e2.step = x /\ e2.key = e.key
  BY <1>3, <1>6, SetsFrom
<1> QED
  BY <1>4, <1>5, <1>7, SetsDone

LEMMA IsRefused ==
  ASSUME NEW reason \in Refused, NEW s, s = RefusedWith(reason)
  PROVE  s \in Record /\ s.step = reason
BY EndedIsRecord, SetsStep DEF RefusedWith, Steps

-----------------------------------------------------------------------------
LEMMA InitIInv == Init => IInv
<1> SUFFICES ASSUME Init PROVE IInv
  OBVIOUS
<1>1. Shape
  <2>1. file \in BOOLEAN /\ artifacts \in BOOLEAN /\ together \in BOOLEAN
    BY Zenon DEF Init
  <2>2. keyring \in Nat /\ lost \in Nat /\ made \in Nat
    BY DEF Init
  <2>3. starts \in [Instances -> Record]
    BY EndedIsRecord DEF Init
  <2> QED
    BY <2>1, <2>2, <2>3 DEF Shape
<1>2. FilesInv
  BY DEF Init, FilesInv, Past, Ended
<1>3. LonelyInv
  BY DEF Init, LonelyInv, IsStarting, Starting, Ended
<1>4. KeyInv
  BY DEF Init, KeyInv, MayMakeKey, Holding, Past, CurrentKey, Ended
<1> QED
  BY <1>1, <1>2, <1>3, <1>4 DEF IInv

(* A start that goes on, or ends: the archive and the keys stay as they are,
   and the start has passed through the steps before the one it reaches. *)
LEMMA StartGoesOn ==
  ASSUME IInv, NEW p \in Instances, IsStarting(p),
         NEW s \in Record, starts' = [starts EXCEPT ![p] = s],
         UNCHANGED <<rows, files, keys, together>>,
         file' \in BOOLEAN, file => file',
         s.step \in Past => file',
         s.step \in Holding =>
           s.key = IF starts[p].step \in Holding THEN starts[p].key ELSE CurrentKey,
         s.step = "open" => starts[p].step \in Holding,
         s.step = "set" => MayMakeKey(p),
         s.step # "key"
  PROVE  IInv'
<1> USE DEF IInv
<1>1. \A q \in Instances : starts'[q] = IF q = p THEN s ELSE starts[q]
  BY DEF Shape
<1>2. CurrentKey' = CurrentKey
  BY DEF CurrentKey, keys
<1>3. Shape'
  BY DEF Shape, keys, files
<1>4. FilesInv'
  BY <1>1 DEF FilesInv, files
<1> SUFFICES ASSUME ~together' PROVE LonelyInv' /\ KeyInv'
  BY <1>3, <1>4
<1>5. LonelyInv /\ KeyInv
  OBVIOUS
<1>6. LonelyInv'
  BY <1>1, <1>5 DEF LonelyInv, IsStarting
<1>7. \A q \in Instances : MayMakeKey(q)' => MayMakeKey(q)
  BY <1>1 DEF MayMakeKey
<1>8. \A q \in Instances : starts'[q].step \in Holding => starts'[q].key = CurrentKey
  BY <1>1, <1>5 DEF KeyInv
<1>9. ASSUME NEW q \in Instances, MayMakeKey(q)'
      PROVE  /\ rows = {} /\ blobs = {}
             /\ \A r \in Instances : starts'[r].step # "open"
  <2>1. MayMakeKey(q)
    BY <1>7, <1>9
  <2>2. q = p
    BY <1>5, <2>1 DEF LonelyInv, MayMakeKey, IsStarting, Starting
  <2>3. starts[p].step \notin Holding
    BY <2>1, <2>2 DEF MayMakeKey, Holding, Past
  <2> QED
    BY <1>1, <1>5, <2>1, <2>3 DEF KeyInv
<1>10. KeyInv'
  BY <1>2, <1>5, <1>8, <1>9 DEF KeyInv, files
<1> QED
  BY <1>6, <1>10

-----------------------------------------------------------------------------
LEMMA LaunchIInv == ASSUME IInv, NEW p \in Instances, Launch(p) PROVE IInv'
<1> DEFINE s == [Ended EXCEPT !.step = "key", !.exists = ArchiveExists]
<1> USE DEF IInv
<1>a. ArchiveExists \in BOOLEAN
  <2>1. (file \/ artifacts) \in BOOLEAN
    BY Zenon
  <2> QED
    BY <2>1, Zenon DEF ArchiveExists
<1>1. s \in Record /\ s.step = "key" /\ s.exists = ArchiveExists
  BY <1>a, Begun
<1>2. starts' = [starts EXCEPT ![p] = s]
  BY Zenon DEF Launch
<1>3. \A q \in Instances : starts'[q] = IF q = p THEN s ELSE starts[q]
  BY <1>2 DEF Shape
<1>4. UNCHANGED <<file, rows, artifacts, blobs, keyring, lost, made>>
  BY DEF Launch, database, files, keys
<1>5. CurrentKey' = CurrentKey
  BY <1>4 DEF CurrentKey
<1>6. together' = (together \/ \E q \in Instances : IsStarting(q))
  BY DEF Launch
<1> HIDE DEF s
<1>7. Shape'
  BY <1>1, <1>2, <1>4, <1>6 DEF Shape
<1>8. FilesInv'
  BY <1>3, <1>4, <1>1 DEF FilesInv, Past
<1> SUFFICES ASSUME ~together' PROVE LonelyInv' /\ KeyInv'
  BY <1>7, <1>8
<1>9. LonelyInv /\ KeyInv /\ \A q \in Instances : ~IsStarting(q)
  BY <1>6 DEF Shape
<1>10. LonelyInv'
  BY <1>3, <1>9 DEF LonelyInv, IsStarting
<1>11. \A q \in Instances : starts'[q].step \in Holding => starts'[q].key = CurrentKey
  BY <1>3, <1>9, <1>1 DEF KeyInv, Holding, Past
<1>12. ASSUME NEW q \in Instances, MayMakeKey(q)'
      PROVE  /\ rows = {} /\ blobs = {}
             /\ \A r \in Instances : starts'[r].step # "open"
  <2>1. q = p
    BY <1>3, <1>9, <1>12 DEF MayMakeKey, IsStarting, Starting
  <2>2. ~file /\ ~artifacts
    BY <1>3, <1>12, <2>1, <1>1 DEF MayMakeKey, ArchiveExists
  <2>3. \A r \in Instances : starts[r].step # "open"
    BY <2>2 DEF FilesInv, Past
  <2> QED
    BY <1>1, <1>3, <2>2, <2>3 DEF FilesInv
<1>13. KeyInv'
  BY <1>4, <1>5, <1>9, <1>11, <1>12 DEF KeyInv
<1> QED
  BY <1>10, <1>13

LEMMA GetKeyIInv == ASSUME IInv, NEW p \in Instances, GetKey(p) PROVE IInv'
<1>1. starts[p] \in Record /\ IsStarting(p) /\ starts[p].step = "key"
  BY DEF IInv, Shape, GetKey, IsStarting, Starting
<1>2. UNCHANGED <<rows, files, keys, together>> /\ file' = file /\ file \in BOOLEAN
  BY DEF GetKey, database, IInv, Shape
<1>3. CASE keyring # 0
  <2>1. PICK s : s = WithKey(starts[p], keyring)
    OBVIOUS
  <2>2. starts' = [starts EXCEPT ![p] = s]
    BY <1>3, <2>1, Zenon DEF GetKey
  <2>3. s \in Record /\ s.step = "connect" /\ s.key = CurrentKey
    BY <1>1, <1>3, <2>1, HasKey DEF IInv, Shape, CurrentKey
  <2> QED
    BY <1>1, <1>2, <2>2, <2>3, StartGoesOn DEF Past, Holding
<1>4. CASE keyring = 0 /\ starts[p].exists
  <2>1. PICK s : s = RefusedWith("no_key")
    OBVIOUS
  <2>2. starts' = [starts EXCEPT ![p] = s]
    BY <1>4, <2>1, Zenon DEF GetKey
  <2>3. s \in Record /\ s.step = "no_key"
    BY <2>1, IsRefused DEF Refused
  <2> QED
    BY <1>1, <1>2, <2>2, <2>3, StartGoesOn DEF Past, Holding
<1>5. CASE keyring = 0 /\ ~starts[p].exists
  <2>1. PICK s : s = [starts[p] EXCEPT !.step = "set"]
    OBVIOUS
  <2>2. starts' = [starts EXCEPT ![p] = s]
    BY <1>5, <2>1 DEF GetKey
  <2>3. s \in Record /\ s.step = "set" /\ MayMakeKey(p)
    BY <1>1, <1>5, <2>1, SetsStep DEF Steps, Starting, MayMakeKey
  <2> QED
    BY <1>1, <1>2, <2>2, <2>3, StartGoesOn DEF Past, Holding
<1> QED
  BY <1>3, <1>4, <1>5

LEMMA SetKeyIInv == ASSUME IInv, NEW p \in Instances, SetKey(p) PROVE IInv'
<1> DEFINE s == WithKey(starts[p], made + 1)
<1> USE DEF IInv
<1>1. starts[p] \in Record /\ made + 1 \in Nat /\ made + 1 # 0
  BY DEF Shape
<1>2. s \in Record /\ s.step = "connect" /\ s.key = made + 1
  BY <1>1, HasKey
<1>3. \A q \in Instances : starts'[q] = IF q = p THEN s ELSE starts[q]
  BY DEF SetKey, Shape
<1>4. starts' \in [Instances -> Record]
  <2>1. starts' = [q \in Instances |-> starts'[q]]
    BY DEF SetKey, Shape
  <2> HIDE DEF s
  <2> QED
    BY <1>2, <1>3, <2>1 DEF Shape
<1>5. UNCHANGED <<file, rows, artifacts, blobs, lost, together>> /\ keyring' = made + 1
      /\ made' = made + 1
  BY DEF SetKey, database, files
<1>6. CurrentKey' = made + 1
  BY <1>1, <1>5 DEF CurrentKey
<1> HIDE DEF s
<1>7. Shape'
  BY <1>1, <1>4, <1>5 DEF Shape
<1>8. FilesInv'
  BY <1>2, <1>3, <1>5 DEF FilesInv, Past
<1> SUFFICES ASSUME ~together' PROVE LonelyInv' /\ KeyInv'
  BY <1>7, <1>8
<1>9. LonelyInv /\ KeyInv
  BY <1>5
<1>10. LonelyInv'
  BY <1>2, <1>3, <1>9 DEF LonelyInv, IsStarting, Starting, SetKey
<1>11. MayMakeKey(p) /\ IsStarting(p)
  BY DEF SetKey, MayMakeKey, IsStarting, Starting
<1>12. rows = {} /\ blobs = {} /\ \A q \in Instances : starts[q].step # "open"
  BY <1>9, <1>11 DEF KeyInv
<1>13. \A q \in Instances : q # p => ~IsStarting(q)
  BY <1>9, <1>11 DEF LonelyInv
<1>14. \A q \in Instances : starts'[q].step \in Holding => starts'[q].key = made + 1
  BY <1>2, <1>3, <1>12, <1>13 DEF IsStarting, Starting, Holding, Past
<1>15. \A q \in Instances : ~MayMakeKey(q)'
  BY <1>2, <1>3, <1>13 DEF MayMakeKey, IsStarting, Starting
<1>16. KeyInv'
  BY <1>5, <1>6, <1>12, <1>14, <1>15 DEF KeyInv
<1> QED
  BY <1>10, <1>16

(* The steps that come after the key, and the ends of a start. *)
LEMMA KeyringFailsIInv == ASSUME IInv, NEW p \in Instances, KeyringFails(p) PROVE IInv'
<1>1. IsStarting(p) /\ UNCHANGED <<rows, files, keys, together>> /\ file' = file
  BY DEF KeyringFails, IsStarting, Starting, database
<1>2. PICK s : s = RefusedWith("no_keyring")
  OBVIOUS
<1>3. s \in Record /\ s.step = "no_keyring"
  BY <1>2, IsRefused DEF Refused
<1>4. starts' = [starts EXCEPT ![p] = s]
  BY <1>2 DEF KeyringFails
<1> QED
  BY <1>1, <1>3, <1>4, StartGoesOn DEF IInv, Shape, Past, Holding

LEMMA ConnectIInv == ASSUME IInv, NEW p \in Instances, Connect(p) PROVE IInv'
<1>1. /\ IsStarting(p) /\ starts[p].step = "connect" /\ starts[p] \in Record
      /\ UNCHANGED <<rows, files, keys, together>> /\ file' = TRUE
  BY DEF Connect, IsStarting, Starting, IInv, Shape
<1>2. PICK s : s = [starts[p] EXCEPT !.step = "version"]
  OBVIOUS
<1>3. s \in Record /\ s.step = "version" /\ s.key = starts[p].key
  BY <1>1, <1>2, SetsStep DEF Steps, Starting
<1>4. starts' = [starts EXCEPT ![p] = s]
  BY <1>2 DEF Connect, Moves
<1> QED
  BY <1>1, <1>3, <1>4, StartGoesOn DEF IInv, Shape, Past, Holding

(* A start that has connected and keeps its key, or is refused. *)
LEMMA ScriptGoesOn ==
  ASSUME IInv, NEW p \in Instances, IsStarting(p), starts[p].step \in Past,
         NEW s \in Record, starts' = [starts EXCEPT ![p] = s],
         UNCHANGED <<file, rows, files, keys, together>>,
         \/ s.step \in Past /\ s.key = starts[p].key
         \/ s.step = "schema_error"
  PROVE  IInv'
<1>1. file /\ file' \in BOOLEAN
  BY DEF IInv, Shape, FilesInv
<1> QED
  BY <1>1, StartGoesOn DEF Past, Holding

LEMMA SchemaError ==
  ASSUME NEW s, s = RefusedWith("schema_error")
  PROVE  s \in Record /\ s.step = "schema_error"
BY IsRefused DEF Refused

LEMMA ReadVersionIInv == ASSUME IInv, NEW p \in Instances, ReadVersion(p) PROVE IInv'
<1>1. /\ IsStarting(p) /\ starts[p].step \in Past /\ starts[p] \in Record
      /\ UNCHANGED <<file, rows, files, keys, together>>
  BY DEF ReadVersion, IsStarting, Starting, Past, IInv, Shape, database
<1>2. PICK s : /\ \/ s = [starts[p] EXCEPT !.step = "create"]
                  \/ s = RefusedWith("schema_error")
                  \/ s = Migrating(starts[p], version) /\ version \in 1..CurrentVersion
               /\ starts' = [starts EXCEPT ![p] = s]
  BY DEF ReadVersion
<1>3. CASE s = [starts[p] EXCEPT !.step = "create"]
  <2>1. s \in Record /\ s.step = "create" /\ s.key = starts[p].key
    BY <1>1, <1>3, SetsStep DEF Steps, Starting
  <2> QED
    BY <1>1, <1>2, <2>1, ScriptGoesOn DEF Past
<1>4. CASE s = RefusedWith("schema_error")
  BY <1>1, <1>2, <1>4, SchemaError, ScriptGoesOn
<1>5. CASE s = Migrating(starts[p], version) /\ version \in 1..CurrentVersion
  <2>1. version \in Int
    BY <1>5 DEF CurrentVersion
  <2>2. s \in Record /\ s.step \in {"open", "migrate"} /\ s.key = starts[p].key
    BY <1>1, <1>5, <2>1, MigratesOrOpens
  <2> QED
    BY <1>1, <1>2, <2>2, ScriptGoesOn DEF Past
<1> QED
  BY <1>2, <1>3, <1>4, <1>5

LEMMA ExecuteIInv == ASSUME IInv, NEW p \in Instances, Execute(p) PROVE IInv'
<1>1. /\ IsStarting(p) /\ starts[p].step \in Past /\ starts[p] \in Record
      /\ UNCHANGED <<file, rows, files, keys, together>>
  BY DEF Execute, IsStarting, Starting, Past, IInv, Shape
<1>2. PICK s : /\ \/ s = [starts[p] EXCEPT !.done = starts[p].done + 1]
                  \/ s = RefusedWith("schema_error")
               /\ starts' = [starts EXCEPT ![p] = s]
  BY DEF Execute
<1>3. CASE s = [starts[p] EXCEPT !.done = starts[p].done + 1]
  <2>1. starts[p].done + 1 \in Int
    BY <1>1 DEF Record
  <2>2. s \in Record /\ s.step = starts[p].step /\ s.key = starts[p].key
    BY <1>1, <1>3, <2>1, SetsDone
  <2> QED
    BY <1>1, <1>2, <2>2, ScriptGoesOn
<1>4. CASE s = RefusedWith("schema_error")
  BY <1>1, <1>2, <1>4, SchemaError, ScriptGoesOn
<1> QED
  BY <1>2, <1>3, <1>4

LEMMA InsertVersionIInv == ASSUME IInv, NEW p \in Instances, InsertVersion(p) PROVE IInv'
<1>1. /\ IsStarting(p) /\ starts[p].step \in Past /\ starts[p] \in Record
      /\ UNCHANGED <<file, rows, files, keys, together>>
  BY DEF InsertVersion, IsStarting, Starting, Past, IInv, Shape
<1>2. PICK s : /\ \/ s = [starts[p] EXCEPT !.step = "open"]
                  \/ s = RefusedWith("schema_error")
               /\ starts' = [starts EXCEPT ![p] = s]
  BY DEF InsertVersion, Moves
<1>3. CASE s = [starts[p] EXCEPT !.step = "open"]
  <2>1. s \in Record /\ s.step = "open" /\ s.key = starts[p].key
    BY <1>1, <1>3, SetsStep DEF Steps
  <2> QED
    BY <1>1, <1>2, <2>1, ScriptGoesOn DEF Past
<1>4. CASE s = RefusedWith("schema_error")
  BY <1>1, <1>2, <1>4, SchemaError, ScriptGoesOn
<1> QED
  BY <1>2, <1>3, <1>4

LEMMA SetVersionIInv == ASSUME IInv, NEW p \in Instances, SetVersion(p) PROVE IInv'
<1>1. /\ IsStarting(p) /\ starts[p].step \in Past /\ starts[p] \in Record
      /\ UNCHANGED <<file, rows, files, keys, together>>
  BY DEF SetVersion, IsStarting, Starting, Past, IInv, Shape
<1>2. PICK s : /\ \/ s = Migrating(starts[p], starts[p].from + 1)
                  \/ s = RefusedWith("schema_error")
               /\ starts' = [starts EXCEPT ![p] = s]
  BY DEF SetVersion
<1>3. CASE s = Migrating(starts[p], starts[p].from + 1)
  <2>1. starts[p].from + 1 \in Int
    BY <1>1 DEF Record
  <2>2. s \in Record /\ s.step \in {"open", "migrate"} /\ s.key = starts[p].key
    BY <1>1, <1>3, <2>1, MigratesOrOpens
  <2> QED
    BY <1>1, <1>2, <2>2, ScriptGoesOn DEF Past
<1>4. CASE s = RefusedWith("schema_error")
  BY <1>1, <1>2, <1>4, SchemaError, ScriptGoesOn
<1> QED
  BY <1>2, <1>3, <1>4

LEMMA EndEarlyIInv == ASSUME IInv, NEW p \in Instances, EndEarly(p) PROVE IInv'
<1>1. /\ IsStarting(p) /\ file' = file /\ starts' = [starts EXCEPT ![p] = Ended]
      /\ UNCHANGED <<rows, files, keys, together>>
  BY DEF EndEarly, database
<1> QED
  BY <1>1, EndedIsRecord, StartGoesOn DEF IInv, Shape, Past, Holding

-----------------------------------------------------------------------------
(* What runs once it is open, and what happens between the starts. *)
LEMMA StoreIInv ==
  ASSUME IInv, NEW p \in Instances, StoreRow(p) \/ StoreArtifact(p) PROVE IInv'
<1> USE DEF IInv
<1>1. /\ starts[p].step = "open" /\ UNCHANGED <<file, keyring, lost, made, starts, together>>
      /\ rows' \subseteq rows \cup {starts[p].key}
      /\ blobs' \subseteq blobs \cup {starts[p].key}
      /\ artifacts' \in BOOLEAN
      /\ rows' # {} => rows # {} \/ starts[p].step \in Past
      /\ blobs' # {} => artifacts'
  BY DEF StoreRow, StoreArtifact, Shape, FilesInv, files, keys, database, Past
<1>2. Shape' /\ FilesInv' /\ CurrentKey' = CurrentKey
  BY <1>1 DEF Shape, FilesInv, CurrentKey
<1> SUFFICES ASSUME ~together' PROVE LonelyInv' /\ KeyInv'
  BY <1>2
<1>3. LonelyInv /\ KeyInv /\ starts[p].key = CurrentKey
  BY <1>1 DEF KeyInv, Holding, Past
<1>4. \A q \in Instances : ~MayMakeKey(q)'
  BY <1>1, <1>3 DEF KeyInv, MayMakeKey
<1> QED
  BY <1>1, <1>2, <1>3, <1>4 DEF LonelyInv, KeyInv, IsStarting

LEMMA CloseIInv == ASSUME IInv, NEW p \in Instances, Close(p) PROVE IInv'
<1> USE DEF IInv
<1>1. /\ starts' = [starts EXCEPT ![p] = Ended]
      /\ UNCHANGED <<file, artifacts, rows, blobs, keyring, lost, made, together>>
  BY DEF Close, database, files, keys
<1>2. \A q \in Instances : starts'[q] = IF q = p THEN Ended ELSE starts[q]
  BY <1>1 DEF Shape
<1>3. Shape' /\ FilesInv' /\ CurrentKey' = CurrentKey
  BY <1>1, <1>2, EndedIsRecord DEF Shape, FilesInv, CurrentKey, Past
<1> SUFFICES ASSUME ~together' PROVE LonelyInv' /\ KeyInv'
  BY <1>3
<1>4. LonelyInv'
  BY <1>1, <1>2, EndedIsRecord DEF LonelyInv, IsStarting, Starting
<1>5. \A q \in Instances : starts'[q].step \in Holding => starts'[q].key = CurrentKey
  BY <1>1, <1>2, EndedIsRecord DEF KeyInv, Holding, Past
<1>6. \A q \in Instances : MayMakeKey(q)' =>
        MayMakeKey(q) /\ (\A r \in Instances : starts'[r].step = "open" => starts[r].step = "open")
  BY <1>2, EndedIsRecord DEF MayMakeKey
<1> QED
  BY <1>1, <1>3, <1>4, <1>5, <1>6 DEF KeyInv

LEMMA KeyringIInv == ASSUME IInv, LoseKey \/ RestoreKey PROVE IInv'
<1> USE DEF IInv
<1>1. /\ UNCHANGED <<file, artifacts, rows, blobs, made, starts, together>>
      /\ CurrentKey' = CurrentKey /\ keyring' \in Nat /\ lost' \in Nat
  BY DEF LoseKey, RestoreKey, database, files, CurrentKey, Shape
<1> QED
  BY <1>1 DEF Shape, FilesInv, LonelyInv, KeyInv, IsStarting, MayMakeKey

LEMMA LoseDatabaseIInv == ASSUME IInv, LoseDatabase PROVE IInv'
<1>1. /\ starts' = [p \in Instances |-> Ended] /\ file' = FALSE /\ rows' = {}
      /\ UNCHANGED <<artifacts, blobs, keyring, lost, made, together>>
  BY DEF LoseDatabase, files, keys
<1>2. \A p \in Instances : starts'[p].step = "ended"
  BY <1>1, EndedIsRecord
<1>3. FALSE \in BOOLEAN
  BY Zenon
<1>4. Shape'
  BY <1>1, <1>3, EndedIsRecord DEF IInv, Shape
<1>5. FilesInv'
  BY <1>1, <1>2 DEF IInv, FilesInv, Past
<1>6. LonelyInv'
  BY <1>2 DEF LonelyInv, IsStarting, Starting
<1>7. ~together' => KeyInv'
  BY <1>1, <1>2 DEF IInv, KeyInv, CurrentKey, Holding, Past, MayMakeKey
<1> QED
  BY <1>4, <1>5, <1>6, <1>7 DEF IInv

LEMMA StepIInv == IInv /\ [Next]_vars => IInv'
<1> SUFFICES ASSUME IInv, [Next]_vars PROVE IInv'
  OBVIOUS
<1>1. CASE \E p \in Instances : Step(p)
  BY <1>1, GetKeyIInv, SetKeyIInv, KeyringFailsIInv, ConnectIInv, ReadVersionIInv,
     ExecuteIInv, InsertVersionIInv, SetVersionIInv DEF Step
<1>2. CASE \E p \in Instances : Launch(p) \/ Uses(p)
  BY <1>2, LaunchIInv, StoreIInv, CloseIInv DEF Uses
<1>3. CASE Mishap
  BY <1>3, EndEarlyIInv, KeyringIInv, LoseDatabaseIInv DEF Mishap
<1>4. CASE UNCHANGED vars
  BY <1>4 DEF vars, database, files, keys, IInv, Shape, FilesInv, LonelyInv, KeyInv,
              CurrentKey, IsStarting, MayMakeKey
<1> QED
  BY <1>1, <1>2, <1>3, <1>4 DEF Next

(* No start replaces a key that something was encrypted with, however starts,
   closings, losses of the key and of the database follow one another and
   wherever a start ends: an archive is looked for before the key is made, and
   nothing is encrypted before it was (main.py, secret_store.py). The theorem
   says nothing once starts have overlapped, and fails of two first launches. *)
THEOREM KeyFits == Spec => []KeyFitsArchive
<1>1. IInv => KeyFitsArchive
  BY DEF IInv, KeyInv, KeyFitsArchive, CurrentKey
<1> QED
  BY InitIInv, StepIInv, <1>1, PTL DEF Spec

-----------------------------------------------------------------------------

(* A script is well made when what it creates is what is said, and no two of
   its statements create the same thing. *)
Makes(s, c) ==
  /\ s \in Seq(SUBSET c) /\ Created(s) = c
  /\ \A i, j \in DOMAIN s : i # j => s[i] \cap s[j] = {}

LEMMA OneStatement == ASSUME NEW a PROVE Makes(<<a>>, a)
<1>1. DOMAIN <<a>> = {1} /\ <<a>>[1] = a
  OBVIOUS
<1>2. <<a>> \in Seq(SUBSET a)
  OBVIOUS
<1> QED
  BY <1>1, <1>2 DEF Makes, Created

LEMMA Joined ==
  ASSUME NEW s, NEW c, Makes(s, c), NEW t, NEW d, Makes(t, d), c \cap d = {}
  PROVE  Makes(s \o t, c \cup d)
<1>1. /\ Created(s) = c /\ Created(t) = d
      /\ s \in Seq(SUBSET (c \cup d)) /\ t \in Seq(SUBSET (c \cup d))
  <2>1. SUBSET c \subseteq SUBSET (c \cup d) /\ SUBSET d \subseteq SUBSET (c \cup d)
    OBVIOUS
  <2> QED
    BY <2>1, SeqMonotonic DEF Makes
<1>2. /\ s \o t \in Seq(SUBSET (c \cup d)) /\ DOMAIN (s \o t) = 1..(Len(s) + Len(t))
      /\ \A i \in 1..Len(s) : (s \o t)[i] = s[i]
      /\ \A i \in (Len(s) + 1)..(Len(s) + Len(t)) : (s \o t)[i] = t[i - Len(s)]
      /\ DOMAIN s = 1..Len(s) /\ DOMAIN t = 1..Len(t) /\ Len(s) \in Nat /\ Len(t) \in Nat
  BY <1>1
<1>3. Created(s \o t) = c \cup d
  <2>1. Created(s \o t) \subseteq c \cup d
    <3> SUFFICES ASSUME NEW i \in 1..(Len(s) + Len(t)) PROVE (s \o t)[i] \subseteq c \cup d
      BY <1>2 DEF Created
    <3>1. CASE i <= Len(s)
      BY <1>1, <1>2, <3>1 DEF Created
    <3>2. CASE i > Len(s)
      BY <1>1, <1>2, <3>2 DEF Created
    <3> QED
      BY <1>2, <3>1, <3>2
  <2>2. c \subseteq Created(s \o t)
    BY <1>1, <1>2 DEF Created
  <2>3. d \subseteq Created(s \o t)
    <3> SUFFICES ASSUME NEW j \in 1..Len(t) PROVE t[j] \subseteq Created(s \o t)
      BY <1>1, <1>2 DEF Created
    <3>1. j + Len(s) \in 1..(Len(s) + Len(t)) /\ (s \o t)[j + Len(s)] = t[j]
      BY <1>2
    <3> QED
      BY <1>2, <3>1 DEF Created
  <2> QED
    BY <2>1, <2>2, <2>3
<1>4. ASSUME NEW i \in 1..(Len(s) + Len(t)), NEW j \in 1..(Len(s) + Len(t)), i < j
      PROVE  (s \o t)[i] \cap (s \o t)[j] = {}
  <2>1. CASE j <= Len(s)
    BY <1>2, <1>4, <2>1 DEF Makes
  <2>2. CASE i <= Len(s) /\ j > Len(s)
    <3>1. s[i] \subseteq c /\ j - Len(s) \in 1..Len(t)
      BY <1>1, <1>2, <2>2 DEF Created
    <3>2. t[j - Len(s)] \subseteq d
      BY <1>1, <1>2, <3>1 DEF Created
    <3> QED
      BY <1>2, <2>2, <3>1, <3>2
  <2>3. CASE i > Len(s)
    <3>1. i - Len(s) \in 1..Len(t) /\ j - Len(s) \in 1..Len(t) /\ i - Len(s) # j - Len(s)
      BY <1>2, <1>4, <2>3
    <3>2. (s \o t)[i] = t[i - Len(s)] /\ (s \o t)[j] = t[j - Len(s)]
      BY <1>2, <1>4, <2>3
    <3> QED
      BY <1>2, <3>1, <3>2 DEF Makes
  <2> QED
    BY <1>2, <1>4, <2>1, <2>2, <2>3
<1> QED
  BY <1>2, <1>3, <1>4 DEF Makes

LEMMA IndexesMake ==
  ASSUME NEW t, NEW n \in Nat, NEW columns, DOMAIN columns = 1..n,
         \A i, j \in 1..n : i # j => columns[i] # columns[j],
         NEW c, c = {<<columns[k], t>> : k \in 1..n}
  PROVE  Makes(Indexes(t, columns), c)
<1>1. Indexes(t, columns) = [k \in 1..n |-> {<<columns[k], t>>}]
  BY DEF Indexes
<1>2. Indexes(t, columns) \in Seq(SUBSET c)
  <2>1. \A k \in 1..n : {<<columns[k], t>>} \in SUBSET c
    OBVIOUS
  <2>2. [1..n -> SUBSET c] \subseteq Seq(SUBSET c)
    BY SeqDef
  <2> QED
    BY <1>1, <2>1, <2>2
<1>3. \A i, j \in 1..n : i # j => Indexes(t, columns)[i] \cap Indexes(t, columns)[j] = {}
  BY <1>1
<1>4. Created(Indexes(t, columns)) = c
  BY <1>1 DEF Created
<1> QED
  BY <1>1, <1>2, <1>3, <1>4 DEF Makes

LEMMA TriggersMake ==
  ASSUME NEW t
  PROVE  Makes(AppendOnlyTriggers(t), {<<"no_update", t>>, <<"no_delete", t>>})
<1>1. /\ Makes(<< {<<"no_update", t>>} >>, {<<"no_update", t>>})
      /\ Makes(<< {<<"no_delete", t>>} >>, {<<"no_delete", t>>})
  BY OneStatement
<1>2. {<<"no_update", t>>} \cap {<<"no_delete", t>>} = {}
  OBVIOUS
<1>3. AppendOnlyTriggers(t) = << {<<"no_update", t>>} >> \o << {<<"no_delete", t>>} >>
  BY DEF AppendOnlyTriggers
<1>4. Makes(AppendOnlyTriggers(t), {<<"no_update", t>>} \cup {<<"no_delete", t>>})
  BY <1>1, <1>2, <1>3, Joined
<1>5. {<<"no_update", t>>} \cup {<<"no_delete", t>>} = {<<"no_update", t>>, <<"no_delete", t>>}
  OBVIOUS
<1> QED
  BY <1>4, <1>5

LEMMA AppendOnlyMakes ==
  ASSUME NEW t, NEW columns, NEW c,
         Makes(Indexes(t, columns), c),
         <<"table", t>> \notin c, <<"no_update", t>> \notin c, <<"no_delete", t>> \notin c
  PROVE  Makes(AppendOnly(t, columns),
               c \cup {<<"table", t>>, <<"no_update", t>>, <<"no_delete", t>>})
<1>1. Makes(<<Table(t)>>, {<<"table", t>>})
  BY OneStatement DEF Table
<1>2. Makes(<<Table(t)>> \o Indexes(t, columns), {<<"table", t>>} \cup c)
  BY <1>1, Joined
<1>3. ({<<"table", t>>} \cup c) \cap {<<"no_update", t>>, <<"no_delete", t>>} = {}
  OBVIOUS
<1>4. Makes(AppendOnly(t, columns),
            ({<<"table", t>>} \cup c) \cup {<<"no_update", t>>, <<"no_delete", t>>})
  BY <1>2, <1>3, TriggersMake, Joined DEF AppendOnly
<1>5. ({<<"table", t>>} \cup c) \cup {<<"no_update", t>>, <<"no_delete", t>>}
        = c \cup {<<"table", t>>, <<"no_update", t>>, <<"no_delete", t>>}
  OBVIOUS
<1> QED
  BY <1>4, <1>5

LEMMA NoIndexes == ASSUME NEW t PROVE Makes(Indexes(t, << >>), {})
<1>1. DOMAIN << >> = 1..0 /\ 0 \in Nat /\ 1..0 = {}
  OBVIOUS
<1> QED
  BY <1>1, IndexesMake

LEMMA OneIndex ==
  ASSUME NEW t, NEW a
  PROVE  Makes(Indexes(t, <<a>>), {<<a, t>>})
<1>1. DOMAIN <<a>> = 1..1 /\ 1 \in Nat /\ 1..1 = {1} /\ <<a>>[1] = a
  OBVIOUS
<1>2. {<< <<a>>[k], t>> : k \in 1..1} = {<<a, t>>}
  BY <1>1
<1> QED
  BY <1>1, <1>2, IndexesMake

LEMMA TwoIndexes ==
  ASSUME NEW t, NEW a, NEW b, a # b
  PROVE  Makes(Indexes(t, <<a, b>>), {<<a, t>>, <<b, t>>})
<1>1. PICK columns : columns = <<a, b>>
  OBVIOUS
<1>2. DOMAIN columns = 1..2 /\ 1..2 = {1, 2} /\ columns[1] = a /\ columns[2] = b
  BY <1>1
<1>3. (\A i, j \in 1..2 : i # j => columns[i] # columns[j]) /\ 2 \in Nat
  BY <1>2
<1>4. {<<columns[k], t>> : k \in 1..2} = {<<a, t>>, <<b, t>>}
  BY <1>2
<1>5. Makes(Indexes(t, columns), {<<a, t>>, <<b, t>>})
  BY <1>2, <1>3, <1>4, IndexesMake
<1> QED
  BY <1>1, <1>5, Zenon

(* The scripts of the program, block by block: what is on which table. *)
On(c, tables) == \A o \in c : o[2] \in tables

LEMMA OnOthers ==
  ASSUME NEW c, NEW d, NEW T, NEW U, On(c, T), On(d, U), T \cap U = {}
  PROVE  c \cap d = {}
BY DEF On

LEMMA OnEither ==
  ASSUME NEW c, NEW d, NEW T, NEW U, On(c, T), On(d, U)
  PROVE  On(c \cup d, T \cup U)
BY DEF On

(* A script whose blocks are all its own. *)
Apart(s) == Makes(s, Created(s))

LEMMA MakesApart == ASSUME NEW s, NEW c, Makes(s, c) PROVE Apart(s) /\ Created(s) = c
BY DEF Apart, Makes

(* A script, and the tables its statements are about. *)
Block(s, tables) == Apart(s) /\ On(Created(s), tables)

IdentityTables == {"schema_meta", "identities", "identifiers"}

LEMMA IdentityBlock ==
  Block(IdentitySchema, IdentityTables)
<1>1. /\ Makes(<< Table("schema_meta") >>, {<<"table", "schema_meta">>})
      /\ Makes(<< Table("identities") >>, {<<"table", "identities">>})
      /\ Makes(<< Table("identifiers") >>, {<<"table", "identifiers">>})
  BY OneStatement DEF Table
<1>2. Makes(<< Table("schema_meta") >> \o << Table("identities") >>,
            {<<"table", "schema_meta">>} \cup {<<"table", "identities">>})
  BY <1>1, Joined
<1>3. Makes(<< Table("schema_meta") >> \o << Table("identities") >> \o << Table("identifiers") >>,
            {<<"table", "schema_meta">>} \cup {<<"table", "identities">>}
            \cup {<<"table", "identifiers">>})
  BY <1>1, <1>2, Joined
<1>4. << Table("schema_meta"), Table("identities"), Table("identifiers") >>
        = << Table("schema_meta") >> \o << Table("identities") >> \o << Table("identifiers") >>
  OBVIOUS
<1>5. PICK c : c = {<<"table", "schema_meta">>} \cup {<<"table", "identities">>}
                   \cup {<<"table", "identifiers">>}
  OBVIOUS
<1>6. Makes(Indexes("identifiers", <<"identity_id">>), {<<"identity_id", "identifiers">>})
  BY OneIndex
<1>7. c \cap {<<"identity_id", "identifiers">>} = {}
  BY <1>5
<1>8. Makes(IdentitySchema, c \cup {<<"identity_id", "identifiers">>})
  BY <1>3, <1>4, <1>5, <1>6, <1>7, Joined DEF IdentitySchema
<1>9. On(c \cup {<<"identity_id", "identifiers">>}, IdentityTables)
  BY <1>5 DEF On, IdentityTables
<1> QED
  BY <1>8, <1>9, MakesApart DEF Block

LEMMA IdentityStarts ==
  IdentitySchema[1] = Table("schema_meta") /\ 1 \in DOMAIN IdentitySchema
BY DEF IdentitySchema, Indexes

LEMMA TargetsBlock == Block(TargetsSchema, {"targets"})
<1>1. Makes(TargetsSchema, {<<"table", "targets">>})
  BY OneStatement DEF TargetsSchema, Table
<1> QED
  BY <1>1, MakesApart DEF On, Block

(* The tables of cases: version 3 has what version 2 had and the right with its
   dates, version 6 the snapshot of the deadline too. *)
CaseTables == {"cases", "case_events"}

CaseIndexNames ==
  {<<"identity_id", "cases">>, <<"target_id", "cases">>, <<"status", "cases">>}

EventNames ==
  {<<"case_id", "case_events">>, <<"table", "case_events">>,
   <<"no_update", "case_events">>, <<"no_delete", "case_events">>}

LEMMA CaseIndexesMake == Makes(CaseIndexes, CaseIndexNames)
<1>1. PICK columns : columns = <<"identity_id", "target_id", "status">>
  OBVIOUS
<1>2. /\ DOMAIN columns = 1..3 /\ 1..3 = {1, 2, 3} /\ 3 \in Nat
      /\ columns[1] = "identity_id" /\ columns[2] = "target_id" /\ columns[3] = "status"
  BY <1>1
<1>3. \A i, j \in 1..3 : i # j => columns[i] # columns[j]
  BY <1>2
<1>4. CaseIndexNames = {<<columns[k], "cases">> : k \in 1..3}
  BY <1>2 DEF CaseIndexNames
<1>5. Makes(Indexes("cases", columns), CaseIndexNames)
  BY <1>2, <1>3, <1>4, IndexesMake
<1> QED
  BY <1>1, <1>5, Zenon DEF CaseIndexes

LEMMA EventsMake == Makes(AppendOnly("case_events", <<"case_id">>), EventNames)
<1>1. Makes(Indexes("case_events", <<"case_id">>), {<<"case_id", "case_events">>})
  BY OneIndex
<1>2. /\ <<"table", "case_events">> \notin {<<"case_id", "case_events">>}
      /\ <<"no_update", "case_events">> \notin {<<"case_id", "case_events">>}
      /\ <<"no_delete", "case_events">> \notin {<<"case_id", "case_events">>}
  OBVIOUS
<1>3. EventNames = {<<"case_id", "case_events">>} \cup
        {<<"table", "case_events">>, <<"no_update", "case_events">>, <<"no_delete", "case_events">>}
  BY DEF EventNames
<1> QED
  BY <1>1, <1>2, <1>3, AppendOnlyMakes

(* What the schemas of versions 3 and 6 have in common after their first
   statement, as far as the events. *)
LEMMA CaseBlock ==
  ASSUME NEW first, On(first, {"cases"}), first \cap CaseIndexNames = {},
         <<"right_type", "cases">> \notin first
  PROVE  Makes(<<first>> \o CaseIndexes \o Indexes("cases", <<"right_type">>)
                 \o AppendOnly("case_events", <<"case_id">>),
               first \cup CaseIndexNames \cup {<<"right_type", "cases">>} \cup EventNames)
<1>1. Makes(<<first>> \o CaseIndexes, first \cup CaseIndexNames)
  BY OneStatement, CaseIndexesMake, Joined
<1>2. (first \cup CaseIndexNames) \cap {<<"right_type", "cases">>} = {}
  BY DEF CaseIndexNames
<1>3. Makes(<<first>> \o CaseIndexes \o Indexes("cases", <<"right_type">>),
            first \cup CaseIndexNames \cup {<<"right_type", "cases">>})
  BY <1>1, <1>2, OneIndex, Joined
<1>4. PICK c : c = first \cup CaseIndexNames \cup {<<"right_type", "cases">>}
  OBVIOUS
<1>5. On(c, {"cases"}) /\ On(EventNames, {"case_events"})
  BY <1>4 DEF On, CaseIndexNames, EventNames
<1>6. c \cap EventNames = {}
  BY <1>5 DEF On
<1> QED
  BY <1>3, <1>4, <1>6, EventsMake, Joined

RightNames ==
  {<<"right_type.column", "cases">>, <<"received_on", "cases">>,
   <<"extension_notified_on", "cases">>}

LEMMA RightColumnsAre == Table("cases") \cup RightColumns = {<<"table", "cases">>} \cup RightNames
BY DEF Table, RightColumns, RightNames

CaseNamesV3 ==
  ({<<"table", "cases">>} \cup RightNames) \cup CaseIndexNames
  \cup {<<"right_type", "cases">>} \cup EventNames

LEMMA CaseV3Make == Makes(CaseSchemaV3, CaseNamesV3)
<1>1. PICK first : first = {<<"table", "cases">>} \cup RightNames
  OBVIOUS
<1>2. /\ On(first, {"cases"})
      /\ first \cap CaseIndexNames = {} /\ <<"right_type", "cases">> \notin first
  BY <1>1 DEF On, RightNames, CaseIndexNames
<1>3. Makes(<<first>> \o CaseIndexes \o Indexes("cases", <<"right_type">>)
                 \o AppendOnly("case_events", <<"case_id">>),
               first \cup CaseIndexNames \cup {<<"right_type", "cases">>} \cup EventNames)
  BY <1>2, CaseBlock
<1> QED
  BY <1>1, <1>3, RightColumnsAre DEF CaseNamesV3, CaseSchemaV3

DeadlineNames ==
  {<<"deadline_jurisdiction", "cases">>, <<"initial_due_on", "cases">>,
   <<"extended_due_on", "cases">>, <<"holiday_dates_json", "cases">>,
   <<"holiday_source", "cases">>, <<"holiday_calendar_complete", "cases">>}

SnapshotNames ==
  {<<"deadline_snapshot_complete", "cases">>, <<"deadline_snapshot_immutable", "cases">>}

LEMMA DeadlineColumnsMake == Makes(DeadlineColumns, DeadlineNames)
<1>1. PICK columns :
        columns = <<"deadline_jurisdiction", "initial_due_on", "extended_due_on",
                    "holiday_dates_json", "holiday_source", "holiday_calendar_complete">>
  OBVIOUS
<1>2. /\ DOMAIN columns = 1..6 /\ 1..6 = {1, 2, 3, 4, 5, 6} /\ 6 \in Nat
      /\ columns[1] = "deadline_jurisdiction" /\ columns[2] = "initial_due_on"
      /\ columns[3] = "extended_due_on" /\ columns[4] = "holiday_dates_json"
      /\ columns[5] = "holiday_source" /\ columns[6] = "holiday_calendar_complete"
  BY <1>1
<1>3. \A i, j \in 1..6 : i # j => columns[i] # columns[j]
  BY <1>2
<1>4. DeadlineNames = {<<columns[k], "cases">> : k \in 1..6}
  BY <1>2 DEF DeadlineNames
<1>5. Makes(Indexes("cases", columns), DeadlineNames)
  BY <1>2, <1>3, <1>4, IndexesMake
<1> QED
  BY <1>1, <1>5, Zenon DEF DeadlineColumns

LEMMA SnapshotTriggersMake == Makes(SnapshotTriggers, SnapshotNames)
<1>1. /\ Makes(<< {<<"deadline_snapshot_complete", "cases">>} >>,
               {<<"deadline_snapshot_complete", "cases">>})
      /\ Makes(<< {<<"deadline_snapshot_immutable", "cases">>} >>,
               {<<"deadline_snapshot_immutable", "cases">>})
  BY OneStatement
<1>2. {<<"deadline_snapshot_complete", "cases">>}
        \cap {<<"deadline_snapshot_immutable", "cases">>} = {}
  OBVIOUS
<1>3. SnapshotTriggers = << {<<"deadline_snapshot_complete", "cases">>} >>
                         \o << {<<"deadline_snapshot_immutable", "cases">>} >>
  BY DEF SnapshotTriggers
<1>4. SnapshotNames = {<<"deadline_snapshot_complete", "cases">>}
                      \cup {<<"deadline_snapshot_immutable", "cases">>}
  BY DEF SnapshotNames
<1> QED
  BY <1>1, <1>2, <1>3, <1>4, Joined

LEMMA SnapshotBlock ==
  Makes(DeadlineColumns \o SnapshotTriggers, DeadlineNames \cup SnapshotNames)
<1>1. DeadlineNames \cap SnapshotNames = {}
  BY DEF DeadlineNames, SnapshotNames
<1> QED
  BY <1>1, DeadlineColumnsMake, SnapshotTriggersMake, Joined

LEMMA CaseV6Make == Makes(CaseSchemaV6, CaseNamesV3 \cup DeadlineNames \cup SnapshotNames)
<1>1. PICK first : first = {<<"table", "cases">>} \cup RightNames \cup DeadlineNames
  OBVIOUS
<1>2. /\ On(first, {"cases"})
      /\ first \cap CaseIndexNames = {} /\ <<"right_type", "cases">> \notin first
  BY <1>1 DEF On, RightNames, CaseIndexNames, DeadlineNames
<1>3. PICK c : c = first \cup CaseIndexNames \cup {<<"right_type", "cases">>} \cup EventNames
  OBVIOUS
<1>4. Makes(<<first>> \o CaseIndexes \o Indexes("cases", <<"right_type">>)
                 \o AppendOnly("case_events", <<"case_id">>), c)
  BY <1>2, <1>3, CaseBlock
<1>5. Table("cases") \cup RightColumns \cup Created(DeadlineColumns) = first
  BY <1>1, RightColumnsAre, DeadlineColumnsMake DEF Makes
<1>6. c \cap SnapshotNames = {}
  BY <1>1, <1>3 DEF RightNames, CaseIndexNames, DeadlineNames, EventNames, SnapshotNames
<1>7. Makes(CaseSchemaV6, c \cup SnapshotNames)
  BY <1>4, <1>5, <1>6, SnapshotTriggersMake, Joined DEF CaseSchemaV6
<1>8. c \cup SnapshotNames = CaseNamesV3 \cup DeadlineNames \cup SnapshotNames
  BY <1>1, <1>3 DEF CaseNamesV3
<1> QED
  BY <1>7, <1>8

LEMMA AuditBlock == Block(AuditSchema, {"outbound_audit"})
<1>1. PICK c : c = {<<"created_at", "outbound_audit">>}
  OBVIOUS
<1>2. Makes(Indexes("outbound_audit", <<"created_at">>), c)
  BY <1>1, OneIndex
<1>3. /\ <<"table", "outbound_audit">> \notin c /\ <<"no_update", "outbound_audit">> \notin c
      /\ <<"no_delete", "outbound_audit">> \notin c
  BY <1>1
<1>4. Makes(AuditSchema,
        c \cup {<<"table", "outbound_audit">>,
               <<"no_update", "outbound_audit">>,
               <<"no_delete", "outbound_audit">>})
  BY <1>2, <1>3, AppendOnlyMakes DEF AuditSchema
<1> QED
  BY <1>1, <1>4, MakesApart DEF On, Block

LEMMA ApprovedRequestBlock == Block(ApprovedRequestSchema, {"approved_outbound_requests"})
<1>1. PICK c : c = {<<"case_id", "approved_outbound_requests">>}
  OBVIOUS
<1>2. Makes(Indexes("approved_outbound_requests", <<"case_id">>), c)
  BY <1>1, OneIndex
<1>3. /\ <<"table", "approved_outbound_requests">> \notin c
      /\ <<"no_update", "approved_outbound_requests">> \notin c
      /\ <<"no_delete", "approved_outbound_requests">> \notin c
  BY <1>1
<1>4. Makes(ApprovedRequestSchema,
        c \cup {<<"table", "approved_outbound_requests">>,
               <<"no_update", "approved_outbound_requests">>,
               <<"no_delete", "approved_outbound_requests">>})
  BY <1>2, <1>3, AppendOnlyMakes DEF ApprovedRequestSchema
<1> QED
  BY <1>1, <1>4, MakesApart DEF On, Block

LEMMA DeliveryBlock == Block(DeliverySchema, {"outbound_delivery_events"})
<1>1. PICK c : c = {<<"request", "outbound_delivery_events">>,
                  <<"attempt", "outbound_delivery_events">>}
  OBVIOUS
<1>2. Makes(Indexes("outbound_delivery_events", <<"request", "attempt">>), c)
  BY <1>1, TwoIndexes
<1>3. /\ <<"table", "outbound_delivery_events">> \notin c
      /\ <<"no_update", "outbound_delivery_events">> \notin c
      /\ <<"no_delete", "outbound_delivery_events">> \notin c
  BY <1>1
<1>4. Makes(DeliverySchema,
        c \cup {<<"table", "outbound_delivery_events">>,
               <<"no_update", "outbound_delivery_events">>,
               <<"no_delete", "outbound_delivery_events">>})
  BY <1>2, <1>3, AppendOnlyMakes DEF DeliverySchema
<1> QED
  BY <1>1, <1>4, MakesApart DEF On, Block

LEMMA BindingBlock == Block(BindingSchema, {"case_submission_bindings"})
<1>1. PICK c : c = {}
  OBVIOUS
<1>2. Makes(Indexes("case_submission_bindings", << >>), c)
  BY <1>1, NoIndexes
<1>3. /\ <<"table", "case_submission_bindings">> \notin c
      /\ <<"no_update", "case_submission_bindings">> \notin c
      /\ <<"no_delete", "case_submission_bindings">> \notin c
  BY <1>1
<1>4. Makes(BindingSchema,
        c \cup {<<"table", "case_submission_bindings">>,
               <<"no_update", "case_submission_bindings">>,
               <<"no_delete", "case_submission_bindings">>})
  BY <1>2, <1>3, AppendOnlyMakes DEF BindingSchema
<1> QED
  BY <1>1, <1>4, MakesApart DEF On, Block

LEMMA ResponseBlock == Block(ResponseSchema, {"case_responses"})
<1>1. PICK c : c = {<<"case_id", "case_responses">>}
  OBVIOUS
<1>2. Makes(Indexes("case_responses", <<"case_id">>), c)
  BY <1>1, OneIndex
<1>3. /\ <<"table", "case_responses">> \notin c /\ <<"no_update", "case_responses">> \notin c
      /\ <<"no_delete", "case_responses">> \notin c
  BY <1>1
<1>4. Makes(ResponseSchema,
        c \cup {<<"table", "case_responses">>,
               <<"no_update", "case_responses">>,
               <<"no_delete", "case_responses">>})
  BY <1>2, <1>3, AppendOnlyMakes DEF ResponseSchema
<1> QED
  BY <1>1, <1>4, MakesApart DEF On, Block

LEMMA JoinedApart ==
  ASSUME NEW s, NEW t, NEW T, NEW U, Block(s, T), Block(t, U), T \cap U = {}
  PROVE  /\ Block(s \o t, T \cup U) /\ Created(s \o t) = Created(s) \cup Created(t)
         /\ 1 \in DOMAIN s => 1 \in DOMAIN (s \o t) /\ (s \o t)[1] = s[1]
<1>1. Created(s) \cap Created(t) = {}
  BY OnOthers DEF Block
<1>2. Makes(s \o t, Created(s) \cup Created(t))
  BY <1>1, Joined DEF Apart, Block
<1>3. On(Created(s) \cup Created(t), T \cup U)
  BY OnEither DEF Block
<1>4. 1 \in DOMAIN s => 1 \in DOMAIN (s \o t) /\ (s \o t)[1] = s[1]
  <2>1. PICK c : c = Created(s) \cup Created(t)
    OBVIOUS
  <2>2. SUBSET Created(s) \subseteq SUBSET c /\ SUBSET Created(t) \subseteq SUBSET c
    BY <2>1
  <2>3. s \in Seq(SUBSET c) /\ t \in Seq(SUBSET c)
    BY <2>2, SeqMonotonic DEF Block, Apart, Makes
  <2> QED
    BY <2>3
<1> QED
  BY <1>2, <1>3, <1>4, MakesApart DEF Block

LEMMA TwoTables ==
  ASSUME NEW t, NEW u, t # u
  PROVE  Makes(<< Table(t), Table(u) >>, {<<"table", t>>, <<"table", u>>})
<1>1. Makes(<< Table(t) >>, {<<"table", t>>}) /\ Makes(<< Table(u) >>, {<<"table", u>>})
  BY OneStatement DEF Table
<1>2. {<<"table", t>>} \cap {<<"table", u>>} = {}
  OBVIOUS
<1>3. << Table(t), Table(u) >> = << Table(t) >> \o << Table(u) >>
  OBVIOUS
<1>4. {<<"table", t>>, <<"table", u>>} = {<<"table", t>>} \cup {<<"table", u>>}
  OBVIOUS
<1>5. Makes(<< Table(t) >> \o << Table(u) >>, {<<"table", t>>} \cup {<<"table", u>>})
  BY <1>1, <1>2, Joined
<1> QED
  BY <1>3, <1>4, <1>5, Zenon

InvestigationTables ==
  {"investigations", "artifacts", "investigation_artifacts", "evidence", "claims", "claim_evidence"}

LEMMA InvestigationBlock ==
  Block(InvestigationSchema, InvestigationTables)
<1>1. PICK a : a = {<<"table", "investigations">>}
  OBVIOUS
<1>2. PICK s : s = << Table("investigations") >> /\ Makes(s, a)
  BY <1>1, OneStatement DEF Table
<1>3. PICK b : b = a \cup {<<"identity_id", "investigations">>, <<"status", "investigations">>}
  OBVIOUS
<1>4. a \cap {<<"identity_id", "investigations">>, <<"status", "investigations">>} = {}
  BY <1>1
<1>5. PICK s1 : s1 = s \o Indexes("investigations", <<"identity_id", "status">>) /\ Makes(s1, b)
  <2>1. Makes(Indexes("investigations", <<"identity_id", "status">>),
              {<<"identity_id", "investigations">>, <<"status", "investigations">>})
    BY TwoIndexes
  <2> QED
    BY <2>1, <1>2, <1>3, <1>4, Joined
<1>6. PICK c : c = b \cup {<<"table", "artifacts">>, <<"table", "investigation_artifacts">>}
  OBVIOUS
<1>7. b \cap {<<"table", "artifacts">>, <<"table", "investigation_artifacts">>} = {}
  BY <1>1, <1>3
<1>8. PICK s2 : s2 = s1 \o << Table("artifacts"), Table("investigation_artifacts") >> /\ Makes(s2, c)
  <2>1. Makes(<< Table("artifacts"), Table("investigation_artifacts") >>,
              {<<"table", "artifacts">>, <<"table", "investigation_artifacts">>})
    BY TwoTables
  <2> QED
    BY <2>1, <1>5, <1>6, <1>7, Joined
<1>9. PICK d : d = c \cup {<<"artifact_id", "investigation_artifacts">>}
  OBVIOUS
<1>10. c \cap {<<"artifact_id", "investigation_artifacts">>} = {}
  BY <1>1, <1>3, <1>6
<1>11. PICK s3 : s3 = s2 \o Indexes("investigation_artifacts", <<"artifact_id">>) /\ Makes(s3, d)
  <2>1. Makes(Indexes("investigation_artifacts", <<"artifact_id">>),
              {<<"artifact_id", "investigation_artifacts">>})
    BY OneIndex
  <2> QED
    BY <2>1, <1>8, <1>9, <1>10, Joined
<1>12. PICK e : e = d \cup {<<"table", "evidence">>}
  OBVIOUS
<1>13. d \cap {<<"table", "evidence">>} = {}
  BY <1>1, <1>3, <1>6, <1>9
<1>14. PICK s4 : s4 = s3 \o << Table("evidence") >> /\ Makes(s4, e)
  <2>1. Makes(<< Table("evidence") >>, {<<"table", "evidence">>})
    BY OneStatement DEF Table
  <2> QED
    BY <2>1, <1>11, <1>12, <1>13, Joined
<1>15. PICK f : f = e \cup {<<"investigation_id", "evidence">>, <<"artifact_id", "evidence">>}
  OBVIOUS
<1>16. e \cap {<<"investigation_id", "evidence">>, <<"artifact_id", "evidence">>} = {}
  BY <1>1, <1>3, <1>6, <1>9, <1>12
<1>17. PICK s5 : s5 = s4 \o Indexes("evidence", <<"investigation_id", "artifact_id">>) /\ Makes(s5, f)
  <2>1. Makes(Indexes("evidence", <<"investigation_id", "artifact_id">>),
              {<<"investigation_id", "evidence">>, <<"artifact_id", "evidence">>})
    BY TwoIndexes
  <2> QED
    BY <2>1, <1>14, <1>15, <1>16, Joined
<1>18. PICK g : g = f \cup {<<"table", "claims">>}
  OBVIOUS
<1>19. f \cap {<<"table", "claims">>} = {}
  BY <1>1, <1>3, <1>6, <1>9, <1>12, <1>15
<1>20. PICK s6 : s6 = s5 \o << Table("claims") >> /\ Makes(s6, g)
  <2>1. Makes(<< Table("claims") >>, {<<"table", "claims">>})
    BY OneStatement DEF Table
  <2> QED
    BY <2>1, <1>17, <1>18, <1>19, Joined
<1>21. PICK h : h = g \cup {<<"investigation_id", "claims">>, <<"status", "claims">>}
  OBVIOUS
<1>22. g \cap {<<"investigation_id", "claims">>, <<"status", "claims">>} = {}
  BY <1>1, <1>3, <1>6, <1>9, <1>12, <1>15, <1>18
<1>23. PICK s7 : s7 = s6 \o Indexes("claims", <<"investigation_id", "status">>) /\ Makes(s7, h)
  <2>1. Makes(Indexes("claims", <<"investigation_id", "status">>),
              {<<"investigation_id", "claims">>, <<"status", "claims">>})
    BY TwoIndexes
  <2> QED
    BY <2>1, <1>20, <1>21, <1>22, Joined
<1>24. PICK i : i = h \cup {<<"table", "claim_evidence">>}
  OBVIOUS
<1>25. h \cap {<<"table", "claim_evidence">>} = {}
  BY <1>1, <1>3, <1>6, <1>9, <1>12, <1>15, <1>18, <1>21
<1>26. PICK s8 : s8 = s7 \o << Table("claim_evidence") >> /\ Makes(s8, i)
  <2>1. Makes(<< Table("claim_evidence") >>, {<<"table", "claim_evidence">>})
    BY OneStatement DEF Table
  <2> QED
    BY <2>1, <1>23, <1>24, <1>25, Joined
<1>27. PICK j : j = i \cup {<<"evidence_id", "claim_evidence">>}
  OBVIOUS
<1>28. i \cap {<<"evidence_id", "claim_evidence">>} = {}
  BY <1>1, <1>3, <1>6, <1>9, <1>12, <1>15, <1>18, <1>21, <1>24
<1>29. PICK s9 : s9 = s8 \o Indexes("claim_evidence", <<"evidence_id">>) /\ Makes(s9, j)
  <2>1. Makes(Indexes("claim_evidence", <<"evidence_id">>),
              {<<"evidence_id", "claim_evidence">>})
    BY OneIndex
  <2> QED
    BY <2>1, <1>26, <1>27, <1>28, Joined
<1>30. PICK k : k = j \cup {<<"no_update", "artifacts">>}
  OBVIOUS
<1>31. j \cap {<<"no_update", "artifacts">>} = {}
  BY <1>1, <1>3, <1>6, <1>9, <1>12, <1>15, <1>18, <1>21, <1>24, <1>27
<1>32. PICK s10 : s10 = s9 \o << {<<"no_update", "artifacts">>} >> /\ Makes(s10, k)
  <2>1. Makes(<< {<<"no_update", "artifacts">>} >>, {<<"no_update", "artifacts">>})
    BY OneStatement
  <2> QED
    BY <2>1, <1>29, <1>30, <1>31, Joined
<1>33. InvestigationSchema = s10
  BY <1>2, <1>5, <1>8, <1>11, <1>14, <1>17, <1>20, <1>23, <1>26, <1>29, <1>32, Zenon
     DEF InvestigationSchema
<1>34. On(k, InvestigationTables)
  BY <1>1, <1>3, <1>6, <1>9, <1>12, <1>15, <1>18, <1>21, <1>24, <1>27, <1>30
     DEF On, InvestigationTables
<1> QED
  BY <1>32, <1>33, <1>34, MakesApart DEF Block

LEMMA CaseV3Block == Block(CaseSchemaV3, CaseTables)
<1>1. On(CaseNamesV3, CaseTables)
  BY DEF On, CaseTables, CaseNamesV3, RightNames, CaseIndexNames, EventNames
<1> QED
  BY <1>1, CaseV3Make, MakesApart DEF Block

LEMMA CaseV6Block ==
  /\ Block(CaseSchemaV6, CaseTables)
  /\ Created(CaseSchemaV6) = Created(CaseSchemaV3)
    \cup Created(DeadlineColumns \o SnapshotTriggers)
<1>1. On(CaseNamesV3 \cup DeadlineNames \cup SnapshotNames, CaseTables)
  BY DEF On, CaseTables, CaseNamesV3, RightNames, CaseIndexNames, EventNames, DeadlineNames,
         SnapshotNames
<1>2. Created(CaseSchemaV6) = CaseNamesV3 \cup DeadlineNames \cup SnapshotNames
  BY CaseV6Make, MakesApart
<1>3. /\ Created(CaseSchemaV3) = CaseNamesV3
      /\ Created(DeadlineColumns \o SnapshotTriggers) = DeadlineNames \cup SnapshotNames
  BY CaseV3Make, SnapshotBlock, MakesApart
<1> QED
  BY <1>1, <1>2, <1>3, CaseV6Make, MakesApart DEF Block

LEMMA SnapshotApart ==
  /\ Block(DeadlineColumns \o SnapshotTriggers, {"cases"})
  /\ Created(DeadlineColumns \o SnapshotTriggers) \cap Created(CaseSchemaV3) = {}
<1>1. (DeadlineNames \cup SnapshotNames) \cap CaseNamesV3 = {}
  BY DEF DeadlineNames, SnapshotNames, CaseNamesV3, RightNames, CaseIndexNames, EventNames
<1>2. On(DeadlineNames \cup SnapshotNames, {"cases"})
  BY DEF On, DeadlineNames, SnapshotNames
<1> QED
  BY <1>1, <1>2, CaseV3Make, SnapshotBlock, MakesApart DEF Block

LEMMA RenamedBlock ==
  Block(RenamedTables, {"cases_v3", "case_events_v3"})
<1>1. Makes(RenamedTables, {<<"table", "cases_v3">>, <<"table", "case_events_v3">>})
  BY TwoTables DEF RenamedTables
<1> QED
  BY <1>1, MakesApart DEF On, Block

(* The schema of version 2 has a part of what replaces it. *)
LEMMA M2Block ==
  /\ Block(M2Schema, {"targets"} \cup CaseTables)
  /\ Created(TargetsSchema) \subseteq Created(M2Schema)
  /\ Created(M2Schema) \subseteq Created(TargetsSchema) \cup Created(CaseSchemaV3)
<1>1. PICK c : c = {<<"table", "targets">>} \cup {<<"table", "cases">>}
  OBVIOUS
<1>2. Makes(TargetsSchema \o << Table("cases") >>, c)
  <2>1. /\ Makes(TargetsSchema, {<<"table", "targets">>})
        /\ Makes(<< Table("cases") >>, {<<"table", "cases">>})
    BY OneStatement DEF TargetsSchema, Table
  <2>2. {<<"table", "targets">>} \cap {<<"table", "cases">>} = {}
    OBVIOUS
  <2> QED
    BY <1>1, <2>1, <2>2, Joined
<1>3. c \cap CaseIndexNames = {}
  BY <1>1 DEF CaseIndexNames
<1>4. Makes(TargetsSchema \o << Table("cases") >> \o CaseIndexes, c \cup CaseIndexNames)
  BY <1>2, <1>3, CaseIndexesMake, Joined
<1>5. (c \cup CaseIndexNames) \cap EventNames = {}
  BY <1>1 DEF CaseIndexNames, EventNames
<1>6. Makes(M2Schema, c \cup CaseIndexNames \cup EventNames)
  BY <1>4, <1>5, EventsMake, Joined DEF M2Schema
<1>7. Created(TargetsSchema) = {<<"table", "targets">>}
  BY OneStatement, MakesApart DEF TargetsSchema, Table
<1>8. On(c \cup CaseIndexNames \cup EventNames, {"targets"} \cup CaseTables)
  BY <1>1 DEF On, CaseTables, CaseIndexNames, EventNames
<1>9. c \cup CaseIndexNames \cup EventNames \subseteq {<<"table", "targets">>} \cup CaseNamesV3
  BY <1>1 DEF CaseNamesV3
<1> QED
  BY <1>1, <1>6, <1>7, <1>8, <1>9, CaseV3Make, MakesApart DEF Block

FirstTables == IdentityTables \cup {"targets"} \cup CaseTables \cup InvestigationTables

LaterTables ==
  {"outbound_audit", "approved_outbound_requests", "outbound_delivery_events",
   "case_submission_bindings", "case_responses"}

(* Created by _create_current_schema: block after block, each on its own
   tables. *)
LEMMA CreationBlocks ==
  /\ Creation[1] = Table("schema_meta") /\ 1 \in DOMAIN Creation
  /\ Block(Creation, FirstTables \cup LaterTables)
  /\ Created(Creation) =
       Created(IdentitySchema) \cup Created(TargetsSchema) \cup Created(CaseSchemaV6)
       \cup Created(InvestigationSchema) \cup Created(AuditSchema)
         \cup Created(ApprovedRequestSchema)
       \cup Created(DeliverySchema) \cup Created(BindingSchema) \cup Created(ResponseSchema)
<1>1. PICK s1, T1 : s1 = IdentitySchema \o TargetsSchema /\ T1 = IdentityTables \cup {"targets"}
  OBVIOUS
<1>2. IdentityTables \cap {"targets"} = {}
  BY DEF IdentityTables, CaseTables, InvestigationTables
<1>3. /\ Block(s1, T1) /\ Created(s1) = Created(IdentitySchema) \cup Created(TargetsSchema)
      /\ s1[1] = Table("schema_meta") /\ 1 \in DOMAIN s1
  BY IdentityBlock, IdentityStarts, TargetsBlock, <1>1, <1>2, JoinedApart, Zenon
<1>4. PICK s2, T2 : s2 = s1 \o CaseSchemaV6 /\ T2 = T1 \cup CaseTables
  OBVIOUS
<1>5. T1 \cap CaseTables = {}
  BY <1>1 DEF IdentityTables, CaseTables, InvestigationTables
<1>6. /\ Block(s2, T2) /\ Created(s2) = Created(s1) \cup Created(CaseSchemaV6)
      /\ s2[1] = Table("schema_meta") /\ 1 \in DOMAIN s2
  BY <1>3, CaseV6Block, <1>4, <1>5, JoinedApart, Zenon
<1>7. PICK s3, T3 : s3 = s2 \o InvestigationSchema /\ T3 = T2 \cup InvestigationTables
  OBVIOUS
<1>8. T2 \cap InvestigationTables = {}
  BY <1>1, <1>4 DEF IdentityTables, CaseTables, InvestigationTables
<1>9. /\ Block(s3, T3) /\ Created(s3) = Created(s2) \cup Created(InvestigationSchema)
      /\ s3[1] = Table("schema_meta") /\ 1 \in DOMAIN s3
  BY <1>6, InvestigationBlock, <1>7, <1>8, JoinedApart, Zenon
<1>10. PICK s4, T4 : s4 = s3 \o AuditSchema /\ T4 = T3 \cup {"outbound_audit"}
  OBVIOUS
<1>11. T3 \cap {"outbound_audit"} = {}
  BY <1>1, <1>4, <1>7 DEF IdentityTables, CaseTables, InvestigationTables
<1>12. /\ Block(s4, T4) /\ Created(s4) = Created(s3) \cup Created(AuditSchema)
       /\ s4[1] = Table("schema_meta") /\ 1 \in DOMAIN s4
  BY <1>9, AuditBlock, <1>10, <1>11, JoinedApart, Zenon
<1>13. PICK s5, T5 : s5 = s4 \o ApprovedRequestSchema /\ T5 = T4
  \cup {"approved_outbound_requests"}
  OBVIOUS
<1>14. T4 \cap {"approved_outbound_requests"} = {}
  BY <1>1, <1>4, <1>7, <1>10 DEF IdentityTables, CaseTables, InvestigationTables
<1>15. /\ Block(s5, T5) /\ Created(s5) = Created(s4) \cup Created(ApprovedRequestSchema)
       /\ s5[1] = Table("schema_meta") /\ 1 \in DOMAIN s5
  BY <1>12, ApprovedRequestBlock, <1>13, <1>14, JoinedApart, Zenon
<1>16. PICK s6, T6 : s6 = s5 \o DeliverySchema /\ T6 = T5 \cup {"outbound_delivery_events"}
  OBVIOUS
<1>17. T5 \cap {"outbound_delivery_events"} = {}
  BY <1>1, <1>4, <1>7, <1>10, <1>13 DEF IdentityTables, CaseTables, InvestigationTables
<1>18. /\ Block(s6, T6) /\ Created(s6) = Created(s5) \cup Created(DeliverySchema)
       /\ s6[1] = Table("schema_meta") /\ 1 \in DOMAIN s6
  BY <1>15, DeliveryBlock, <1>16, <1>17, JoinedApart, Zenon
<1>19. PICK s7, T7 : s7 = s6 \o BindingSchema /\ T7 = T6 \cup {"case_submission_bindings"}
  OBVIOUS
<1>20. T6 \cap {"case_submission_bindings"} = {}
  BY <1>1, <1>4, <1>7, <1>10, <1>13, <1>16 DEF IdentityTables, CaseTables, InvestigationTables
<1>21. /\ Block(s7, T7) /\ Created(s7) = Created(s6) \cup Created(BindingSchema)
       /\ s7[1] = Table("schema_meta") /\ 1 \in DOMAIN s7
  BY <1>18, BindingBlock, <1>19, <1>20, JoinedApart, Zenon
<1>22. PICK s8, T8 : s8 = s7 \o ResponseSchema /\ T8 = T7 \cup {"case_responses"}
  OBVIOUS
<1>23. T7 \cap {"case_responses"} = {}
  BY <1>1, <1>4, <1>7, <1>10, <1>13, <1>16, <1>19
     DEF IdentityTables, CaseTables, InvestigationTables
<1>24. /\ Block(s8, T8) /\ Created(s8) = Created(s7) \cup Created(ResponseSchema)
       /\ s8[1] = Table("schema_meta") /\ 1 \in DOMAIN s8
  BY <1>21, ResponseBlock, <1>22, <1>23, JoinedApart, Zenon
<1>25. Creation = s8
  BY <1>1, <1>4, <1>7, <1>10, <1>13, <1>16, <1>19, <1>22, Zenon DEF Creation
<1>26. Created(s8) = Created(IdentitySchema) \cup Created(TargetsSchema)
  \cup Created(CaseSchemaV6)
       \cup Created(InvestigationSchema) \cup Created(AuditSchema)
         \cup Created(ApprovedRequestSchema)
       \cup Created(DeliverySchema) \cup Created(BindingSchema) \cup Created(ResponseSchema)
  BY <1>3, <1>6, <1>9, <1>12, <1>15, <1>18, <1>21, <1>24, Zenon
<1>27. T8 = FirstTables \cup LaterTables
  BY <1>1, <1>4, <1>7, <1>10, <1>13, <1>16, <1>19, <1>22 DEF FirstTables, LaterTables
<1> QED
  BY <1>24, <1>25, <1>26, <1>27, Zenon

(* The recursion over the versions, unrolled. *)
LEMMA VersionsAre == 1..CurrentVersion = {1, 2, 3, 4, 5, 6, 7, 8, 9, 10} /\ CurrentVersion = 10
BY DEF CurrentVersion

LEMMA MigrationsAre ==
  /\ Migration[2] = M2Schema /\ Migration[3] = RenamedTables
  /\ Migration[4] = InvestigationSchema /\ Migration[5] = AuditSchema
  /\ Migration[6] = DeadlineColumns \o SnapshotTriggers
  /\ Migration[7] = ApprovedRequestSchema /\ Migration[8] = DeliverySchema
  /\ Migration[9] = BindingSchema /\ Migration[10] = ResponseSchema
BY DEF Migration, CurrentVersion

(* A schema and what the script of a migration adds to it. *)
Extended(s, v) == s \cup Created(Migration[v])

LEMMA SchemaOfVersions ==
  /\ SchemaOf[1] = Created(IdentitySchema)
  /\ SchemaOf[2] = SchemaOf[1] \cup Created(M2Schema)
  /\ SchemaOf[3] = Rebuilt(SchemaOf[2])
  /\ SchemaOf[4] = SchemaOf[3] \cup Created(InvestigationSchema)
  /\ SchemaOf[5] = SchemaOf[4] \cup Created(AuditSchema)
  /\ SchemaOf[6] = SchemaOf[5] \cup Created(DeadlineColumns \o SnapshotTriggers)
  /\ SchemaOf[7] = SchemaOf[6] \cup Created(ApprovedRequestSchema)
  /\ SchemaOf[8] = SchemaOf[7] \cup Created(DeliverySchema)
  /\ SchemaOf[9] = SchemaOf[8] \cup Created(BindingSchema)
  /\ SchemaOf[10] = SchemaOf[9] \cup Created(ResponseSchema)
<1> DEFINE Is(f) == f = [v \in 1..CurrentVersion |->
                      IF v = 1 THEN Created(IdentitySchema)
                      ELSE IF v = 3 THEN Rebuilt(f[2])
                      ELSE f[v - 1] \cup Created(Migration[v])]
<1>1. PICK s1, s2, s3, s4, s5 :
        /\ s1 = Created(IdentitySchema) /\ s2 = s1 \cup Created(Migration[2])
        /\ s3 = Rebuilt(s2) /\ s4 = s3 \cup Created(Migration[4])
        /\ s5 = s4 \cup Created(Migration[5])
  OBVIOUS
<1>2. PICK s6, s7, s8, s9, s10 :
        /\ s6 = s5 \cup Created(Migration[6]) /\ s7 = s6 \cup Created(Migration[7])
        /\ s8 = s7 \cup Created(Migration[8]) /\ s9 = s8 \cup Created(Migration[9])
        /\ s10 = s9 \cup Created(Migration[10])
  OBVIOUS
<1>3. PICK f : f = [v \in 1..CurrentVersion |->
        IF v = 1 THEN s1 ELSE IF v = 2 THEN s2 ELSE IF v = 3 THEN s3 ELSE IF v = 4 THEN s4
        ELSE IF v = 5 THEN s5 ELSE IF v = 6 THEN s6 ELSE IF v = 7 THEN s7 ELSE IF v = 8 THEN s8
        ELSE IF v = 9 THEN s9 ELSE s10]
  OBVIOUS
<1>4. /\ f[1] = s1 /\ f[2] = s2 /\ f[3] = s3 /\ f[4] = s4 /\ f[5] = s5 /\ f[6] = s6
      /\ f[7] = s7 /\ f[8] = s8 /\ f[9] = s9 /\ f[10] = s10
  BY <1>3, VersionsAre
<1>5. Is(f)
  <2>0. /\ f[1] = Created(IdentitySchema) /\ f[3] = Rebuilt(f[2])
        /\ f[2] = f[1] \cup Created(Migration[2]) /\ f[4] = f[3] \cup Created(Migration[4])
        /\ f[5] = f[4] \cup Created(Migration[5]) /\ f[6] = f[5] \cup Created(Migration[6])
        /\ f[7] = f[6] \cup Created(Migration[7]) /\ f[8] = f[7] \cup Created(Migration[8])
        /\ f[9] = f[8] \cup Created(Migration[9]) /\ f[10] = f[9] \cup Created(Migration[10])
    BY <1>1, <1>2, <1>4, Zenon
  <2>1. ASSUME NEW v \in 1..CurrentVersion
        PROVE  f[v] = IF v = 1 THEN Created(IdentitySchema)
                      ELSE IF v = 3 THEN Rebuilt(f[2])
                      ELSE f[v - 1] \cup Created(Migration[v])
    <3>1. v \in {1, 2, 3, 4, 5, 6, 7, 8, 9, 10}
      BY VersionsAre
    <3>2. CASE v \in {1, 3}
      BY <2>0, <3>2
    <3>3. CASE v \in {2, 4, 5, 6, 7, 8, 9, 10}
      <4>1. /\ f[2] = Extended(f[1], 2) /\ f[4] = Extended(f[3], 4) /\ f[5] = Extended(f[4], 5)
            /\ f[6] = Extended(f[5], 6) /\ f[7] = Extended(f[6], 7) /\ f[8] = Extended(f[7], 8)
            /\ f[9] = Extended(f[8], 9) /\ f[10] = Extended(f[9], 10)
        BY <2>0, Zenon DEF Extended
      <4>2. f[v] = Extended(f[v - 1], v)
        BY <3>3, <4>1
      <4> QED
        BY <3>3, <4>2 DEF Extended
    <3> QED
      BY <3>1, <3>2, <3>3
  <2>2. PICK g : g = [v \in 1..CurrentVersion |->
                 IF v = 1 THEN Created(IdentitySchema)
                 ELSE IF v = 3 THEN Rebuilt(f[2])
                 ELSE f[v - 1] \cup Created(Migration[v])]
    OBVIOUS
  <2>3. \A v \in 1..CurrentVersion : f[v] = g[v]
    BY <2>1, <2>2
  <2>4. f = [v \in 1..CurrentVersion |-> f[v]]
    BY <1>3
  <2>5. g = [v \in 1..CurrentVersion |-> g[v]]
    BY <2>2
  <2>6. f = g
    BY <2>3, <2>4, <2>5, Zenon
  <2> QED
    BY <2>2, <2>6, Zenon
<1>6. Is(SchemaOf)
  BY <1>5 DEF SchemaOf
<1>7. /\ SchemaOf[1] = Created(IdentitySchema)
      /\ SchemaOf[3] = Rebuilt(SchemaOf[2])
      /\ \A v \in 1..CurrentVersion : v \notin {1, 3} =>
           SchemaOf[v] = SchemaOf[v - 1] \cup Created(Migration[v])
  BY <1>6, VersionsAre
<1>8. \A v \in {2, 4, 5, 6, 7, 8, 9, 10} : SchemaOf[v] = SchemaOf[v - 1]
  \cup Created(Migration[v])
  BY <1>7 DEF CurrentVersion
<1>9. /\ SchemaOf[2] = SchemaOf[1] \cup Created(Migration[2])
      /\ SchemaOf[4] = SchemaOf[3] \cup Created(Migration[4])
      /\ SchemaOf[5] = SchemaOf[4] \cup Created(Migration[5])
      /\ SchemaOf[6] = SchemaOf[5] \cup Created(Migration[6])
      /\ SchemaOf[7] = SchemaOf[6] \cup Created(Migration[7])
      /\ SchemaOf[8] = SchemaOf[7] \cup Created(Migration[8])
      /\ SchemaOf[9] = SchemaOf[8] \cup Created(Migration[9])
      /\ SchemaOf[10] = SchemaOf[9] \cup Created(Migration[10])
  BY <1>8
<1> QED
  BY <1>7, <1>9, MigrationsAre, Zenon

-----------------------------------------------------------------------------
(* What the proofs below use of the schemas and the scripts. *)
RenamedNames == {"cases_v3", "case_events_v3"}

LEMMA RebuiltFacts ==
  /\ \A s : \A t : s \subseteq t => Rebuilt(s) \subseteq Rebuilt(t)
  /\ \A s : Rebuilt(s) \subseteq s \cup Created(CaseSchemaV3)
  /\ \A s : Rebuilt(s) \cap Created(RenamedTables) = {}
  /\ \A s : Rebuilt(s \cup Created(RenamedTables)) = Rebuilt(s)
  /\ \A s : Table("schema_meta") \subseteq s => Table("schema_meta") \subseteq Rebuilt(s)
<1>1. \A o \in Created(RenamedTables) : o[2] \in RenamedNames
  BY RenamedBlock DEF Block, On, RenamedNames
<1>2. \A o \in Created(CaseSchemaV3) : o[2] \in CaseTables
  BY CaseV3Block DEF Block, On
<1>3. CaseTables \cap RenamedNames = {}
  BY DEF CaseTables, RenamedNames
<1>4. \A s : Rebuilt(s) \cap Created(RenamedTables) = {}
  BY <1>1, <1>2, <1>3 DEF Rebuilt, RenamedNames
<1>5. \A s : Rebuilt(s \cup Created(RenamedTables)) = Rebuilt(s)
  BY <1>1 DEF Rebuilt, RenamedNames
<1>6. \A s : Table("schema_meta") \subseteq s => Table("schema_meta") \subseteq Rebuilt(s)
  BY DEF Rebuilt, Table
<1>7. \A s : \A t : s \subseteq t => Rebuilt(s) \subseteq Rebuilt(t)
  BY DEF Rebuilt
<1>8. \A s : Rebuilt(s) \subseteq s \cup Created(CaseSchemaV3)
  BY DEF Rebuilt
<1> QED
  BY <1>4, <1>5, <1>6, <1>7, <1>8

(* Version 3, and a new archive, have what the migrations make. *)
LEMMA SchemaOfThree ==
  SchemaOf[3] = Created(IdentitySchema) \cup Created(TargetsSchema) \cup Created(CaseSchemaV3)
<1>1. \A o \in Created(IdentitySchema) \cup Created(TargetsSchema) :
        o[2] \notin {"cases", "case_events", "cases_v3", "case_events_v3"}
  BY IdentityBlock, TargetsBlock DEF Block, On, IdentityTables
<1>2. PICK i, t, c, m :
        /\ i = Created(IdentitySchema) /\ t = Created(TargetsSchema)
        /\ c = Created(CaseSchemaV3) /\ m = Created(M2Schema)
  OBVIOUS
<1>3. t \subseteq m /\ m \subseteq t \cup c
  BY <1>2, M2Block
<1>4. \A o \in c : o[2] \in {"cases", "case_events", "cases_v3", "case_events_v3"}
  BY <1>2, CaseV3Block DEF Block, On, CaseTables
<1>5. {o \in i \cup m : o[2] \notin {"cases", "case_events", "cases_v3", "case_events_v3"}}
  \cup c
        = i \cup t \cup c
  BY <1>1, <1>2, <1>3, <1>4
<1> QED
  BY <1>2, <1>5, SchemaOfVersions DEF Rebuilt

LEMMA NewArchiveIsCurrent == SchemaOf[10] = Created(Creation)
<1>1. SchemaOf[10] = SchemaOf[3] \cup Created(InvestigationSchema) \cup Created(AuditSchema)
        \cup Created(DeadlineColumns \o SnapshotTriggers) \cup Created(ApprovedRequestSchema)
        \cup Created(DeliverySchema) \cup Created(BindingSchema) \cup Created(ResponseSchema)
  BY SchemaOfVersions, Zenon
<1>2. Created(CaseSchemaV6) = Created(CaseSchemaV3)
  \cup Created(DeadlineColumns \o SnapshotTriggers)
  BY CaseV6Block
<1> QED
  BY <1>1, <1>2, SchemaOfThree, CreationBlocks

LEMMA SchemasGrow ==
  \A v \in 1..CurrentVersion :
    SchemaOf[v] \subseteq Created(Creation) /\ Table("schema_meta") \subseteq SchemaOf[v]
<1>1. /\ SchemaOf[3] \subseteq SchemaOf[4] /\ SchemaOf[4] \subseteq SchemaOf[5]
      /\ SchemaOf[5] \subseteq SchemaOf[6] /\ SchemaOf[6] \subseteq SchemaOf[7]
      /\ SchemaOf[7] \subseteq SchemaOf[8] /\ SchemaOf[8] \subseteq SchemaOf[9]
      /\ SchemaOf[9] \subseteq SchemaOf[10]
  BY SchemaOfVersions
<1>2. SchemaOf[1] \subseteq SchemaOf[2] /\ SchemaOf[2] \subseteq SchemaOf[3]
  BY SchemaOfVersions, SchemaOfThree, M2Block
<1>3. Table("schema_meta") \subseteq SchemaOf[1]
  BY IdentityStarts, SchemaOfVersions DEF Created
<1>4. \A v \in {1, 2, 3, 4, 5, 6, 7, 8, 9, 10} :
        SchemaOf[1] \subseteq SchemaOf[v] /\ SchemaOf[v] \subseteq SchemaOf[10]
  BY <1>1, <1>2
<1> QED
  BY <1>3, <1>4, VersionsAre, NewArchiveIsCurrent

LEMMA SchemaExtended ==
  \A v \in 2..CurrentVersion : v # 3 =>
    SchemaOf[v] = SchemaOf[v - 1] \cup Created(Migration[v])
<1> SUFFICES ASSUME NEW v \in 2..CurrentVersion, v # 3
             PROVE  SchemaOf[v] = Extended(SchemaOf[v - 1], v)
  BY DEF Extended
<1>1. /\ SchemaOf[2] = Extended(SchemaOf[1], 2) /\ SchemaOf[4] = Extended(SchemaOf[3], 4)
      /\ SchemaOf[5] = Extended(SchemaOf[4], 5) /\ SchemaOf[6] = Extended(SchemaOf[5], 6)
      /\ SchemaOf[7] = Extended(SchemaOf[6], 7) /\ SchemaOf[8] = Extended(SchemaOf[7], 8)
      /\ SchemaOf[9] = Extended(SchemaOf[8], 9) /\ SchemaOf[10] = Extended(SchemaOf[9], 10)
  BY SchemaOfVersions, MigrationsAre, Zenon DEF Extended
<1>2. v \in {2, 4, 5, 6, 7, 8, 9, 10}
  BY DEF CurrentVersion
<1> QED
  BY <1>1, <1>2

(* Each script finds nothing of what it creates, unless it ran before. *)
LEMMA MigrationsApart ==
  \A v \in 2..CurrentVersion :
    /\ Apart(Migration[v])
    /\ Created(Migration[v]) \cap SchemaOf[v - 1] = {}
<1>1. /\ Block(Migration[2], {"targets"} \cup CaseTables) /\ Block(Migration[3], RenamedNames)
      /\ Block(Migration[4], InvestigationTables) /\ Block(Migration[5], {"outbound_audit"})
      /\ Block(Migration[6], {"cases"}) /\ Block(Migration[7], {"approved_outbound_requests"})
      /\ Block(Migration[8], {"outbound_delivery_events"})
      /\ Block(Migration[9], {"case_submission_bindings"})
      /\ Block(Migration[10], {"case_responses"})
  BY MigrationsAre, M2Block, RenamedBlock, InvestigationBlock, AuditBlock, SnapshotApart,
     ApprovedRequestBlock, DeliveryBlock, BindingBlock, ResponseBlock, Zenon DEF RenamedNames
<1>2. \A v \in 2..CurrentVersion : Apart(Migration[v])
  <2>1. \A v \in 2..CurrentVersion : v \in {2, 3, 4, 5, 6, 7, 8, 9, 10}
    BY DEF CurrentVersion
  <2> QED
    BY <1>1, <2>1 DEF Block
<1>3. PICK T3, T4, T5, T7, T8, T9 :
        /\ T3 = IdentityTables \cup {"targets"} \cup CaseTables
        /\ T4 = T3 \cup InvestigationTables /\ T5 = T4 \cup {"outbound_audit"}
        /\ T7 = T5 \cup {"approved_outbound_requests"}
        /\ T8 = T7 \cup {"outbound_delivery_events"}
        /\ T9 = T8 \cup {"case_submission_bindings"}
  OBVIOUS
<1>4. On(SchemaOf[1], IdentityTables)
  BY IdentityBlock, SchemaOfVersions DEF Block
<1>5. On(SchemaOf[2], IdentityTables \cup ({"targets"} \cup CaseTables))
  BY <1>4, M2Block, SchemaOfVersions DEF On, Block
<1>6. On(SchemaOf[3], T3)
  <2>1. On(Created(IdentitySchema) \cup Created(TargetsSchema), IdentityTables \cup {"targets"})
    BY IdentityBlock, TargetsBlock, OnEither DEF Block
  <2> QED
    BY <2>1, <1>3, SchemaOfThree, CaseV3Block, OnEither DEF Block
<1>7. On(SchemaOf[4], T4)
  BY <1>3, <1>6, InvestigationBlock, SchemaOfVersions DEF On, Block
<1>8. On(SchemaOf[5], T5)
  BY <1>3, <1>7, AuditBlock, SchemaOfVersions DEF On, Block
<1>9. On(SchemaOf[6], T5)
  BY <1>3, <1>8, SnapshotApart, SchemaOfVersions DEF On, Block, CaseTables
<1>10. On(SchemaOf[7], T7)
  BY <1>3, <1>9, ApprovedRequestBlock, SchemaOfVersions DEF On, Block
<1>11. On(SchemaOf[8], T8)
  BY <1>3, <1>10, DeliveryBlock, SchemaOfVersions DEF On, Block
<1>12. On(SchemaOf[9], T9)
  BY <1>3, <1>11, BindingBlock, SchemaOfVersions DEF On, Block
<1>13. /\ ({"targets"} \cup CaseTables) \cap IdentityTables = {}
       /\ RenamedNames \cap (IdentityTables \cup ({"targets"} \cup CaseTables)) = {}
       /\ InvestigationTables \cap T3 = {} /\ {"outbound_audit"} \cap T4 = {}
       /\ {"approved_outbound_requests"} \cap T5 = {}
       /\ {"outbound_delivery_events"} \cap T7 = {}
       /\ {"case_submission_bindings"} \cap T8 = {} /\ {"case_responses"} \cap T9 = {}
  BY <1>3 DEF CaseTables, IdentityTables, InvestigationTables, RenamedNames
<1>14. Created(Migration[2]) \cap SchemaOf[1] = {}
  BY <1>1, <1>4, <1>13, OnOthers DEF Block
<1>15. Created(Migration[3]) \cap SchemaOf[2] = {}
  BY <1>1, <1>5, <1>13, OnOthers DEF Block
<1>16. Created(Migration[4]) \cap SchemaOf[3] = {}
  BY <1>1, <1>6, <1>13, OnOthers DEF Block
<1>17. Created(Migration[5]) \cap SchemaOf[4] = {}
  BY <1>1, <1>7, <1>13, OnOthers DEF Block
<1>18. Created(Migration[6]) \cap SchemaOf[5] = {}
  <2>1. SchemaOf[5] = Created(IdentitySchema) \cup Created(TargetsSchema)
    \cup Created(CaseSchemaV3)
          \cup Created(InvestigationSchema) \cup Created(AuditSchema)
    BY SchemaOfVersions, SchemaOfThree, Zenon
  <2>2. /\ "cases" \notin IdentityTables /\ "cases" \notin {"targets"}
        /\ "cases" \notin InvestigationTables /\ "cases" \notin {"outbound_audit"}
    BY DEF IdentityTables, InvestigationTables
  <2>3. \A o \in Created(Migration[6]) : o[2] = "cases" /\ o \notin Created(CaseSchemaV3)
    BY <1>1, SnapshotApart, MigrationsAre DEF Block, On
  <2> QED
    BY <2>1, <2>2, <2>3, IdentityBlock, TargetsBlock, InvestigationBlock, AuditBlock
       DEF Block, On
<1>19. Created(Migration[7]) \cap SchemaOf[6] = {}
  BY <1>1, <1>9, <1>13, OnOthers DEF Block
<1>20. Created(Migration[8]) \cap SchemaOf[7] = {}
  BY <1>1, <1>10, <1>13, OnOthers DEF Block
<1>21. Created(Migration[9]) \cap SchemaOf[8] = {}
  BY <1>1, <1>11, <1>13, OnOthers DEF Block
<1>22. Created(Migration[10]) \cap SchemaOf[9] = {}
  BY <1>1, <1>12, <1>13, OnOthers DEF Block
<1>23. ASSUME NEW v \in 2..CurrentVersion PROVE Created(Migration[v]) \cap SchemaOf[v - 1] = {}
  <2>1. v \in {2, 3, 4, 5, 6, 7, 8, 9, 10}
    BY DEF CurrentVersion
  <2> QED
    BY <1>14, <1>15, <1>16, <1>17, <1>18, <1>19, <1>20, <1>21, <1>22, <2>1
<1> QED
  BY <1>2, <1>23

(* Only the migration to version 3 creates what a new archive has not. *)
LEMMA MigrationsCreate ==
  /\ \A v \in 2..CurrentVersion : v # 3 => Created(Migration[v]) \subseteq Created(Creation)
  /\ Created(Migration[3]) = Created(RenamedTables)
  /\ Created(RenamedTables) \cap Created(Creation) = {}
  /\ Created(CaseSchemaV3) \subseteq Created(Creation)
<1>1. /\ Created(Migration[2]) \subseteq SchemaOf[2]
      /\ Created(Migration[4]) \subseteq SchemaOf[4]
      /\ Created(Migration[5]) \subseteq SchemaOf[5]
      /\ Created(Migration[6]) \subseteq SchemaOf[6]
      /\ Created(Migration[7]) \subseteq SchemaOf[7]
      /\ Created(Migration[8]) \subseteq SchemaOf[8]
      /\ Created(Migration[9]) \subseteq SchemaOf[9]
      /\ Created(Migration[10]) \subseteq SchemaOf[10]
  BY SchemaOfVersions, MigrationsAre
<1>2. ASSUME NEW v \in 2..CurrentVersion, v # 3
      PROVE  Created(Migration[v]) \subseteq Created(Creation)
  <2>1. v \in {2, 4, 5, 6, 7, 8, 9, 10} /\ v \in 1..CurrentVersion
    BY <1>2 DEF CurrentVersion
  <2>2. Created(Migration[v]) \subseteq SchemaOf[v]
    BY <1>1, <2>1
  <2> QED
    BY <2>1, <2>2, SchemasGrow
<1>3. RenamedNames \cap (FirstTables \cup LaterTables) = {}
  BY DEF RenamedNames, FirstTables, LaterTables, IdentityTables, CaseTables, InvestigationTables
<1>4. Created(RenamedTables) \cap Created(Creation) = {}
  BY <1>3, RenamedBlock, CreationBlocks, OnOthers DEF Block, RenamedNames
<1>5. Created(CaseSchemaV3) \subseteq Created(Creation)
  BY SchemaOfThree, SchemasGrow DEF CurrentVersion
<1> QED
  BY <1>2, <1>4, <1>5, MigrationsAre

-----------------------------------------------------------------------------
(* The types, and the keys that were made: which of them a start may hold, and
   that the last one is in the keyring or was lost from it. *)
StartTypeOK ==
  /\ file \in BOOLEAN /\ artifacts \in BOOLEAN
  /\ rows \subseteq 1..made /\ blobs \subseteq 1..made
  /\ keyring \in 0..made /\ lost \in 0..made /\ made \in Nat
  /\ starts \in [Instances -> Start] /\ together \in BOOLEAN /\ ends \in Nat

StartKeyOK(s) ==
  /\ s.step \in Holding => s.key \in 1..made
  /\ s.exists => made # 0
  /\ s.step = "no_key" => lost # 0
  /\ s.step = "migrate" => s.from \in 1..(CurrentVersion - 1)

MadeInv ==
  /\ made # 0 => keyring # 0 \/ lost # 0
  /\ file \/ artifacts => made # 0
  /\ \A p \in Instances : StartKeyOK(starts[p])

LEMMA EndedIsStart ==
  Ended \in Start /\ Ended.step = "ended" /\ Ended.exists = FALSE /\ Ended.done = 0
<1>1. 0 \in Nat /\ 0 \in 0..CurrentVersion
  BY DEF CurrentVersion
<1>2. FALSE \in BOOLEAN
  BY Zenon
<1>3. "ended" \in Starting \cup Refused \cup {"ended", "open"}
  OBVIOUS
<1>4. Ended \in Start
  BY <1>1, <1>2, <1>3, Zenon DEF Ended, Start
<1> QED
  BY <1>4, Zenon DEF Ended

(* The fields after an update. *)
LEMMA StepSet ==
  ASSUME NEW e \in Start, NEW x \in Steps, NEW s, s = [e EXCEPT !.step = x]
  PROVE  /\ s \in Start /\ s.step = x /\ s.exists = e.exists /\ s.key = e.key
         /\ s.from = e.from /\ s.done = e.done
BY DEF Start, Steps

LEMMA ExistsSet ==
  ASSUME NEW e \in Start, NEW b \in BOOLEAN, NEW s, s = [e EXCEPT !.exists = b]
  PROVE  /\ s \in Start /\ s.step = e.step /\ s.exists = b /\ s.key = e.key
         /\ s.from = e.from /\ s.done = e.done
<1>1. s \in Start
  BY DEF Start
<1>2. s.step = e.step /\ s.exists = b /\ s.key = e.key /\ s.from = e.from /\ s.done = e.done
  BY DEF Start
<1> QED
  BY <1>1, <1>2

LEMMA KeySet ==
  ASSUME NEW e \in Start, NEW n \in Nat, NEW s, s = [e EXCEPT !.key = n]
  PROVE  /\ s \in Start /\ s.step = e.step /\ s.exists = e.exists /\ s.key = n
         /\ s.from = e.from /\ s.done = e.done
BY DEF Start

LEMMA FromSet ==
  ASSUME NEW e \in Start, NEW n \in 0..CurrentVersion, NEW s, s = [e EXCEPT !.from = n]
  PROVE  /\ s \in Start /\ s.step = e.step /\ s.exists = e.exists /\ s.key = e.key
         /\ s.from = n /\ s.done = e.done
BY DEF Start

LEMMA DoneSet ==
  ASSUME NEW e \in Start, NEW n \in Nat, NEW s, s = [e EXCEPT !.done = n]
  PROVE  /\ s \in Start /\ s.step = e.step /\ s.exists = e.exists /\ s.key = e.key
         /\ s.from = e.from /\ s.done = n
BY DEF Start

LEMMA LaunchedIs ==
  ASSUME NEW b \in BOOLEAN, NEW s, s = [Ended EXCEPT !.step = "key", !.exists = b]
  PROVE  s \in Start /\ s.step = "key" /\ s.exists = b /\ s.done = 0
<1>1. PICK e : e = [Ended EXCEPT !.step = "key"]
  OBVIOUS
<1>2. s = [e EXCEPT !.exists = b]
  BY <1>1, StepThenExists
<1>3. "key" \in Steps
  BY DEF Steps, Starting
<1>4. e \in Start /\ e.step = "key" /\ e.done = 0
  BY <1>1, <1>3, EndedIsStart, StepSet
<1>5. s \in Start /\ s.step = e.step /\ s.done = e.done
  BY <1>2, <1>4 DEF Start
<1>6. s.exists = b
  BY <1>2, <1>4, ExistsSet
<1> QED
  BY <1>4, <1>5, <1>6

LEMMA KeyedIs ==
  ASSUME NEW e \in Start, NEW n \in Nat, NEW s, s = WithKey(e, n)
  PROVE  s \in Start /\ s.step = "connect" /\ s.exists = e.exists /\ s.key = n /\ s.done = e.done
<1>1. PICK e1 : e1 = [e EXCEPT !.step = "connect"]
  OBVIOUS
<1>2. s = [e1 EXCEPT !.key = n]
  BY <1>1, StepThenKey DEF WithKey
<1>3. "connect" \in Steps
  BY DEF Steps, Starting
<1>4. e1 \in Start /\ e1.step = "connect" /\ e1.exists = e.exists /\ e1.done = e.done
  BY <1>1, <1>3, StepSet
<1> QED
  BY <1>2, <1>4, KeySet

LEMMA MigratingIs ==
  ASSUME NEW e \in Start, NEW v \in 0..CurrentVersion, NEW s, s = Migrating(e, v)
  PROVE  /\ s \in Start /\ s.step = (IF v = CurrentVersion THEN "open" ELSE "migrate")
         /\ s.exists = e.exists /\ s.key = e.key /\ s.from = v /\ s.done = 0
<1>1. PICK x : x = IF v = CurrentVersion THEN "open" ELSE "migrate"
  OBVIOUS
<1>2. s = [e EXCEPT !.step = x, !.from = v, !.done = 0]
  BY <1>1 DEF Migrating
<1>3. PICK e1 : e1 = [e EXCEPT !.step = x]
  OBVIOUS
<1>4. PICK e2 : e2 = [e1 EXCEPT !.from = v]
  OBVIOUS
<1>5. s = [e2 EXCEPT !.done = 0]
  BY <1>2, <1>3, <1>4, StepFromDone
<1>6. x \in Steps /\ 0 \in Nat
  BY <1>1 DEF Steps, Starting
<1>7. e1 \in Start /\ e1.step = x /\ e1.exists = e.exists /\ e1.key = e.key
  BY <1>3, <1>6, StepSet
<1>8. e2 \in Start /\ e2.step = x /\ e2.exists = e.exists /\ e2.key = e.key /\ e2.from = v
  BY <1>4, <1>7, FromSet
<1> QED
  BY <1>1, <1>5, <1>6, <1>8, DoneSet

LEMMA RefusedIs ==
  ASSUME NEW reason \in Refused, NEW s, s = RefusedWith(reason)
  PROVE  s \in Start /\ s.step = reason /\ s.exists = FALSE
BY EndedIsStart, StepSet DEF RefusedWith, Steps

(* A start goes on, and no key is made. *)
LEMMA StartKeepsKeys ==
  ASSUME StartTypeOK, MadeInv, NEW p \in Instances, NEW s \in Start,
         starts' = [starts EXCEPT ![p] = s],
         UNCHANGED <<files, keys, rows>>, together' \in BOOLEAN, ends' \in Nat,
         file' \in BOOLEAN, file' => file \/ starts[p].step \in Holding,
         StartKeyOK(s)
  PROVE  StartTypeOK' /\ MadeInv'
<1>1. \A q \in Instances : starts'[q] = IF q = p THEN s ELSE starts[q]
  BY DEF StartTypeOK
<1>2. /\ artifacts' = artifacts /\ blobs' = blobs /\ rows' = rows /\ keyring' = keyring
      /\ lost' = lost /\ made' = made
  BY DEF files, keys
<1>3. StartTypeOK'
  BY <1>2 DEF StartTypeOK
<1>4. made' # 0 => keyring' # 0 \/ lost' # 0
  BY <1>2 DEF MadeInv
<1>5. file' \/ artifacts' => made' # 0
  BY <1>2 DEF MadeInv, StartKeyOK, StartTypeOK
<1>6. ASSUME NEW q \in Instances PROVE StartKeyOK(starts[q])'
  <2>1. StartKeyOK(starts[q]) /\ StartKeyOK(s)
    BY DEF MadeInv
  <2> QED
    BY <1>1, <1>2, <2>1 DEF StartKeyOK
<1> QED
  BY <1>3, <1>4, <1>5, <1>6 DEF MadeInv

LEMMA InitKeys == Init => StartTypeOK /\ MadeInv
<1> SUFFICES ASSUME Init PROVE StartTypeOK /\ MadeInv
  OBVIOUS
<1>1. file \in BOOLEAN /\ artifacts \in BOOLEAN /\ together \in BOOLEAN
  BY Zenon DEF Init
<1>2. /\ rows \subseteq 1..made /\ blobs \subseteq 1..made
      /\ keyring \in 0..made /\ lost \in 0..made /\ made \in Nat /\ ends \in Nat
  BY DEF Init
<1>3. starts \in [Instances -> Start]
  BY EndedIsStart DEF Init
<1>4. \A p \in Instances : StartKeyOK(starts[p])
  BY EndedIsStart DEF Init, StartKeyOK, Holding, Past
<1>5. (made # 0 => keyring # 0 \/ lost # 0) /\ (file \/ artifacts => made # 0)
  BY DEF Init
<1> QED
  BY <1>1, <1>2, <1>3, <1>4, <1>5 DEF StartTypeOK, MadeInv

LEMMA LaunchKeys ==
  ASSUME StartTypeOK, MadeInv, NEW p \in Instances, Launch(p) PROVE StartTypeOK' /\ MadeInv'
<1>1. PICK b : b = ArchiveExists
  OBVIOUS
<1>2. b \in BOOLEAN /\ (b => made # 0)
  BY <1>1 DEF ArchiveExists, StartTypeOK, MadeInv
<1>3. PICK s : s = [Ended EXCEPT !.step = "key", !.exists = b]
  OBVIOUS
<1>4. s \in Start /\ s.step = "key" /\ s.exists = b
  BY <1>2, <1>3, LaunchedIs
<1>5. starts' = [starts EXCEPT ![p] = s]
  BY <1>1, <1>3, Zenon DEF Launch
<1>6. /\ UNCHANGED <<files, keys, rows>> /\ file' = file /\ ends' = ends
      /\ together' \in BOOLEAN /\ file \in BOOLEAN /\ ends \in Nat
  BY DEF Launch, database, StartTypeOK
<1>7. StartKeyOK(s)
  BY <1>2, <1>4 DEF StartKeyOK, Holding, Past
<1> QED
  BY <1>4, <1>5, <1>6, <1>7, StartKeepsKeys

LEMMA GetKeyKeys ==
  ASSUME StartTypeOK, MadeInv, NEW p \in Instances, GetKey(p) PROVE StartTypeOK' /\ MadeInv'
<1>1. /\ starts[p] \in Start /\ starts[p].step = "key" /\ StartKeyOK(starts[p])
      /\ keyring \in Nat /\ keyring <= made /\ made \in Nat
  BY DEF GetKey, StartTypeOK, MadeInv
<1>2. /\ UNCHANGED <<files, keys, rows>> /\ file' = file /\ ends' = ends /\ together' = together
      /\ file \in BOOLEAN /\ together \in BOOLEAN /\ ends \in Nat
  BY DEF GetKey, database, StartTypeOK
<1>3. CASE keyring # 0
  <2>1. PICK s : s = WithKey(starts[p], keyring)
    OBVIOUS
  <2>2. starts' = [starts EXCEPT ![p] = s]
    BY <1>3, <2>1, Zenon DEF GetKey
  <2>3. s \in Start /\ s.step = "connect" /\ s.key = keyring /\ s.exists = starts[p].exists
    BY <1>1, <2>1, KeyedIs
  <2>4. StartKeyOK(s)
    BY <1>1, <1>3, <2>3 DEF StartKeyOK
  <2> QED
    BY <1>2, <2>2, <2>3, <2>4, StartKeepsKeys
<1>4. CASE keyring = 0 /\ starts[p].exists
  <2>1. PICK s : s = RefusedWith("no_key")
    OBVIOUS
  <2>2. starts' = [starts EXCEPT ![p] = s]
    BY <1>4, <2>1, Zenon DEF GetKey
  <2>3. s \in Start /\ s.step = "no_key" /\ s.exists = FALSE
    BY <2>1, RefusedIs DEF Refused
  <2>4. lost # 0
    BY <1>1, <1>4 DEF StartKeyOK, MadeInv
  <2>5. StartKeyOK(s)
    BY <2>3, <2>4 DEF StartKeyOK, Holding, Past
  <2> QED
    BY <1>2, <2>2, <2>3, <2>5, StartKeepsKeys
<1>5. CASE keyring = 0 /\ ~starts[p].exists
  <2>1. PICK s : s = [starts[p] EXCEPT !.step = "set"]
    OBVIOUS
  <2>2. starts' = [starts EXCEPT ![p] = s]
    BY <1>5, <2>1 DEF GetKey
  <2>3. s \in Start /\ s.step = "set" /\ s.exists = starts[p].exists
    BY <1>1, <2>1, StepSet DEF Steps, Starting
  <2>4. StartKeyOK(s)
    BY <1>5, <2>3 DEF StartKeyOK, Holding, Past
  <2> QED
    BY <1>2, <2>2, <2>3, <2>4, StartKeepsKeys
<1> QED
  BY <1>3, <1>4, <1>5

LEMMA SetKeyKeys ==
  ASSUME StartTypeOK, MadeInv, NEW p \in Instances, SetKey(p) PROVE StartTypeOK' /\ MadeInv'
<1>1. starts[p] \in Start /\ made \in Nat /\ made + 1 \in Nat /\ StartKeyOK(starts[p])
  BY DEF StartTypeOK, MadeInv
<1>2. PICK s : s = WithKey(starts[p], made + 1)
  OBVIOUS
<1>3. /\ starts' = [starts EXCEPT ![p] = s] /\ made' = made + 1 /\ keyring' = made + 1
      /\ UNCHANGED <<file, rows, artifacts, blobs, lost, together, ends>>
  BY <1>2 DEF SetKey, database, files
<1>4. s \in Start /\ s.step = "connect" /\ s.key = made + 1 /\ s.exists = starts[p].exists
  BY <1>1, <1>2, KeyedIs
<1>5. \A q \in Instances : starts'[q] = IF q = p THEN s ELSE starts[q]
  BY <1>3 DEF StartTypeOK
<1>6. StartTypeOK'
  <2>1. rows' \subseteq 1..made' /\ blobs' \subseteq 1..made'
    BY <1>1, <1>3 DEF StartTypeOK
  <2>2. keyring' \in 0..made' /\ lost' \in 0..made' /\ made' \in Nat
    BY <1>1, <1>3 DEF StartTypeOK
  <2> QED
    BY <1>3, <1>4, <2>1, <2>2 DEF StartTypeOK
<1>7. ASSUME NEW q \in Instances PROVE StartKeyOK(starts[q])'
  <2>1. StartKeyOK(starts[q])
    BY DEF MadeInv
  <2> QED
    BY <1>1, <1>3, <1>4, <1>5, <2>1 DEF StartKeyOK
<1> QED
  BY <1>1, <1>3, <1>6, <1>7 DEF MadeInv

LEMMA KeyringFailsKeys ==
  ASSUME StartTypeOK, MadeInv, NEW p \in Instances, KeyringFails(p)
  PROVE  StartTypeOK' /\ MadeInv'
<1>1. PICK s : s = RefusedWith("no_keyring")
  OBVIOUS
<1>2. s \in Start /\ s.step = "no_keyring" /\ s.exists = FALSE
  BY <1>1, RefusedIs DEF Refused
<1>3. /\ starts' = [starts EXCEPT ![p] = s]
      /\ UNCHANGED <<files, keys, rows, file, together, ends>>
      /\ together \in BOOLEAN /\ ends \in Nat /\ file \in BOOLEAN
  BY <1>1 DEF KeyringFails, database, StartTypeOK
<1>4. StartKeyOK(s)
  BY <1>2 DEF StartKeyOK, Holding, Past
<1> QED
  BY <1>2, <1>3, <1>4, StartKeepsKeys

LEMMA ConnectKeys ==
  ASSUME StartTypeOK, MadeInv, NEW p \in Instances, Connect(p) PROVE StartTypeOK' /\ MadeInv'
<1>1. /\ starts[p] \in Start /\ starts[p].step = "connect" /\ StartKeyOK(starts[p])
      /\ UNCHANGED <<files, keys, rows, together, ends>> /\ file' = TRUE
      /\ together \in BOOLEAN /\ ends \in Nat
  BY DEF Connect, StartTypeOK, MadeInv
<1>2. PICK s : s = [starts[p] EXCEPT !.step = "version"]
  OBVIOUS
<1>3. s \in Start /\ s.step = "version" /\ s.key = starts[p].key /\ s.exists = starts[p].exists
  BY <1>1, <1>2, StepSet DEF Steps, Starting
<1>4. starts' = [starts EXCEPT ![p] = s]
  BY <1>2 DEF Connect, Moves
<1>5. StartKeyOK(s)
  BY <1>1, <1>3 DEF StartKeyOK, Holding, Past
<1>6. starts[p].step \in Holding
  BY <1>1 DEF Holding
<1> QED
  BY <1>1, <1>3, <1>4, <1>5, <1>6, StartKeepsKeys

(* A start that has connected keeps its key, or is refused. *)
LEMMA ScriptKeepsKeys ==
  ASSUME StartTypeOK, MadeInv, NEW p \in Instances, starts[p].step \in Past,
         NEW s \in Start, starts' = [starts EXCEPT ![p] = s],
         UNCHANGED <<file, rows, files, keys, together, ends>>,
         \/ /\ s.step \in Past /\ s.key = starts[p].key /\ s.exists = starts[p].exists
            /\ s.step = "migrate" => s.from \in 1..(CurrentVersion - 1)
         \/ s.step = "schema_error" /\ s.exists = FALSE
  PROVE  StartTypeOK' /\ MadeInv'
<1>1. StartKeyOK(starts[p]) /\ together \in BOOLEAN /\ ends \in Nat /\ file \in BOOLEAN
  BY DEF StartTypeOK, MadeInv
<1>2. StartKeyOK(s)
  BY <1>1 DEF StartKeyOK, Holding, Past
<1> QED
  BY <1>1, <1>2, StartKeepsKeys

LEMMA SchemaErrorIs ==
  ASSUME NEW s, s = RefusedWith("schema_error")
  PROVE  s \in Start /\ s.step = "schema_error" /\ s.exists = FALSE
BY RefusedIs DEF Refused

LEMMA ReadVersionKeys ==
  ASSUME StartTypeOK, MadeInv, NEW p \in Instances, ReadVersion(p)
  PROVE  StartTypeOK' /\ MadeInv'
<1>1. /\ starts[p].step \in Past /\ starts[p] \in Start
      /\ UNCHANGED <<file, rows, files, keys, together, ends>>
  BY DEF ReadVersion, Past, StartTypeOK, database
<1>2. PICK s : /\ \/ s = [starts[p] EXCEPT !.step = "create"]
                  \/ s = RefusedWith("schema_error")
                  \/ s = Migrating(starts[p], version) /\ version \in 1..CurrentVersion
               /\ starts' = [starts EXCEPT ![p] = s]
  BY DEF ReadVersion
<1>3. CASE s = [starts[p] EXCEPT !.step = "create"]
  <2>1. s \in Start /\ s.step = "create" /\ s.key = starts[p].key /\ s.exists = starts[p].exists
    BY <1>1, <1>3, StepSet DEF Steps, Starting
  <2> QED
    BY <1>1, <1>2, <2>1, ScriptKeepsKeys DEF Past
<1>4. CASE s = RefusedWith("schema_error")
  BY <1>1, <1>2, <1>4, SchemaErrorIs, ScriptKeepsKeys
<1>5. CASE s = Migrating(starts[p], version) /\ version \in 1..CurrentVersion
  <2>1. version \in 0..CurrentVersion
    BY <1>5 DEF CurrentVersion
  <2>2. /\ s \in Start /\ s.step = (IF version = CurrentVersion THEN "open" ELSE "migrate")
        /\ s.exists = starts[p].exists /\ s.key = starts[p].key /\ s.from = version
    BY <1>1, <1>5, <2>1, MigratingIs
  <2>3. s.step = "migrate" => s.from \in 1..(CurrentVersion - 1)
    BY <1>5, <2>2 DEF CurrentVersion
  <2>4. s.step \in Past
    BY <2>2 DEF Past
  <2> QED
    BY <1>1, <1>2, <2>2, <2>3, <2>4, ScriptKeepsKeys
<1> QED
  BY <1>2, <1>3, <1>4, <1>5

LEMMA ExecuteKeys ==
  ASSUME StartTypeOK, MadeInv, NEW p \in Instances, Execute(p) PROVE StartTypeOK' /\ MadeInv'
<1>1. /\ starts[p].step \in Past /\ starts[p] \in Start /\ StartKeyOK(starts[p])
      /\ UNCHANGED <<file, rows, files, keys, together, ends>>
  BY DEF Execute, Past, StartTypeOK, MadeInv
<1>2. PICK s : /\ \/ s = [starts[p] EXCEPT !.done = starts[p].done + 1]
                  \/ s = RefusedWith("schema_error")
               /\ starts' = [starts EXCEPT ![p] = s]
  BY DEF Execute
<1>3. CASE s = [starts[p] EXCEPT !.done = starts[p].done + 1]
  <2>1. starts[p].done + 1 \in Nat
    BY <1>1 DEF Start
  <2>2. /\ s \in Start /\ s.step = starts[p].step /\ s.key = starts[p].key
        /\ s.exists = starts[p].exists /\ s.from = starts[p].from
    BY <1>1, <1>3, <2>1, DoneSet
  <2>3. s.step = "migrate" => s.from \in 1..(CurrentVersion - 1)
    BY <1>1, <2>2 DEF StartKeyOK
  <2> QED
    BY <1>1, <1>2, <2>2, <2>3, ScriptKeepsKeys
<1>4. CASE s = RefusedWith("schema_error")
  BY <1>1, <1>2, <1>4, SchemaErrorIs, ScriptKeepsKeys
<1> QED
  BY <1>2, <1>3, <1>4

LEMMA InsertVersionKeys ==
  ASSUME StartTypeOK, MadeInv, NEW p \in Instances, InsertVersion(p)
  PROVE  StartTypeOK' /\ MadeInv'
<1>1. /\ starts[p].step \in Past /\ starts[p] \in Start
      /\ UNCHANGED <<file, rows, files, keys, together, ends>>
  BY DEF InsertVersion, Past, StartTypeOK
<1>2. PICK s : /\ \/ s = [starts[p] EXCEPT !.step = "open"]
                  \/ s = RefusedWith("schema_error")
               /\ starts' = [starts EXCEPT ![p] = s]
  BY DEF InsertVersion, Moves
<1>3. CASE s = [starts[p] EXCEPT !.step = "open"]
  <2>1. s \in Start /\ s.step = "open" /\ s.key = starts[p].key /\ s.exists = starts[p].exists
    BY <1>1, <1>3, StepSet DEF Steps
  <2> QED
    BY <1>1, <1>2, <2>1, ScriptKeepsKeys DEF Past
<1>4. CASE s = RefusedWith("schema_error")
  BY <1>1, <1>2, <1>4, SchemaErrorIs, ScriptKeepsKeys
<1> QED
  BY <1>2, <1>3, <1>4

LEMMA SetVersionKeys ==
  ASSUME StartTypeOK, MadeInv, NEW p \in Instances, SetVersion(p) PROVE StartTypeOK' /\ MadeInv'
<1>1. /\ starts[p].step \in Past /\ starts[p] \in Start
      /\ starts[p].from \in 1..(CurrentVersion - 1)
      /\ UNCHANGED <<file, rows, files, keys, together, ends>>
  BY DEF SetVersion, Past, StartTypeOK, MadeInv, StartKeyOK
<1>2. PICK s : /\ \/ s = Migrating(starts[p], starts[p].from + 1)
                  \/ s = RefusedWith("schema_error")
               /\ starts' = [starts EXCEPT ![p] = s]
  BY DEF SetVersion
<1>3. CASE s = Migrating(starts[p], starts[p].from + 1)
  <2>1. PICK v : v = starts[p].from + 1
    OBVIOUS
  <2>2. v \in 0..CurrentVersion /\ (v # CurrentVersion => v \in 1..(CurrentVersion - 1))
    BY <1>1, <2>1 DEF CurrentVersion
  <2>3. /\ s \in Start /\ s.step = (IF v = CurrentVersion THEN "open" ELSE "migrate")
        /\ s.exists = starts[p].exists /\ s.key = starts[p].key /\ s.from = v
    BY <1>1, <1>3, <2>1, <2>2, MigratingIs
  <2>4. s.step = "migrate" => s.from \in 1..(CurrentVersion - 1)
    BY <2>2, <2>3
  <2>5. s.step \in Past
    BY <2>3 DEF Past
  <2> QED
    BY <1>1, <1>2, <2>3, <2>4, <2>5, ScriptKeepsKeys
<1>4. CASE s = RefusedWith("schema_error")
  BY <1>1, <1>2, <1>4, SchemaErrorIs, ScriptKeepsKeys
<1> QED
  BY <1>2, <1>3, <1>4

LEMMA EndsKeys ==
  ASSUME StartTypeOK, MadeInv, NEW p \in Instances, EndEarly(p) \/ Close(p)
  PROVE  StartTypeOK' /\ MadeInv'
<1>1. /\ starts' = [starts EXCEPT ![p] = Ended]
      /\ UNCHANGED <<files, keys, rows, file, together>> /\ ends' \in Nat
      /\ together \in BOOLEAN /\ file \in BOOLEAN
  BY DEF EndEarly, Close, database, StartTypeOK
<1>2. StartKeyOK(Ended)
  BY EndedIsStart DEF StartKeyOK, Holding, Past
<1> QED
  BY <1>1, <1>2, EndedIsStart, StartKeepsKeys

LEMMA StoreKeys ==
  ASSUME StartTypeOK, MadeInv, NEW p \in Instances, StoreRow(p) \/ StoreArtifact(p)
  PROVE  StartTypeOK' /\ MadeInv'
<1>1. StartKeyOK(starts[p]) /\ starts[p].step = "open"
  BY DEF StoreRow, StoreArtifact, MadeInv
<1>2. starts[p].key \in 1..made
  BY <1>1 DEF StartKeyOK, Holding, Past
<1>3. /\ rows' \subseteq rows \cup {starts[p].key}
      /\ blobs' \subseteq blobs \cup {starts[p].key}
      /\ UNCHANGED <<file, keyring, lost, made, starts, together, ends>>
      /\ artifacts' \in BOOLEAN
  BY DEF StoreRow, StoreArtifact, StartTypeOK, database, files, keys
<1>4. StartTypeOK'
  BY <1>2, <1>3 DEF StartTypeOK
<1>5. made # 0
  BY <1>2 DEF StartTypeOK
<1> QED
  BY <1>3, <1>4, <1>5 DEF MadeInv, StartKeyOK

LEMMA KeyringKeys ==
  ASSUME StartTypeOK, MadeInv, LoseKey \/ RestoreKey PROVE StartTypeOK' /\ MadeInv'
<1>1. /\ UNCHANGED <<file, rows, artifacts, blobs, made, starts, together, ends>>
      /\ keyring' \in 0..made /\ lost' \in 0..made /\ (keyring' # 0 \/ lost' # 0) /\ lost' # 0
  BY DEF LoseKey, RestoreKey, database, files, StartTypeOK
<1> QED
  BY <1>1 DEF StartTypeOK, MadeInv, StartKeyOK

LEMMA LoseDatabaseKeys ==
  ASSUME StartTypeOK, MadeInv, LoseDatabase PROVE StartTypeOK' /\ MadeInv'
<1>1. /\ starts' = [p \in Instances |-> Ended] /\ file' = FALSE /\ rows' = {}
      /\ UNCHANGED <<artifacts, blobs, keyring, lost, made, together, ends>>
  BY DEF LoseDatabase, files, keys
<1>2. FALSE \in BOOLEAN
  BY Zenon
<1>3. StartTypeOK'
  BY <1>1, <1>2, EndedIsStart DEF StartTypeOK
<1>4. \A p \in Instances : starts'[p] = Ended
  BY <1>1
<1>5. \A p \in Instances : StartKeyOK(starts[p])'
  BY <1>4, EndedIsStart DEF StartKeyOK, Holding, Past
<1> QED
  BY <1>1, <1>3, <1>5 DEF MadeInv

LEMMA StepKeys == StartTypeOK /\ MadeInv /\ [Next]_vars => StartTypeOK' /\ MadeInv'
<1> SUFFICES ASSUME StartTypeOK, MadeInv, [Next]_vars PROVE StartTypeOK' /\ MadeInv'
  OBVIOUS
<1>1. CASE \E p \in Instances : Step(p)
  BY <1>1, GetKeyKeys, SetKeyKeys, KeyringFailsKeys, ConnectKeys, ReadVersionKeys,
     ExecuteKeys, InsertVersionKeys, SetVersionKeys DEF Step
<1>2. CASE \E p \in Instances : Launch(p) \/ Uses(p)
  BY <1>2, LaunchKeys, StoreKeys, EndsKeys DEF Uses
<1>3. CASE Mishap
  BY <1>3, EndsKeys, KeyringKeys, LoseDatabaseKeys DEF Mishap
<1>4. CASE UNCHANGED vars
  BY <1>4 DEF vars, database, files, keys, StartTypeOK, MadeInv, StartKeyOK
<1> QED
  BY <1>1, <1>2, <1>3, <1>4 DEF Next

-----------------------------------------------------------------------------
(* The statements of its script that a start has executed. *)
Executed(s) == UNION {Script(s)[k] : k \in 1..s.done}

(* What a start knows of the database while others may change it: a creator is
   the first, as the table of the version is created first; a migrator whose
   version was overtaken does not get past the update of the version. *)
StartSchemaOK(s) ==
  /\ s.step \in {"key", "set", "connect", "version"} => s.done = 0
  /\ s.step = "create" =>
       /\ s.done \in 0..Len(Creation) /\ Executed(s) \subseteq schema
       /\ s.done > 0 => version = 0
  /\ s.step = "migrate" =>
       /\ s.done \in 0..Len(Script(s))
       /\ s.from <= version /\ version <= CurrentVersion
       /\ version = s.from => Executed(s) \subseteq schema
  /\ s.step = "open" => version = CurrentVersion

HasCreated(p) == starts[p].step = "create" /\ starts[p].done > 0

SchemaInv ==
  /\ version \in 0..(CurrentVersion + 1)
  /\ schema \subseteq Created(Creation) \cup Created(RenamedTables)
  /\ version \in 1..CurrentVersion => SchemaOf[version] \subseteq schema
  /\ version # 0 => Table("schema_meta") \subseteq schema
  /\ \A p \in Instances : StartSchemaOK(starts[p])
  /\ \A p, q \in Instances : HasCreated(p) /\ HasCreated(q) => p = q

LEMMA ScriptIs ==
  ASSUME NEW s \in Start,
         s.step = "create" \/ (s.step = "migrate" /\ s.from \in 1..(CurrentVersion - 1))
  PROVE  /\ Apart(Script(s))
         /\ Created(Script(s)) \subseteq Created(Creation) \cup Created(RenamedTables)
         /\ DOMAIN Script(s) = 1..Len(Script(s)) /\ Len(Script(s)) \in Nat
         /\ s.step = "create" => Script(s) = Creation
         /\ s.step = "migrate" => Script(s) = Migration[s.from + 1]
                                  /\ s.from + 1 \in 2..CurrentVersion
<1>1. CASE s.step = "create"
  <2>1. Script(s) = Creation
    BY <1>1 DEF Script
  <2>2. Apart(Creation) /\ DOMAIN Creation = 1..Len(Creation) /\ Len(Creation) \in Nat
    BY CreationBlocks DEF Block, Apart, Makes
  <2> QED
    BY <1>1, <2>1, <2>2
<1>2. CASE s.step = "migrate" /\ s.from \in 1..(CurrentVersion - 1)
  <2>1. Script(s) = Migration[s.from + 1] /\ s.from + 1 \in 2..CurrentVersion
    BY <1>2 DEF Script, CurrentVersion
  <2>2. Apart(Migration[s.from + 1])
    BY <2>1, MigrationsApart
  <2>3. DOMAIN Migration[s.from + 1] = 1..Len(Migration[s.from + 1])
        /\ Len(Migration[s.from + 1]) \in Nat
    BY <2>2 DEF Apart, Makes
  <2>4. Created(Migration[s.from + 1]) \subseteq Created(Creation) \cup Created(RenamedTables)
    <3>1. CASE s.from + 1 = 3
      BY <3>1, MigrationsCreate
    <3>2. CASE s.from + 1 # 3
      BY <2>1, <3>2, MigrationsCreate
    <3> QED
      BY <3>1, <3>2
  <2> QED
    BY <1>2, <2>1, <2>2, <2>3, <2>4
<1> QED
  BY <1>1, <1>2

LEMMA NothingExecuted == ASSUME NEW s, s.done = 0 PROVE Executed(s) = {}
BY DEF Executed

LEMMA AllExecuted ==
  ASSUME NEW s, DOMAIN Script(s) = 1..Len(Script(s)), s.done = Len(Script(s))
  PROVE  Executed(s) = Created(Script(s))
BY DEF Executed, Created

(* One statement more. *)
LEMMA NextExecuted ==
  ASSUME NEW e \in Start, NEW s \in Start, s.step = e.step, s.from = e.from,
         s.done = e.done + 1
  PROVE  Script(s) = Script(e) /\ Executed(s) = Executed(e) \cup Script(e)[e.done + 1]
<1>1. Script(s) = Script(e)
  BY DEF Script
<1>2. e.done \in Nat
  BY DEF Start
<1>3. 1..s.done = (1..e.done) \cup {e.done + 1}
  BY <1>2
<1> QED
  BY <1>1, <1>3 DEF Executed

(* A start goes on, and the database stays as it is. *)
LEMMA StartKeepsSchema ==
  ASSUME SchemaInv, starts \in [Instances -> Start], NEW p \in Instances, NEW s,
         starts' = [starts EXCEPT ![p] = s], UNCHANGED <<schema, version>>,
         StartSchemaOK(s), s.step = "create" => s.done = 0
  PROVE  SchemaInv'
<1>1. \A q \in Instances : starts'[q] = IF q = p THEN s ELSE starts[q]
  OBVIOUS
<1>2. ASSUME NEW q \in Instances PROVE StartSchemaOK(starts[q])'
  <2>1. StartSchemaOK(starts[q])
    BY DEF SchemaInv
  <2>2. PICK e : e = starts'[q] /\ StartSchemaOK(e)
    BY <1>1, <2>1
  <2> QED
    BY <2>2 DEF StartSchemaOK
<1>3. \A q \in Instances : HasCreated(q)' => HasCreated(q)
  BY <1>1 DEF HasCreated
<1> QED
  BY <1>2, <1>3 DEF SchemaInv

LEMMA InitSchema == Init => SchemaInv
<1> SUFFICES ASSUME Init PROVE SchemaInv
  OBVIOUS
<1>1. \A p \in Instances : starts[p] = Ended
  BY DEF Init
<1>2. \A p \in Instances : StartSchemaOK(starts[p])
  BY <1>1, EndedIsStart DEF StartSchemaOK
<1>3. \A p \in Instances : ~HasCreated(p)
  BY <1>1, EndedIsStart DEF HasCreated
<1>4. CASE version = 0 /\ schema = {}
  BY <1>2, <1>3, <1>4 DEF SchemaInv, CurrentVersion
<1>5. CASE version \in 1..(CurrentVersion + 1)
           /\ schema = SchemaOf[IF version > CurrentVersion THEN CurrentVersion ELSE version]
  <2>1. PICK v : v = IF version > CurrentVersion THEN CurrentVersion ELSE version
    OBVIOUS
  <2>2. v \in 1..CurrentVersion /\ (version \in 1..CurrentVersion => v = version)
    BY <1>5, <2>1 DEF CurrentVersion
  <2>3. SchemaOf[v] \subseteq Created(Creation) /\ Table("schema_meta") \subseteq SchemaOf[v]
    BY <2>2, SchemasGrow
  <2>4. schema = SchemaOf[v]
    BY <1>5, <2>1
  <2>5. version \in 0..(CurrentVersion + 1)
    BY <1>5 DEF CurrentVersion
  <2> QED
    BY <1>2, <1>3, <2>2, <2>3, <2>4, <2>5 DEF SchemaInv
<1> QED
  BY <1>4, <1>5 DEF Init

LEMMA LaunchSchema ==
  ASSUME StartTypeOK, SchemaInv, NEW p \in Instances, Launch(p) PROVE SchemaInv'
<1>1. PICK b : b = ArchiveExists
  OBVIOUS
<1>2. b \in BOOLEAN
  BY <1>1 DEF ArchiveExists, StartTypeOK
<1>3. PICK s : s = [Ended EXCEPT !.step = "key", !.exists = b]
  OBVIOUS
<1>4. s.step = "key" /\ s.done = 0
  BY <1>2, <1>3, LaunchedIs
<1>5. starts' = [starts EXCEPT ![p] = s]
  BY <1>1, <1>3, Zenon DEF Launch
<1>6. UNCHANGED <<schema, version>>
  BY DEF Launch, database
<1> QED
  BY <1>4, <1>5, <1>6, StartKeepsSchema DEF StartTypeOK, StartSchemaOK

(* The steps before the version is read. *)
LEMMA EarlySchema ==
  ASSUME StartTypeOK, SchemaInv, NEW p \in Instances,
         GetKey(p) \/ SetKey(p) \/ KeyringFails(p) \/ Connect(p)
  PROVE  SchemaInv'
<1>1. /\ starts[p] \in Start /\ starts[p].done = 0 /\ UNCHANGED <<schema, version>>
      /\ keyring \in Nat /\ made + 1 \in Nat
  BY DEF GetKey, SetKey, KeyringFails, Connect, StartTypeOK, SchemaInv, StartSchemaOK, database
<1>2. PICK s : /\ starts' = [starts EXCEPT ![p] = s]
               /\ \/ \E n \in Nat : s = WithKey(starts[p], n)
                  \/ \E x \in {"set", "version"} : s = [starts[p] EXCEPT !.step = x]
                  \/ \E reason \in Refused : s = RefusedWith(reason)
  <2>1. CASE GetKey(p)
    BY <1>1, <2>1 DEF GetKey, Refused
  <2>2. CASE SetKey(p)
    BY <1>1, <2>2 DEF SetKey
  <2>3. CASE KeyringFails(p)
    BY <1>1, <2>3 DEF KeyringFails, Refused
  <2>4. CASE Connect(p)
    BY <1>1, <2>4 DEF Connect, Moves
  <2> QED
    BY <2>1, <2>2, <2>3, <2>4
<1>3. CASE \E n \in Nat : s = WithKey(starts[p], n)
  <2>1. PICK n \in Nat : s = WithKey(starts[p], n)
    BY <1>3
  <2>2. s.done = starts[p].done /\ s.step = "connect"
    BY <1>1, <2>1, KeyedIs
  <2>3. s.step = "connect" /\ s.done = 0
    BY <1>1, <2>2
  <2> QED
    BY <1>1, <1>2, <2>3, StartKeepsSchema DEF StartTypeOK, StartSchemaOK
<1>4. CASE \E x \in {"set", "version"} : s = [starts[p] EXCEPT !.step = x]
  <2>1. {"set", "version"} \subseteq Steps
    BY DEF Steps, Starting
  <2>2. s.step \in {"set", "version"} /\ s.done = 0
    BY <1>1, <1>4, <2>1, StepSet
  <2> QED
    BY <1>1, <1>2, <2>2, StartKeepsSchema DEF StartTypeOK, StartSchemaOK
<1>5. CASE \E reason \in Refused : s = RefusedWith(reason)
  <2>1. s.step \in Refused
    BY <1>5, RefusedIs
  <2> QED
    BY <1>1, <1>2, <2>1, StartKeepsSchema DEF StartTypeOK, StartSchemaOK, Refused
<1> QED
  BY <1>2, <1>3, <1>4, <1>5

LEMMA RefusedSchema ==
  ASSUME StartTypeOK, SchemaInv, NEW p \in Instances,
         starts' = [starts EXCEPT ![p] = RefusedWith("schema_error")],
         UNCHANGED <<schema, version>>
  PROVE  SchemaInv'
<1>1. PICK s : s = RefusedWith("schema_error")
  OBVIOUS
<1>2. s.step = "schema_error"
  BY <1>1, SchemaErrorIs
<1> QED
  BY <1>1, <1>2, StartKeepsSchema DEF StartTypeOK, StartSchemaOK

LEMMA ReadVersionSchema ==
  ASSUME StartTypeOK, MadeInv, SchemaInv, NEW p \in Instances, ReadVersion(p)
  PROVE  SchemaInv'
<1>1. /\ starts[p] \in Start /\ starts[p].done = 0 /\ UNCHANGED <<schema, version>>
  BY DEF ReadVersion, StartTypeOK, SchemaInv, StartSchemaOK, database
<1>2. PICK s : /\ \/ s = [starts[p] EXCEPT !.step = "create"]
                  \/ s = RefusedWith("schema_error")
                  \/ s = Migrating(starts[p], version) /\ version \in 1..CurrentVersion
               /\ starts' = [starts EXCEPT ![p] = s]
  BY DEF ReadVersion
<1>3. CASE s = [starts[p] EXCEPT !.step = "create"]
  <2>1. s \in Start /\ s.step = "create" /\ s.done = 0
    BY <1>1, <1>3, StepSet DEF Steps, Starting
  <2>2. Executed(s) = {} /\ 0 \in 0..Len(Creation)
    BY <2>1, NothingExecuted, ScriptIs
  <2>3. StartSchemaOK(s)
    BY <2>1, <2>2 DEF StartSchemaOK
  <2> QED
    BY <1>1, <1>2, <2>1, <2>3, StartKeepsSchema DEF StartTypeOK
<1>4. CASE s = RefusedWith("schema_error")
  BY <1>1, <1>2, <1>4, RefusedSchema
<1>5. CASE s = Migrating(starts[p], version) /\ version \in 1..CurrentVersion
  <2>1. version \in 0..CurrentVersion
    BY <1>5 DEF CurrentVersion
  <2>2. /\ s \in Start /\ s.step = (IF version = CurrentVersion THEN "open" ELSE "migrate")
        /\ s.from = version /\ s.done = 0
    BY <1>1, <1>5, <2>1, MigratingIs
  <2>3. Executed(s) = {} /\ (s.step = "migrate" => s.from \in 1..(CurrentVersion - 1))
    BY <1>5, <2>2, NothingExecuted DEF CurrentVersion
  <2>4. s.step = "migrate" => 0 \in 0..Len(Script(s))
    BY <2>2, <2>3, ScriptIs
  <2>5. StartSchemaOK(s)
    BY <1>5, <2>2, <2>3, <2>4 DEF StartSchemaOK, CurrentVersion
  <2> QED
    BY <1>1, <1>2, <2>2, <2>5, StartKeepsSchema DEF StartTypeOK
<1> QED
  BY <1>2, <1>3, <1>4, <1>5

(* What creates the first statement of an archive is alone with it: the others
   that found no schema find the table of the version in their way. *)
LEMMA CreatorHasVersionTable ==
  ASSUME StartTypeOK, SchemaInv, NEW p \in Instances, HasCreated(p)
  PROVE  Table("schema_meta") \subseteq schema /\ version = 0
<1>1. /\ starts[p] \in Start /\ starts[p].step = "create" /\ starts[p].done > 0
      /\ StartSchemaOK(starts[p])
  BY DEF HasCreated, StartTypeOK, SchemaInv
<1>2. Script(starts[p]) = Creation /\ starts[p].done \in Nat
  BY <1>1, ScriptIs DEF Start
<1>3. 1 \in 1..starts[p].done
  BY <1>1, <1>2
<1>4. Creation[1] \subseteq Executed(starts[p])
  BY <1>2, <1>3 DEF Executed
<1> QED
  BY <1>1, <1>4, CreationBlocks DEF StartSchemaOK

LEMMA ExecuteSchema ==
  ASSUME StartTypeOK, MadeInv, SchemaInv, NEW p \in Instances, Execute(p)
  PROVE  SchemaInv'
<1> DEFINE e == starts[p]
           statement == Script(e)[e.done + 1]
<1>1. /\ e \in Start /\ e.step \in {"create", "migrate"} /\ e.done < Len(Script(e))
      /\ StartSchemaOK(e) /\ e.done \in Nat
      /\ e.step = "migrate" => e.from \in 1..(CurrentVersion - 1)
  BY DEF Execute, StartTypeOK, SchemaInv, MadeInv, StartKeyOK, Start
<1>2. version' = version
  BY DEF Execute
<1>3. CASE statement \cap schema # {}
  <2>1. /\ starts' = [starts EXCEPT ![p] = RefusedWith("schema_error")]
        /\ schema' = schema
    BY <1>3 DEF Execute
  <2> QED
    BY <1>2, <2>1, RefusedSchema
<1>4. CASE statement \cap schema = {}
  <2>1. PICK s : s = [e EXCEPT !.done = e.done + 1]
    OBVIOUS
  <2>2. schema' = schema \cup statement /\ starts' = [starts EXCEPT ![p] = s]
    BY <1>4, <2>1 DEF Execute
  <2>3. e.done + 1 \in Nat
    BY <1>1
  <2>4. s \in Start /\ s.step = e.step /\ s.from = e.from /\ s.done = e.done + 1
    BY <1>1, <2>1, <2>3, DoneSet
  <2>5. Script(s) = Script(e) /\ Executed(s) = Executed(e) \cup statement
    BY <1>1, <2>4, NextExecuted
  <2>6. /\ DOMAIN Script(e) = 1..Len(Script(e)) /\ Len(Script(e)) \in Nat
        /\ Created(Script(e)) \subseteq Created(Creation) \cup Created(RenamedTables)
        /\ e.step = "create" => Script(e) = Creation
    BY <1>1, ScriptIs
  <2>7. statement \subseteq Created(Script(e)) /\ e.done + 1 \in 1..Len(Script(e))
    BY <1>1, <2>6 DEF Created
  <2>8. schema' \subseteq Created(Creation) \cup Created(RenamedTables)
    BY <2>2, <2>6, <2>7 DEF SchemaInv
  <2>9. e.step = "create" => version = 0
    <3>1. CASE e.done > 0
      BY <1>1, <3>1 DEF StartSchemaOK
    <3>2. CASE e.done = 0 /\ e.step = "create"
      <4>1. statement = Table("schema_meta")
        BY <2>6, <3>2, CreationBlocks
      <4>2. Table("schema_meta") # {}
        BY DEF Table
      <4> QED
        BY <1>4, <4>1, <4>2 DEF SchemaInv
    <3> QED
      BY <1>1, <3>1, <3>2
  <2>10. \A q \in Instances : starts'[q] = IF q = p THEN s ELSE starts[q]
    BY <2>2 DEF StartTypeOK
  <2>11. ASSUME NEW q \in Instances PROVE StartSchemaOK(starts[q])'
    <3>1. CASE q = p
      <4>1. starts'[q] = s
        BY <2>10, <3>1
      <4>2. e.step = "create" => s.done \in 0..Len(Creation) /\ Executed(s) \subseteq schema'
        BY <1>1, <2>2, <2>4, <2>5, <2>6, <2>7 DEF StartSchemaOK
      <4>3. e.step = "migrate" =>
              /\ s.done \in 0..Len(Script(s)) /\ s.from <= version /\ version <= CurrentVersion
              /\ version = s.from => Executed(s) \subseteq schema'
        BY <1>1, <2>2, <2>4, <2>5, <2>6, <2>7 DEF StartSchemaOK
      <4> HIDE DEF e, statement
      <4> QED
        BY <1>1, <1>2, <2>4, <2>9, <4>1, <4>2, <4>3 DEF StartSchemaOK
    <3>2. CASE q # p
      <4>1. PICK f : f = starts'[q] /\ f = starts[q] /\ StartSchemaOK(f)
        BY <2>10, <3>2 DEF SchemaInv
      <4> QED
        BY <1>2, <2>2, <4>1 DEF StartSchemaOK
    <3> QED
      BY <3>1, <3>2
  <2>12. ASSUME NEW q \in Instances, NEW r \in Instances, HasCreated(q)', HasCreated(r)'
         PROVE  q = r
    <3>1. \A i \in Instances : i # p /\ HasCreated(i)' => HasCreated(i)
      BY <2>10 DEF HasCreated
    <3>2. ASSUME NEW i \in Instances, i # p, HasCreated(i)', HasCreated(p)' PROVE FALSE
      <4>1. HasCreated(i) /\ e.step = "create"
        BY <2>4, <2>10, <3>1, <3>2 DEF HasCreated
      <4>2. e.done = 0
        BY <1>1, <4>1, <3>2 DEF HasCreated, SchemaInv
      <4>3. statement = Table("schema_meta")
        BY <2>6, <4>1, <4>2, CreationBlocks
      <4>4. Table("schema_meta") # {}
        BY DEF Table
      <4> QED
        BY <1>4, <4>1, <4>3, <4>4, CreatorHasVersionTable
    <3> QED
      BY <2>12, <3>1, <3>2 DEF SchemaInv
  <2> QED
    BY <1>2, <2>2, <2>8, <2>11, <2>12 DEF SchemaInv
<1> QED
  BY <1>3, <1>4

LEMMA InsertVersionSchema ==
  ASSUME StartTypeOK, MadeInv, SchemaInv, NEW p \in Instances, InsertVersion(p)
  PROVE  SchemaInv'
<1> DEFINE e == starts[p]
<1>1. /\ e \in Start /\ e.step = "create" /\ StartSchemaOK(e) /\ schema' = schema
      /\ Script(e) = Creation /\ e.done = Len(Creation)
      /\ DOMAIN Creation = 1..Len(Creation) /\ Len(Creation) \in Nat
  <2>1. e \in Start /\ e.step = "create" /\ StartSchemaOK(e) /\ schema' = schema
    BY DEF InsertVersion, StartTypeOK, SchemaInv
  <2>2. /\ Script(e) = Creation /\ DOMAIN Script(e) = 1..Len(Script(e))
        /\ Len(Script(e)) \in Nat
    BY <2>1, ScriptIs
  <2> QED
    BY <2>1, <2>2 DEF InsertVersion, ScriptDone
<1>2. CASE version # 0
  <2>1. starts' = [starts EXCEPT ![p] = RefusedWith("schema_error")] /\ version' = version
    BY <1>2 DEF InsertVersion
  <2> QED
    BY <1>1, <2>1, RefusedSchema
<1>3. CASE version = 0
  <2>1. PICK s : s = [e EXCEPT !.step = "open"]
    OBVIOUS
  <2>2. starts' = [starts EXCEPT ![p] = s] /\ version' = CurrentVersion
    BY <1>3, <2>1 DEF InsertVersion, Moves
  <2>3. s.step = "open"
    BY <1>1, <2>1, StepSet DEF Steps
  <2>4. Executed(e) = Created(Creation)
    BY <1>1, AllExecuted
  <2>5. SchemaOf[CurrentVersion] \subseteq schema /\ CurrentVersion \in 1..CurrentVersion
    BY <1>1, <2>4, NewArchiveIsCurrent DEF StartSchemaOK, CurrentVersion
  <2>6. Table("schema_meta") \subseteq schema
    BY <2>5, SchemasGrow
  <2>7. \A q \in Instances : starts'[q] = IF q = p THEN s ELSE starts[q]
    BY <2>2 DEF StartTypeOK
  <2>8. HasCreated(p)
    BY <1>1, CreationBlocks DEF HasCreated
  <2>9. \A q \in Instances : ~HasCreated(q)'
    BY <2>3, <2>7, <2>8 DEF HasCreated, SchemaInv
  <2>10. ASSUME NEW q \in Instances PROVE StartSchemaOK(starts[q])'
    <3>1. CASE q = p
      BY <2>2, <2>3, <2>7, <3>1 DEF StartSchemaOK
    <3>2. CASE q # p
      <4>1. PICK f : f = starts'[q] /\ f = starts[q] /\ StartSchemaOK(f)
                            /\ StartKeyOK(f) /\ f \in Start
        BY <2>7, <3>2 DEF SchemaInv, MadeInv, StartTypeOK
      <4>2. f.step # "migrate"
        BY <1>3, <4>1 DEF StartSchemaOK, StartKeyOK, CurrentVersion
      <4>3. ~(f.step = "create" /\ f.done > 0)
        BY <2>9, <4>1 DEF HasCreated
      <4>4. f.done \in Nat
        BY <4>1 DEF Start
      <4> QED
        BY <1>1, <2>2, <4>1, <4>2, <4>3, <4>4 DEF StartSchemaOK
    <3> QED
      BY <3>1, <3>2
  <2>11. version' \in 0..(CurrentVersion + 1)
    BY <2>2 DEF CurrentVersion
  <2> QED
    BY <1>1, <2>2, <2>5, <2>6, <2>9, <2>10, <2>11 DEF SchemaInv
<1> QED
  BY <1>2, <1>3

LEMMA SetVersionSchema ==
  ASSUME StartTypeOK, MadeInv, SchemaInv, NEW p \in Instances, SetVersion(p)
  PROVE  SchemaInv'
<1> DEFINE e == starts[p]
<1>1. /\ e \in Start /\ e.step = "migrate" /\ StartSchemaOK(e) /\ e.done = Len(Script(e))
      /\ e.from \in 1..(CurrentVersion - 1)
  BY DEF SetVersion, StartTypeOK, SchemaInv, MadeInv, StartKeyOK, ScriptDone
<1>2. CASE version # e.from
  <2>1. /\ starts' = [starts EXCEPT ![p] = RefusedWith("schema_error")]
        /\ UNCHANGED <<schema, version>>
    BY <1>2 DEF SetVersion, Expected
  <2> QED
    BY <2>1, RefusedSchema
<1>3. CASE version = e.from
  <2>1. PICK v : v = e.from + 1
    OBVIOUS
  <2>2. /\ v \in 2..CurrentVersion /\ v \in 0..CurrentVersion /\ version = v - 1
        /\ version \in 1..CurrentVersion
    BY <1>1, <1>3, <2>1 DEF CurrentVersion
  <2>3. PICK s : s = Migrating(e, v)
    OBVIOUS
  <2>4. /\ starts' = [starts EXCEPT ![p] = s] /\ version' = v
        /\ schema' = IF version = 2 THEN Rebuilt(schema) ELSE schema
    BY <1>3, <2>1, <2>3 DEF SetVersion, Expected
  <2>5. /\ s \in Start /\ s.step = (IF v = CurrentVersion THEN "open" ELSE "migrate")
        /\ s.from = v /\ s.done = 0
    BY <1>1, <2>2, <2>3, MigratingIs
  <2>6. SchemaOf[version] \subseteq schema /\ Created(Migration[v]) \subseteq schema
    <3>1. Executed(e) = Created(Script(e)) /\ Script(e) = Migration[v]
      BY <1>1, <2>1, ScriptIs, AllExecuted
    <3> QED
      BY <1>1, <1>3, <2>2, <3>1 DEF SchemaInv, StartSchemaOK
  <2>7. SchemaOf[v] \subseteq schema'
    <3>1. CASE version = 2
      <4>1. SchemaOf[v] = Rebuilt(SchemaOf[2])
        BY <2>2, <3>1, SchemaOfVersions
      <4>2. SchemaOf[2] \subseteq schema
        BY <2>6, <3>1
      <4> QED
        BY <2>4, <3>1, <4>1, <4>2, RebuiltFacts
    <3>2. CASE version # 2
      <4>1. SchemaOf[v] = SchemaOf[version] \cup Created(Migration[v])
        BY <2>2, <3>2, SchemaExtended
      <4> QED
        BY <2>4, <2>6, <3>2, <4>1
    <3> QED
      BY <3>1, <3>2
  <2>8. schema' \subseteq Created(Creation) \cup Created(RenamedTables)
    BY <2>4, RebuiltFacts, MigrationsCreate DEF SchemaInv
  <2>9. v \in 1..CurrentVersion
    BY <2>2 DEF CurrentVersion
  <2>10. Table("schema_meta") \subseteq schema'
    BY <2>7, <2>9, SchemasGrow
  <2>11. \A q \in Instances : starts'[q] = IF q = p THEN s ELSE starts[q]
    BY <2>4 DEF StartTypeOK
  <2>12. \A q \in Instances : ~HasCreated(q)'
    <3>1. \A q \in Instances : ~HasCreated(q)
      BY <2>2, CreatorHasVersionTable DEF CurrentVersion
    <3> QED
      BY <2>5, <2>11, <3>1 DEF HasCreated
  <2>13. ASSUME NEW q \in Instances PROVE StartSchemaOK(starts[q])'
    <3>1. CASE q = p
      <4>1. Executed(s) = {}
        BY <2>5, NothingExecuted
      <4>2. s.step = "migrate" => 0 \in 0..Len(Script(s))
        <5>1. s.step = "migrate" => s.from \in 1..(CurrentVersion - 1)
          BY <2>2, <2>5 DEF CurrentVersion
        <5> QED
          BY <2>5, <5>1, ScriptIs
      <4>3. starts'[q] = s
        BY <2>11, <3>1
      <4> HIDE DEF e
      <4> QED
        BY <2>2, <2>4, <2>5, <4>1, <4>2, <4>3 DEF StartSchemaOK, CurrentVersion
    <3>2. CASE q # p
      <4>1. PICK f : f = starts'[q] /\ f = starts[q] /\ StartSchemaOK(f)
                            /\ StartKeyOK(f) /\ f \in Start
        BY <2>11, <3>2 DEF SchemaInv, MadeInv, StartTypeOK
      <4>2. ~(f.step = "create" /\ f.done > 0)
        BY <2>12, <4>1 DEF HasCreated
      <4>3. f.done \in Nat /\ f.from \in Nat
        BY <4>1 DEF Start, CurrentVersion
      <4>4. f.step = "create" => Executed(f) = {}
        BY <4>2, <4>3, NothingExecuted
      <4>5. f.step # "open"
        BY <2>2, <4>1 DEF StartSchemaOK, CurrentVersion
      <4>6. f.step = "migrate" => f.from < v
        BY <2>2, <4>1, <4>3 DEF StartSchemaOK, CurrentVersion
      <4> HIDE DEF e
      <4> QED
        BY <2>2, <2>4, <4>1, <4>2, <4>3, <4>4, <4>5, <4>6 DEF StartSchemaOK, CurrentVersion
    <3> QED
      BY <3>1, <3>2
  <2>14. version' \in 0..(CurrentVersion + 1)
    BY <2>2, <2>4 DEF CurrentVersion
  <2> QED
    BY <2>4, <2>7, <2>8, <2>10, <2>12, <2>13, <2>14 DEF SchemaInv
<1> QED
  BY <1>2, <1>3

LEMMA EndsSchema ==
  ASSUME StartTypeOK, SchemaInv, NEW p \in Instances, EndEarly(p) \/ Close(p)
  PROVE  SchemaInv'
<1>1. starts' = [starts EXCEPT ![p] = Ended] /\ UNCHANGED <<schema, version>>
  BY DEF EndEarly, Close, database
<1> QED
  BY <1>1, EndedIsStart, StartKeepsSchema DEF StartTypeOK, StartSchemaOK

LEMMA LoseDatabaseSchema == ASSUME LoseDatabase PROVE SchemaInv'
<1>1. schema' = {} /\ version' = 0 /\ \A p \in Instances : starts'[p] = Ended
  BY DEF LoseDatabase
<1>2. \A p \in Instances : StartSchemaOK(starts[p])' /\ ~HasCreated(p)'
  BY <1>1, EndedIsStart DEF StartSchemaOK, HasCreated
<1> QED
  BY <1>1, <1>2 DEF SchemaInv, CurrentVersion

LEMMA RestKeepsSchema ==
  ASSUME SchemaInv, UNCHANGED <<schema, version, starts>> PROVE SchemaInv'
BY DEF SchemaInv, StartSchemaOK, HasCreated, Executed, Script

LEMMA StepSchema ==
  StartTypeOK /\ MadeInv /\ SchemaInv /\ [Next]_vars => SchemaInv'
<1> SUFFICES ASSUME StartTypeOK, MadeInv, SchemaInv, [Next]_vars PROVE SchemaInv'
  OBVIOUS
<1>1. CASE \E p \in Instances : Step(p)
  BY <1>1, EarlySchema, ReadVersionSchema, ExecuteSchema, InsertVersionSchema,
     SetVersionSchema DEF Step
<1>2. CASE \E p \in Instances : Launch(p)
  BY <1>2, LaunchSchema
<1>3. CASE \E p \in Instances : Uses(p)
  <2>1. CASE \E p \in Instances : Close(p)
    BY <2>1, EndsSchema
  <2>2. CASE \E p \in Instances : StoreRow(p) \/ StoreArtifact(p)
    BY <2>2, RestKeepsSchema DEF StoreRow, StoreArtifact, database
  <2> QED
    BY <1>3, <2>1, <2>2 DEF Uses
<1>4. CASE Mishap
  <2>1. CASE LoseKey \/ RestoreKey
    BY <2>1, RestKeepsSchema DEF LoseKey, RestoreKey, database
  <2> QED
    BY <1>4, <2>1, EndsSchema, LoseDatabaseSchema DEF Mishap
<1>5. CASE UNCHANGED vars
  BY <1>5, RestKeepsSchema DEF vars, database
<1> QED
  BY <1>1, <1>2, <1>3, <1>4, <1>5 DEF Next

-----------------------------------------------------------------------------
(* While no two starts overlap, the version is the one that a start relies on;
   and as long as none ended early, there is nothing in the database but what
   its version promises and what the start under way has executed. *)
Base ==
  IF version = 0 THEN {}
  ELSE SchemaOf[IF version > CurrentVersion THEN CurrentVersion ELSE version]

Progress(s) == IF s.step \in {"create", "migrate"} THEN Executed(s) ELSE {}

StartAloneOK(s) ==
  /\ s.step = "create" => version = 0
  /\ s.step = "migrate" => version = s.from

Undisturbed ==
  /\ \A p \in Instances : IsStarting(p) => schema = Base \cup Progress(starts[p])
  /\ (\A p \in Instances : ~IsStarting(p)) => schema = Base
  /\ \A p \in Instances : starts[p].step = "schema_error" => version > CurrentVersion

AloneInv ==
  ~together =>
    /\ version # 2 => schema \cap Created(RenamedTables) = {}
    /\ \A p \in Instances : StartAloneOK(starts[p])
    /\ ends = 0 => Undisturbed

(* The parts of the invariant that are proved above. *)
SoFar == IInv /\ StartTypeOK /\ MadeInv /\ SchemaInv

LEMMA LonelyStart ==
  ASSUME SoFar, ~together, NEW p \in Instances, IsStarting(p)
  PROVE  \A q \in Instances : q # p => ~IsStarting(q)
BY DEF SoFar, IInv, LonelyInv

(* A start goes on, and the database stays as it is. *)
LEMMA AloneGoesOn ==
  ASSUME SoFar, AloneInv, ~together, NEW p \in Instances, IsStarting(p), NEW s,
         starts' = [starts EXCEPT ![p] = s], UNCHANGED <<schema, version>>,
         StartAloneOK(s), ends' \in Nat,
         ends' = 0 => /\ ends = 0 /\ Progress(s) = Progress(starts[p])
                      /\ s.step = "schema_error" => version > CurrentVersion
  PROVE  AloneInv'
<1>1. \A q \in Instances : starts'[q] = IF q = p THEN s ELSE starts[q]
  BY DEF SoFar, StartTypeOK
<1>2. ASSUME NEW q \in Instances PROVE StartAloneOK(starts[q])'
  <2>1. PICK f : f = starts'[q] /\ StartAloneOK(f)
    BY <1>1 DEF AloneInv
  <2> QED
    BY <2>1 DEF StartAloneOK
<1>3. ASSUME ends' = 0 PROVE Undisturbed'
  <2>1. Undisturbed /\ schema = Base \cup Progress(s)
    BY <1>3 DEF AloneInv, Undisturbed
  <2>2. schema' = schema /\ version' = version /\ Base' = Base
    BY DEF Base
  <2>3. \A q \in Instances : IsStarting(q)' => q = p
    <3>1. \A q \in Instances : q # p => ~IsStarting(q)
      BY LonelyStart
    <3> QED
      BY <1>1, <3>1 DEF IsStarting
  <2>4. ASSUME NEW q \in Instances, IsStarting(q)'
        PROVE  schema' = (Base \cup Progress(starts[q]))'
    <3>1. q = p /\ starts'[q] = s
      BY <1>1, <2>3, <2>4
    <3>2. Progress(starts[q])' = Progress(s)
      BY <3>1
    <3> QED
      BY <2>1, <2>2, <3>2
  <2>5. ASSUME \A q \in Instances : ~IsStarting(q)' PROVE schema' = Base'
    <3>1. s.step \notin {"create", "migrate"}
      BY <1>1, <2>5 DEF IsStarting, Starting
    <3> QED
      BY <2>1, <2>2, <3>1 DEF Progress
  <2>6. ASSUME NEW q \in Instances, starts'[q].step = "schema_error"
        PROVE  version' > CurrentVersion
    BY <1>1, <1>3, <2>1, <2>2, <2>6 DEF Undisturbed
  <2> QED
    BY <2>4, <2>5, <2>6 DEF Undisturbed
<1>4. version' # 2 => schema' \cap Created(RenamedTables) = {}
  BY DEF AloneInv
<1> QED
  BY <1>2, <1>3, <1>4 DEF AloneInv

LEMMA InitAlone == Init => AloneInv
<1> SUFFICES ASSUME Init PROVE AloneInv
  OBVIOUS
<1>1. \A p \in Instances : starts[p].step = "ended"
  BY EndedIsStart DEF Init
<1>2. schema = Base
  BY DEF Init, Base
<1>3. Base \cap Created(RenamedTables) = {}
  <2>1. PICK v : v = IF version > CurrentVersion THEN CurrentVersion ELSE version
    OBVIOUS
  <2>2. version = 0 \/ v \in 1..CurrentVersion
    BY <2>1 DEF Init, CurrentVersion
  <2>3. v \in 1..CurrentVersion => SchemaOf[v] \cap Created(RenamedTables) = {}
    BY SchemasGrow, MigrationsCreate
  <2> QED
    BY <2>1, <2>2, <2>3 DEF Base
<1>4. Undisturbed
  BY <1>1, <1>2 DEF Undisturbed, IsStarting, Starting
<1> QED
  BY <1>1, <1>2, <1>3, <1>4 DEF AloneInv, StartAloneOK

LEMMA LaunchAlone ==
  ASSUME SoFar, AloneInv, NEW p \in Instances, Launch(p) PROVE AloneInv'
<1> SUFFICES ASSUME ~together' PROVE AloneInv'
  BY DEF AloneInv
<1>1. ~together /\ \A q \in Instances : ~IsStarting(q)
  BY DEF Launch
<1>2. PICK b : b = ArchiveExists
  OBVIOUS
<1>3. b \in BOOLEAN
  BY <1>2 DEF ArchiveExists, StartTypeOK, SoFar
<1>4. PICK s : s = [Ended EXCEPT !.step = "key", !.exists = b]
  OBVIOUS
<1>5. s.step = "key"
  BY <1>3, <1>4, LaunchedIs
<1>6. starts' = [starts EXCEPT ![p] = s] /\ UNCHANGED <<schema, version, ends>>
  BY <1>2, <1>4, Zenon DEF Launch, database
<1>7. \A q \in Instances : starts'[q] = IF q = p THEN s ELSE starts[q]
  BY <1>6 DEF SoFar, StartTypeOK
<1>8. \A q \in Instances : StartAloneOK(starts[q])'
  BY <1>1, <1>5, <1>7 DEF StartAloneOK, IsStarting, Starting
<1>9. ASSUME ends = 0 PROVE Undisturbed'
  <2>1. schema = Base /\ Base' = Base
    BY <1>1, <1>6, <1>9 DEF AloneInv, Undisturbed, Base
  <2>2. \A q \in Instances : Progress(starts[q])' = {}
    BY <1>1, <1>5, <1>7 DEF Progress, IsStarting, Starting
  <2>3. \A q \in Instances : starts'[q].step = "schema_error" => version > CurrentVersion
    BY <1>1, <1>5, <1>7, <1>9 DEF AloneInv, Undisturbed
  <2> QED
    BY <1>6, <2>1, <2>2, <2>3 DEF Undisturbed
<1> QED
  BY <1>1, <1>6, <1>8, <1>9 DEF AloneInv

LEMMA EarlyAlone ==
  ASSUME SoFar, AloneInv, NEW p \in Instances,
         GetKey(p) \/ SetKey(p) \/ KeyringFails(p) \/ Connect(p)
  PROVE  AloneInv'
<1> SUFFICES ASSUME ~together' PROVE AloneInv'
  BY DEF AloneInv
<1>1. /\ starts[p] \in Start /\ UNCHANGED <<schema, version, together, ends>>
      /\ starts[p].step \in {"key", "set", "connect"} /\ ends \in Nat
      /\ keyring \in Nat /\ made + 1 \in Nat
  BY DEF GetKey, SetKey, KeyringFails, Connect, StartTypeOK, SoFar, database
<1>2. PICK s : /\ starts' = [starts EXCEPT ![p] = s]
               /\ \/ \E n \in Nat : s = WithKey(starts[p], n)
                  \/ \E x \in {"set", "version"} : s = [starts[p] EXCEPT !.step = x]
                  \/ \E reason \in {"no_key", "no_keyring"} : s = RefusedWith(reason)
  <2>1. CASE GetKey(p)
    BY <1>1, <2>1 DEF GetKey
  <2>2. CASE SetKey(p)
    BY <1>1, <2>2 DEF SetKey
  <2>3. CASE KeyringFails(p)
    BY <1>1, <2>3 DEF KeyringFails
  <2>4. CASE Connect(p)
    BY <1>1, <2>4 DEF Connect, Moves
  <2> QED
    BY <2>1, <2>2, <2>3, <2>4
<1>3. s.step \in {"connect", "set", "version", "no_key", "no_keyring"}
  <2>1. {"set", "version"} \subseteq Steps /\ {"no_key", "no_keyring"} \subseteq Refused
    BY DEF Steps, Starting, Refused
  <2>2. \A n \in Nat : s = WithKey(starts[p], n) => s.step = "connect"
    BY <1>1, KeyedIs
  <2>3. \A x \in {"set", "version"} : s = [starts[p] EXCEPT !.step = x] => s.step = x
    BY <1>1, <2>1, StepSet
  <2>4. \A reason \in {"no_key", "no_keyring"} : s = RefusedWith(reason) => s.step = reason
    BY <2>1, RefusedIs
  <2> QED
    BY <1>2, <2>2, <2>3, <2>4
<1>4. IsStarting(p) /\ Progress(s) = {} /\ Progress(starts[p]) = {}
  BY <1>1, <1>3 DEF IsStarting, Starting, Progress
<1> QED
  BY <1>1, <1>2, <1>3, <1>4, AloneGoesOn DEF StartAloneOK

LEMMA ReadVersionAlone ==
  ASSUME SoFar, AloneInv, NEW p \in Instances, ReadVersion(p) PROVE AloneInv'
<1> SUFFICES ASSUME ~together' PROVE AloneInv'
  BY DEF AloneInv
<1>1. /\ starts[p] \in Start /\ starts[p].done = 0 /\ starts[p].step = "version"
      /\ UNCHANGED <<schema, version, together, ends>> /\ ends \in Nat
      /\ version \in 0..(CurrentVersion + 1)
  BY DEF ReadVersion, StartTypeOK, SchemaInv, StartSchemaOK, database, SoFar
<1>2. IsStarting(p) /\ Progress(starts[p]) = {}
  BY <1>1 DEF IsStarting, Starting, Progress
<1>3. CASE ~(Table("schema_meta") \subseteq schema)
  <2>1. PICK s : s = [starts[p] EXCEPT !.step = "create"]
    OBVIOUS
  <2>2. s.step = "create" /\ s.done = 0
    BY <1>1, <2>1, StepSet DEF Steps, Starting
  <2>3. starts' = [starts EXCEPT ![p] = s]
    BY <1>3, <2>1 DEF ReadVersion
  <2>4. version = 0 /\ Progress(s) = {}
    BY <1>3, <2>2, NothingExecuted DEF SoFar, SchemaInv, Progress
  <2> QED
    BY <1>1, <1>2, <2>2, <2>3, <2>4, AloneGoesOn DEF StartAloneOK
<1>4. CASE Table("schema_meta") \subseteq schema /\ version \notin 1..CurrentVersion
  <2>1. PICK s : s = RefusedWith("schema_error")
    OBVIOUS
  <2>2. s.step = "schema_error" /\ Progress(s) = {}
    BY <2>1, SchemaErrorIs DEF Progress
  <2>3. starts' = [starts EXCEPT ![p] = s]
    BY <1>4, <2>1 DEF ReadVersion
  <2>4. ends = 0 => version > CurrentVersion
    <3>1. Table("schema_meta") # {}
      BY DEF Table
    <3>2. ends = 0 => schema = Base
      BY <1>1, <1>2 DEF AloneInv, Undisturbed
    <3> QED
      BY <1>1, <1>4, <3>1, <3>2 DEF Base, CurrentVersion
  <2> QED
    BY <1>1, <1>2, <2>2, <2>3, <2>4, AloneGoesOn DEF StartAloneOK
<1>5. CASE Table("schema_meta") \subseteq schema /\ version \in 1..CurrentVersion
  <2>1. PICK s : s = Migrating(starts[p], version)
    OBVIOUS
  <2>2. version \in 0..CurrentVersion
    BY <1>5 DEF CurrentVersion
  <2>3. s.step \in {"open", "migrate"} /\ s.from = version /\ s.done = 0
    BY <1>1, <2>1, <2>2, MigratingIs
  <2>4. starts' = [starts EXCEPT ![p] = s]
    BY <1>5, <2>1 DEF ReadVersion
  <2>5. Progress(s) = {}
    BY <2>3, NothingExecuted DEF Progress
  <2> QED
    BY <1>1, <1>2, <2>3, <2>4, <2>5, AloneGoesOn DEF StartAloneOK
<1> QED
  BY <1>3, <1>4, <1>5

(* A start executes, or records a version. *)
LEMMA AloneMoves ==
  ASSUME SoFar, AloneInv, ~together, NEW p \in Instances, IsStarting(p), NEW s,
         starts' = [starts EXCEPT ![p] = s], ends' = ends,
         s.step = "create" => version' = 0, s.step = "migrate" => version' = s.from,
         s.step # "schema_error", version > CurrentVersion => version' = version,
         version' # 2 => schema' \cap Created(RenamedTables) = {},
         ends = 0 => schema' = Base' \cup Progress(s)
  PROVE  AloneInv'
<1>1. \A q \in Instances : starts'[q] = IF q = p THEN s ELSE starts[q]
  BY DEF SoFar, StartTypeOK
<1>2. \A q \in Instances : q # p => ~IsStarting(q)
  BY LonelyStart
<1>3. ASSUME NEW q \in Instances PROVE StartAloneOK(starts[q])'
  <2>1. CASE q = p
    BY <1>1, <2>1 DEF StartAloneOK
  <2>2. CASE q # p
    BY <1>1, <1>2, <2>2 DEF StartAloneOK, IsStarting, Starting
  <2> QED
    BY <2>1, <2>2
<1>4. ASSUME ends' = 0 PROVE Undisturbed'
  <2>1. ends = 0 /\ schema' = Base' \cup Progress(s) /\ Undisturbed
    BY <1>4 DEF AloneInv
  <2>2. ASSUME NEW q \in Instances, IsStarting(q)'
        PROVE  schema' = (Base \cup Progress(starts[q]))'
    <3>1. q = p /\ starts'[q] = s
      BY <1>1, <1>2, <2>2 DEF IsStarting
    <3>2. Progress(starts[q])' = Progress(s)
      BY <3>1
    <3> QED
      BY <2>1, <3>2
  <2>3. ASSUME \A q \in Instances : ~IsStarting(q)' PROVE schema' = Base'
    <3>1. s.step \notin {"create", "migrate"}
      BY <1>1, <2>3 DEF IsStarting, Starting
    <3> QED
      BY <2>1, <3>1 DEF Progress
  <2>4. ASSUME NEW q \in Instances, starts'[q].step = "schema_error"
        PROVE  version' > CurrentVersion
    <3>1. starts[q].step = "schema_error"
      BY <1>1, <2>4
    <3> QED
      BY <2>1, <3>1 DEF Undisturbed
  <2> QED
    BY <2>2, <2>3, <2>4 DEF Undisturbed
<1> QED
  BY <1>3, <1>4 DEF AloneInv

(* What the start under way has found and made. *)
LEMMA ScriptAlone ==
  ASSUME SoFar, AloneInv, ~together, NEW p \in Instances,
         starts[p].step \in {"create", "migrate"}
  PROVE  /\ starts[p] \in Start /\ starts[p].done \in Nat /\ IsStarting(p)
         /\ starts[p].step = "create" => version = 0 /\ Script(starts[p]) = Creation
         /\ starts[p].step = "migrate" =>
              /\ version = starts[p].from /\ version \in 1..(CurrentVersion - 1)
              /\ Script(starts[p]) = Migration[version + 1]
         /\ Apart(Script(starts[p]))
         /\ DOMAIN Script(starts[p]) = 1..Len(Script(starts[p]))
         /\ Created(Script(starts[p])) \cap Base = {}
         /\ version # 2 => Created(Script(starts[p])) \cap Created(RenamedTables) = {}
         /\ ends = 0 => schema = Base \cup Executed(starts[p])
<1> DEFINE e == starts[p]
<1>1. /\ e \in Start /\ e.done \in Nat /\ StartKeyOK(e) /\ StartAloneOK(e) /\ IsStarting(p)
  BY DEF SoFar, StartTypeOK, MadeInv, AloneInv, Start, IsStarting, Starting
<1>2. e.step = "migrate" => e.from \in 1..(CurrentVersion - 1) /\ version = e.from
  BY <1>1 DEF StartKeyOK, StartAloneOK
<1>3. /\ Apart(Script(e)) /\ DOMAIN Script(e) = 1..Len(Script(e))
      /\ e.step = "create" => Script(e) = Creation
      /\ e.step = "migrate" =>
           Script(e) = Migration[e.from + 1] /\ e.from + 1 \in 2..CurrentVersion
  BY <1>1, <1>2, ScriptIs
<1>4. e.step = "create" => version = 0
  BY <1>1 DEF StartAloneOK
<1>5. Created(Script(e)) \cap Base = {}
      /\ (version # 2 => Created(Script(e)) \cap Created(RenamedTables) = {})
  <2>1. CASE e.step = "create"
    BY <1>3, <1>4, <2>1, MigrationsCreate DEF Base
  <2>2. CASE e.step = "migrate"
    <3>1. PICK v : v = e.from + 1
      OBVIOUS
    <3>2. v \in 2..CurrentVersion /\ v - 1 = version /\ Base = SchemaOf[version]
      BY <1>2, <2>2, <3>1 DEF Base, CurrentVersion
    <3>3. Script(e) = Migration[v]
      BY <1>3, <2>2, <3>1
    <3>4. Created(Migration[v]) \cap SchemaOf[v - 1] = {}
      BY <3>2, MigrationsApart
    <3>5. version # 2 => Created(Migration[v]) \subseteq Created(Creation)
      BY <3>2, MigrationsCreate
    <3> QED
      BY <3>2, <3>3, <3>4, <3>5, MigrationsCreate
  <2> QED
    BY <2>1, <2>2
<1>6. ends = 0 => schema = Base \cup Executed(e)
  BY <1>1 DEF AloneInv, Undisturbed, Progress
<1> QED
  BY <1>1, <1>2, <1>3, <1>4, <1>5, <1>6

LEMMA ExecuteAlone ==
  ASSUME SoFar, AloneInv, NEW p \in Instances, Execute(p) PROVE AloneInv'
<1> SUFFICES ASSUME ~together' PROVE AloneInv'
  BY DEF AloneInv
<1> DEFINE e == starts[p]
           statement == Script(e)[e.done + 1]
<1>1. /\ e.step \in {"create", "migrate"} /\ e.done < Len(Script(e))
      /\ UNCHANGED <<version, ends, together>> /\ ~together
  BY DEF Execute
<1>2. /\ e \in Start /\ e.done \in Nat /\ IsStarting(p)
      /\ e.step = "create" => version = 0
      /\ e.step = "migrate" => version = e.from
      /\ Apart(Script(e)) /\ DOMAIN Script(e) = 1..Len(Script(e))
      /\ Created(Script(e)) \cap Base = {}
      /\ version # 2 => Created(Script(e)) \cap Created(RenamedTables) = {}
      /\ ends = 0 => schema = Base \cup Executed(e)
  BY <1>1, ScriptAlone
<1>3. Len(Script(e)) \in Nat
  BY <1>2 DEF Apart, Makes
<1>4. e.done + 1 \in DOMAIN Script(e) /\ statement \subseteq Created(Script(e))
  BY <1>1, <1>2, <1>3 DEF Created
<1>5. CASE statement \cap schema # {}
  <2>1. statement \cap Executed(e) = {}
    <3>1. ASSUME NEW k \in 1..e.done PROVE statement \cap Script(e)[k] = {}
      <4>1. k \in DOMAIN Script(e) /\ k # e.done + 1
        BY <1>1, <1>2, <1>3, <3>1
      <4> QED
        BY <1>2, <1>4, <4>1 DEF Apart, Makes
    <3> QED
      BY <3>1 DEF Executed
  <2>2. ends # 0
    BY <1>2, <1>4, <1>5, <2>1
  <2>3. PICK s : s = RefusedWith("schema_error")
    OBVIOUS
  <2>4. s.step = "schema_error"
    BY <2>3, SchemaErrorIs
  <2>5. starts' = [starts EXCEPT ![p] = s] /\ schema' = schema
    BY <1>5, <2>3 DEF Execute
  <2>6. ends' \in Nat
    BY <1>1 DEF SoFar, StartTypeOK
  <2> HIDE DEF e, statement
  <2> QED
    BY <1>1, <1>2, <2>2, <2>4, <2>5, <2>6, AloneGoesOn DEF StartAloneOK
<1>6. CASE statement \cap schema = {}
  <2>1. PICK s : s = [e EXCEPT !.done = e.done + 1]
    OBVIOUS
  <2>2. schema' = schema \cup statement /\ starts' = [starts EXCEPT ![p] = s]
    BY <1>6, <2>1 DEF Execute
  <2>3. e.done + 1 \in Nat
    BY <1>2
  <2>4. s \in Start /\ s.step = e.step /\ s.from = e.from /\ s.done = e.done + 1
    BY <1>2, <2>1, <2>3, DoneSet
  <2>5. Executed(s) = Executed(e) \cup statement
    BY <1>2, <2>4, NextExecuted
  <2>6. Progress(s) = Executed(s) /\ Base' = Base
    BY <1>1, <2>4 DEF Progress, Base
  <2>7. version # 2 => schema' \cap Created(RenamedTables) = {}
    BY <1>1, <1>2, <1>4, <2>2 DEF AloneInv
  <2>8. ends = 0 => schema' = Base' \cup Progress(s)
    BY <1>2, <2>2, <2>5, <2>6
  <2>9. /\ s.step = "create" => version' = 0
        /\ s.step = "migrate" => version' = s.from
        /\ s.step # "schema_error" /\ ends' = ends /\ version' = version /\ ~together
    BY <1>1, <1>2, <2>4
  <2>10. starts' = [starts EXCEPT ![p] = s] /\ IsStarting(p)
    BY <1>2, <2>2
  <2> HIDE DEF e, statement
  <2> QED
    BY <2>7, <2>8, <2>9, <2>10, AloneMoves
<1> QED
  BY <1>5, <1>6

LEMMA InsertVersionAlone ==
  ASSUME SoFar, AloneInv, NEW p \in Instances, InsertVersion(p) PROVE AloneInv'
<1> SUFFICES ASSUME ~together' PROVE AloneInv'
  BY DEF AloneInv
<1> DEFINE e == starts[p]
<1>1. /\ e.step = "create" /\ e.done = Len(Script(e))
      /\ UNCHANGED <<schema, ends, together>> /\ ~together
  BY DEF InsertVersion, ScriptDone
<1>2. /\ e \in Start /\ IsStarting(p) /\ version = 0 /\ Script(e) = Creation
      /\ DOMAIN Script(e) = 1..Len(Script(e))
      /\ ends = 0 => schema = Base \cup Executed(e)
  BY <1>1, ScriptAlone
<1>3. PICK s : s = [e EXCEPT !.step = "open"]
  OBVIOUS
<1>4. starts' = [starts EXCEPT ![p] = s] /\ version' = CurrentVersion
  BY <1>2, <1>3 DEF InsertVersion, Moves
<1>5. s.step = "open" /\ Progress(s) = {}
  BY <1>2, <1>3, StepSet DEF Steps, Progress
<1>6. Executed(e) = Created(Creation)
  BY <1>1, <1>2, AllExecuted
<1>7. Base = {} /\ Base' = Created(Creation)
  BY <1>2, <1>4, NewArchiveIsCurrent DEF Base, CurrentVersion
<1>8. ends = 0 => schema' = Base' \cup Progress(s)
  BY <1>1, <1>2, <1>5, <1>6, <1>7
<1>9. version' # 2 => schema' \cap Created(RenamedTables) = {}
  BY <1>1, <1>2 DEF AloneInv
<1>10. version > CurrentVersion => version' = version
  BY <1>2 DEF CurrentVersion
<1> HIDE DEF e
<1> QED
  BY <1>1, <1>2, <1>4, <1>5, <1>8, <1>9, <1>10, AloneMoves

LEMMA SetVersionAlone ==
  ASSUME SoFar, AloneInv, NEW p \in Instances, SetVersion(p) PROVE AloneInv'
<1> SUFFICES ASSUME ~together' PROVE AloneInv'
  BY DEF AloneInv
<1> DEFINE e == starts[p]
<1>1. /\ e.step = "migrate" /\ e.done = Len(Script(e))
      /\ UNCHANGED <<ends, together>> /\ ~together
  BY DEF SetVersion, ScriptDone
<1>2. /\ e \in Start /\ IsStarting(p) /\ version = e.from
      /\ version \in 1..(CurrentVersion - 1) /\ Script(e) = Migration[version + 1]
      /\ DOMAIN Script(e) = 1..Len(Script(e))
      /\ ends = 0 => schema = Base \cup Executed(e)
  BY <1>1, ScriptAlone
<1>3. PICK v : v = e.from + 1
  OBVIOUS
<1>4. /\ v \in 2..CurrentVersion /\ v \in 0..CurrentVersion /\ version = v - 1
      /\ v \in 1..CurrentVersion /\ Base = SchemaOf[version] /\ version <= CurrentVersion
  BY <1>2, <1>3 DEF CurrentVersion, Base
<1>5. PICK s : s = Migrating(e, v)
  OBVIOUS
<1>6. /\ starts' = [starts EXCEPT ![p] = s] /\ version' = v
      /\ schema' = IF version = 2 THEN Rebuilt(schema) ELSE schema
  BY <1>2, <1>3, <1>5 DEF SetVersion, Expected
<1>7. /\ s.step \in {"open", "migrate"} /\ s.from = v /\ s.done = 0
  BY <1>2, <1>4, <1>5, MigratingIs
<1>8. Progress(s) = {}
  BY <1>7, NothingExecuted DEF Progress
<1>9. Executed(e) = Created(Migration[v])
  BY <1>1, <1>2, <1>3, AllExecuted
<1>10. Base' = SchemaOf[v]
  BY <1>4, <1>6 DEF Base, CurrentVersion
<1>11. ASSUME ends = 0 PROVE schema' = SchemaOf[v]
  <2>1. schema = SchemaOf[version] \cup Created(Migration[v])
    BY <1>2, <1>4, <1>9, <1>11
  <2>2. CASE version = 2
    <3>1. v = 3 /\ schema = SchemaOf[2] \cup Created(RenamedTables)
      BY <1>4, <2>1, <2>2, MigrationsCreate
    <3>2. Rebuilt(schema) = Rebuilt(SchemaOf[2])
      BY <3>1, RebuiltFacts
    <3> QED
      BY <1>6, <2>2, <3>1, <3>2, SchemaOfVersions
  <2>3. CASE version # 2
    <3>1. SchemaOf[v] = SchemaOf[v - 1] \cup Created(Migration[v])
      BY <1>4, <2>3, SchemaExtended
    <3> QED
      BY <1>4, <1>6, <2>1, <2>3, <3>1
  <2> QED
    BY <2>2, <2>3
<1>12. schema' \cap Created(RenamedTables) = {}
  BY <1>1, <1>6, RebuiltFacts DEF AloneInv
<1>13. version > CurrentVersion => version' = version
  BY <1>4 DEF CurrentVersion
<1> HIDE DEF e
<1> QED
  BY <1>1, <1>2, <1>6, <1>7, <1>8, <1>10, <1>11, <1>12, <1>13, AloneMoves

LEMMA EndEarlyAlone ==
  ASSUME SoFar, AloneInv, NEW p \in Instances, EndEarly(p) PROVE AloneInv'
<1> SUFFICES ASSUME ~together' PROVE AloneInv'
  BY DEF AloneInv
<1>1. PICK s : s = Ended
  OBVIOUS
<1>2. s.step = "ended"
  BY <1>1, EndedIsStart
<1>3. /\ IsStarting(p) /\ starts' = [starts EXCEPT ![p] = s] /\ ~together
      /\ UNCHANGED <<schema, version>> /\ ends' \in Nat /\ ends' # 0
  BY <1>1 DEF EndEarly, database, SoFar, StartTypeOK
<1> QED
  BY <1>2, <1>3, AloneGoesOn DEF StartAloneOK

(* What is not under way, and leaves the database as it is. *)
LEMMA OtherAlone ==
  ASSUME SoFar, AloneInv, UNCHANGED <<schema, version, together, ends>>,
         \/ UNCHANGED starts
         \/ \E p \in Instances : Close(p)
  PROVE  AloneInv'
<1>1. \A q \in Instances :
        \/ starts'[q] = starts[q]
        \/ starts'[q].step = "ended" /\ starts[q].step = "open"
  BY EndedIsStart DEF Close, SoFar, StartTypeOK
<1>2. \A q \in Instances : (IsStarting(q)' <=> IsStarting(q))
        /\ (starts'[q].step = "schema_error" => starts[q].step = "schema_error")
  BY <1>1 DEF IsStarting, Starting
<1>3. ASSUME NEW q \in Instances, AloneInv, ~together PROVE StartAloneOK(starts[q])'
  BY <1>1, <1>3 DEF AloneInv, StartAloneOK
<1>4. Base' = Base
  BY DEF Base
<1>5. ASSUME Undisturbed PROVE Undisturbed'
  <2>1. ASSUME NEW q \in Instances, IsStarting(q)'
        PROVE  schema' = (Base \cup Progress(starts[q]))'
    <3>1. starts'[q] = starts[q] /\ IsStarting(q)
      BY <1>1, <1>2, <2>1 DEF IsStarting, Starting
    <3>2. Progress(starts[q])' = Progress(starts[q])
      BY <3>1
    <3> QED
      BY <1>4, <1>5, <3>1, <3>2 DEF Undisturbed
  <2> QED
    BY <1>2, <1>4, <1>5, <2>1 DEF Undisturbed
<1> QED
  BY <1>3, <1>5 DEF AloneInv

LEMMA LoseDatabaseAlone == ASSUME LoseDatabase PROVE AloneInv'
<1>1. schema' = {} /\ version' = 0 /\ \A p \in Instances : starts'[p].step = "ended"
  BY EndedIsStart DEF LoseDatabase
<1>2. Base' = {}
  BY <1>1 DEF Base
<1>3. Undisturbed'
  BY <1>1, <1>2 DEF Undisturbed, IsStarting, Starting
<1> QED
  BY <1>1, <1>3 DEF AloneInv, StartAloneOK

LEMMA StepAlone == SoFar /\ AloneInv /\ [Next]_vars => AloneInv'
<1> SUFFICES ASSUME SoFar, AloneInv, [Next]_vars PROVE AloneInv'
  OBVIOUS
<1>1. CASE \E p \in Instances : Step(p)
  BY <1>1, EarlyAlone, ReadVersionAlone, ExecuteAlone, InsertVersionAlone,
     SetVersionAlone DEF Step
<1>2. CASE \E p \in Instances : Launch(p)
  BY <1>2, LaunchAlone
<1>3. CASE \E p \in Instances : Uses(p)
  BY <1>3, OtherAlone DEF Uses, Close, StoreRow, StoreArtifact, database
<1>4. CASE Mishap
  <2>1. CASE LoseKey \/ RestoreKey
    BY <2>1, OtherAlone DEF LoseKey, RestoreKey, database
  <2> QED
    BY <1>4, <2>1, EndEarlyAlone, LoseDatabaseAlone DEF Mishap
<1>5. CASE UNCHANGED vars
  BY <1>5, OtherAlone DEF vars, database
<1> QED
  BY <1>1, <1>2, <1>3, <1>4, <1>5 DEF Next

-----------------------------------------------------------------------------
SpecInv == SoFar /\ AloneInv

LEMMA InvariantOfSpec == Spec => []SpecInv
<1>1. Init => SpecInv
  BY InitIInv, InitKeys, InitSchema, InitAlone DEF SpecInv, SoFar
<1>2. SpecInv /\ [Next]_vars => SpecInv'
  <2> SUFFICES ASSUME SpecInv, [Next]_vars PROVE SpecInv'
    OBVIOUS
  <2>1. IInv'
    BY StepIInv DEF SpecInv, SoFar
  <2>2. StartTypeOK' /\ MadeInv'
    BY StepKeys DEF SpecInv, SoFar
  <2>3. SchemaInv'
    BY StepSchema DEF SpecInv, SoFar
  <2>4. AloneInv'
    BY StepAlone DEF SpecInv
  <2> QED
    BY <2>1, <2>2, <2>3, <2>4 DEF SpecInv, SoFar
<1> QED
  BY <1>1, <1>2, PTL DEF Spec

(* The database, the keys and the starts have the shape the code gives them, in
   every archive: initialize (database.py) never records a version beyond the
   one after the current, no statement creates what neither a new archive nor
   the migration to version 3 has, and every key that something is encrypted
   with was made by get_or_create_master_key. *)
THEOREM TypesHold == Spec => []TypeOK
<1>1. SpecInv => TypeOK
  BY DEF SpecInv, SoFar, StartTypeOK, SchemaInv, TypeOK
<1> QED
  BY <1>1, InvariantOfSpec, PTL

(* However many starts create and migrate the same archive at a time, and
   wherever they end, the version row never promises a table, column, index or
   trigger that is not there: _create_current_schema and _migrate (database.py)
   write it after all their statements, and _set_schema_version only over the
   version it started from. *)
THEOREM VersionKept == Spec => []VersionTellsSchema
<1>1. SpecInv => VersionTellsSchema
  BY DEF SpecInv, SoFar, SchemaInv, VersionTellsSchema
<1> QED
  BY <1>1, InvariantOfSpec, PTL

(* What initialize opens has the whole current schema, whether it was created
   or came from any older version, and nothing else; only when starts overlapped
   the tables that the migration to version 3 renames may be left over. *)
THEOREM OpensCurrent == Spec => []OpenedIsCurrent
<1>1. ASSUME SpecInv, NEW p \in Instances, starts[p].step = "open"
      PROVE  /\ version = CurrentVersion /\ SchemaOf[CurrentVersion] \subseteq schema
             /\ schema \ SchemaOf[CurrentVersion] \subseteq
                  (IF together THEN Created(RenamedTables) ELSE {})
  <2>1. version = CurrentVersion /\ CurrentVersion \in 1..CurrentVersion /\ CurrentVersion # 2
    BY <1>1 DEF SpecInv, SoFar, SchemaInv, StartSchemaOK, CurrentVersion
  <2>2. SchemaOf[CurrentVersion] \subseteq schema
    BY <1>1, <2>1 DEF SpecInv, SoFar, SchemaInv
  <2>3. schema \subseteq SchemaOf[CurrentVersion] \cup Created(RenamedTables)
    BY <1>1, NewArchiveIsCurrent DEF SpecInv, SoFar, SchemaInv, CurrentVersion
  <2>4. ~together => schema \cap Created(RenamedTables) = {}
    BY <1>1, <2>1 DEF SpecInv, AloneInv
  <2> QED
    BY <2>1, <2>2, <2>3, <2>4
<1>2. SpecInv => OpenedIsCurrent
  BY <1>1 DEF OpenedIsCurrent
<1> QED
  BY <1>2, InvariantOfSpec, PTL

(* A start on a complete archive that nothing else touches is never turned
   away: initialize (database.py) raises only if the archive is newer, an
   earlier start ended early or starts overlapped at some time, and
   get_or_create_master_key (secret_store.py) only if the key was lost. *)
THEOREM RefusalsHaveReasons == Spec => []RefusedForAReason
<1>1. ASSUME SpecInv, NEW p \in Instances
      PROVE  /\ starts[p].step = "schema_error" =>
                  version > CurrentVersion \/ ends > 0 \/ together
             /\ starts[p].step = "no_key" => lost # 0
  <2>1. starts[p].step = "no_key" => lost # 0
    BY <1>1 DEF SpecInv, SoFar, MadeInv, StartKeyOK
  <2>2. ends = 0 \/ ends > 0
    BY <1>1 DEF SpecInv, SoFar, StartTypeOK
  <2>3. starts[p].step = "schema_error" => version > CurrentVersion \/ ends > 0 \/ together
    BY <1>1, <2>2 DEF SpecInv, AloneInv, Undisturbed
  <2> QED
    BY <2>1, <2>3
<1>2. SpecInv => RefusedForAReason
  BY <1>1 DEF RefusedForAReason
<1> QED
  BY <1>2, InvariantOfSpec, PTL

=============================================================================
