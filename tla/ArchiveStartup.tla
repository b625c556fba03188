----------------------------- MODULE ArchiveStartup -----------------------------
(***************************************************************************)
(* How the program starts: it looks for an archive, takes the master key   *)
(* from the keyring or makes one, and creates or migrates the database.    *)
(*                                                                         *)
(* Python's sqlite3 opens a transaction for INSERT and UPDATE, not for     *)
(* CREATE and ALTER: the statements of a creation or a migration commit    *)
(* one by one, and the version row follows last. A start may end between   *)
(* any two of them, and another may be under way on the same archive.      *)
(* Between starts the user may lose the key, restore it, or lose the       *)
(* database. A key is a number, 0 is none.                                 *)
(***************************************************************************)
EXTENDS ArchiveSchema, FiniteSets

CONSTANTS
  Instances,   \* copies of the program that may run at the same time
  MaxKeys,     \* bound on the keys generated
  MaxEnds      \* bound on the starts that end early

ASSUME BoundsAssumption == MaxKeys \in Nat /\ MaxEnds \in Nat

VARIABLES
  file,        \* the database file exists
  schema,      \* what its sqlite_master lists
  version,     \* schema_version of the row of schema_meta, 0 without a row
  artifacts,   \* the artifacts directory exists
  rows, blobs, \* the keys under which rows and artifact files are encrypted
  keyring,     \* the key in the keyring
  lost,        \* the key last lost from the keyring
  made,        \* the number of keys generated
  starts,      \* what each instance is doing
  together,    \* history: a start began while another was under way
  ends         \* history: the starts that ended early

database == <<file, schema, version, rows>>
files == <<artifacts, blobs>>
keys == <<keyring, lost, made>>
vars == <<database, files, keys, starts, together, ends>>

-----------------------------------------------------------------------------
(* "ended" is also where an instance is that never ran. *)
Starting == {"key", "set", "connect", "version", "create", "migrate"}

Refused == {"no_key", "no_keyring", "schema_error"}

(* A start and its local variables: archive_exists, the key, the version the
   migration starts from, and how many statements of the script are done. *)
Start ==
  [step : Starting \cup Refused \cup {"ended", "open"},
   exists : BOOLEAN, key : Nat, from : 0..CurrentVersion, done : Nat]

Ended == [step |-> "ended", exists |-> FALSE, key |-> 0, from |-> 0, done |-> 0]

Moves(p, to) == starts' = [starts EXCEPT ![p].step = to]

(* Mutant: a refusal nothing tells from the others. *)
RefusedSomehow(reason) == [Ended EXCEPT !.step = "refused"]

RefusedWith(reason) == [Ended EXCEPT !.step = reason]

IsStarting(p) == starts[p].step \in Starting

(* Mutant: only the database counts as an archive. *)
DatabaseExists == file

ArchiveExists == file \/ artifacts

(* build_controller begins. *)
Launch(p) ==
  /\ ~IsStarting(p) /\ starts[p].step # "open"
  /\ starts' = [starts EXCEPT ![p] = [Ended EXCEPT !.step = "key",
                                                   !.exists = ArchiveExists]]
  /\ together' = (together \/ \E q \in Instances : IsStarting(q))
  /\ UNCHANGED <<database, files, keys, ends>>

-----------------------------------------------------------------------------
(* The key is decoded, and _database is made with it. *)
WithKey(start, k) == [start EXCEPT !.step = "connect", !.key = k]

(* get_or_create_master_key: the key there is, none, or a new one. *)
GetKey(p) ==
  /\ starts[p].step = "key"
  /\ starts' = [starts EXCEPT ![p] =
       IF keyring # 0 THEN WithKey(@, keyring)
       ELSE IF @.exists THEN RefusedWith("no_key")
       ELSE [@ EXCEPT !.step = "set"]]
  /\ UNCHANGED <<database, files, keys, together, ends>>

SetKey(p) ==
  /\ starts[p].step = "set" /\ made < MaxKeys
  /\ made' = made + 1 /\ keyring' = made + 1
  /\ starts' = [starts EXCEPT ![p] = WithKey(@, made + 1)]
  /\ UNCHANGED <<database, files, lost, together, ends>>

(* KeyringError: locked, or no backend. *)
KeyringFails(p) ==
  /\ starts[p].step \in {"key", "set"}
  /\ starts' = [starts EXCEPT ![p] = RefusedWith("no_keyring")]
  /\ UNCHANGED <<database, files, keys, together, ends>>

-----------------------------------------------------------------------------
(* The first statement on a new connection makes the file. *)
Connect(p) ==
  /\ starts[p].step = "connect"
  /\ file' = TRUE
  /\ Moves(p, "version")
  /\ UNCHANGED <<schema, version, rows, files, keys, together, ends>>

(* The loop of initialize: migrate until the version is the current one. *)
Migrating(start, from) ==
  IF from = CurrentVersion THEN [start EXCEPT !.step = "open", !.from = from, !.done = 0]
  ELSE [start EXCEPT !.step = "migrate", !.from = from, !.done = 0]

(* _existing_schema_version, and what initialize makes of it. *)
ReadVersion(p) ==
  /\ starts[p].step = "version"
  /\ starts' = [starts EXCEPT ![p] =
       IF ~(Table("schema_meta") \subseteq schema) THEN [@ EXCEPT !.step = "create"]
       ELSE IF version \notin 1..CurrentVersion THEN RefusedWith("schema_error")
       ELSE Migrating(@, version)]
  /\ UNCHANGED <<database, files, keys, together, ends>>

(* The statements before the version: those of a creation, or of the next
   migration. *)
Script(start) == IF start.step = "create" THEN Creation ELSE Migration[start.from + 1]

(* The next statement, unless what it creates is there already. *)
Execute(p) ==
  LET start == starts[p]
      statement == Script(start)[start.done + 1]
  IN  /\ start.step \in {"create", "migrate"}
      /\ start.done < Len(Script(start))
      /\ IF statement \cap schema # {}
         THEN /\ starts' = [starts EXCEPT ![p] = RefusedWith("schema_error")]
              /\ UNCHANGED schema
         ELSE /\ schema' = schema \cup statement
              /\ starts' = [starts EXCEPT ![p].done = @ + 1]
      /\ UNCHANGED <<file, version, rows, files, keys, together, ends>>

(* Mutant: the version is set before the script has ended. *)
HalfDone(start) == start.done + 1 >= Len(Script(start))

ScriptDone(start) == start.done = Len(Script(start))

(* The row of a new schema_meta. *)
InsertVersion(p) ==
  /\ starts[p].step = "create" /\ ScriptDone(starts[p])
  /\ IF version # 0
     THEN /\ starts' = [starts EXCEPT ![p] = RefusedWith("schema_error")]
          /\ UNCHANGED version
     ELSE version' = CurrentVersion /\ Moves(p, "open")
  /\ UNCHANGED <<file, schema, rows, files, keys, together, ends>>

(* Mutant: the version that is expected is the one after. *)
ExpectsNext(from) == from + 1

Expected(from) == from

(* _set_schema_version, with what else its transaction holds. *)
SetVersion(p) ==
  LET from == starts[p].from
  IN  /\ starts[p].step = "migrate" /\ ScriptDone(starts[p])
      /\ IF version # Expected(from)
         THEN /\ starts' = [starts EXCEPT ![p] = RefusedWith("schema_error")]
              /\ UNCHANGED <<schema, version>>
         ELSE /\ version' = from + 1
              /\ schema' = IF from = 2 THEN Rebuilt(schema) ELSE schema
              /\ starts' = [starts EXCEPT ![p] = Migrating(@, from + 1)]
      /\ UNCHANGED <<file, rows, files, keys, together, ends>>

-----------------------------------------------------------------------------
(* A running instance encrypts a field, or an artifact. *)
StoreRow(p) ==
  /\ starts[p].step = "open" /\ starts[p].key \notin rows
  /\ rows' = rows \cup {starts[p].key}
  /\ UNCHANGED <<file, schema, version, files, keys, starts, together, ends>>

StoreArtifact(p) ==
  /\ starts[p].step = "open" /\ starts[p].key \notin blobs
  /\ artifacts' = TRUE /\ blobs' = blobs \cup {starts[p].key}
  /\ UNCHANGED <<database, keys, starts, together, ends>>

Close(p) ==
  /\ starts[p].step = "open"
  /\ starts' = [starts EXCEPT ![p] = Ended]
  /\ UNCHANGED <<database, files, keys, together, ends>>

(* The process ends while it starts, or a call raises: a full disk, a lock
   held by another instance. *)
EndEarly(p) ==
  /\ IsStarting(p) /\ ends < MaxEnds
  /\ starts' = [starts EXCEPT ![p] = Ended]
  /\ ends' = ends + 1
  /\ UNCHANGED <<database, files, keys, together>>

-----------------------------------------------------------------------------
(* The keyring loses its entry, at any moment. *)
LoseKey ==
  /\ keyring # 0
  /\ lost' = keyring /\ keyring' = 0
  /\ UNCHANGED <<database, files, made, starts, together, ends>>

(* docs/ARCHIVE_RECOVERY.md: the original key is recovered. *)
RestoreKey ==
  /\ keyring = 0 /\ lost # 0
  /\ keyring' = lost
  /\ UNCHANGED <<database, files, lost, made, starts, together, ends>>

(* The database is deleted while nothing runs; artifacts stay. *)
LoseDatabase ==
  /\ file
  /\ \A p \in Instances : starts[p].step \in Refused \cup {"ended"}
  /\ file' = FALSE /\ schema' = {} /\ version' = 0 /\ rows' = {}
  /\ starts' = [p \in Instances |-> Ended]
  /\ UNCHANGED <<files, keys, together, ends>>

-----------------------------------------------------------------------------
(* Nothing, or a complete archive with its key that this program left, an
   older one, or a newer one. *)
Init ==
  /\ starts = [p \in Instances |-> Ended] /\ together = FALSE /\ ends = 0 /\ lost = 0
  /\ \/ /\ file = FALSE /\ schema = {} /\ version = 0 /\ artifacts = FALSE
        /\ rows = {} /\ blobs = {} /\ keyring = 0 /\ made = 0
     \/ /\ file = TRUE /\ version \in 1..(CurrentVersion + 1)
        /\ schema = SchemaOf[IF version > CurrentVersion THEN CurrentVersion ELSE version]
        /\ artifacts = FALSE /\ rows = {1} /\ blobs = {} /\ keyring = 1 /\ made = 1

Step(p) ==
  \/ GetKey(p) \/ SetKey(p) \/ KeyringFails(p) \/ Connect(p) \/ ReadVersion(p)
  \/ Execute(p) \/ InsertVersion(p) \/ SetVersion(p)

Uses(p) == StoreRow(p) \/ StoreArtifact(p) \/ Close(p)

Mishap == LoseKey \/ RestoreKey \/ LoseDatabase \/ \E p \in Instances : EndEarly(p)

Next == Mishap \/ \E p \in Instances : Launch(p) \/ Step(p) \/ Uses(p)

Spec == Init /\ [][Next]_vars

-----------------------------------------------------------------------------
(* The database, the files, the keys and the starts have the shape that the
   code gives them. *)
TypeOK ==
  /\ file \in BOOLEAN /\ artifacts \in BOOLEAN /\ version \in 0..(CurrentVersion + 1)
  /\ schema \subseteq Created(Creation) \cup Created(RenamedTables)
  /\ rows \subseteq 1..made /\ blobs \subseteq 1..made
  /\ keyring \in 0..made /\ lost \in 0..made /\ made \in Nat
  /\ starts \in [Instances -> Start] /\ together \in BOOLEAN /\ ends \in Nat

(* What is encrypted can be decrypted with the key in the keyring, if there is
   one: no start ever replaces a key that something was encrypted with
   (secret_store.py:15), as long as no start ever began while another was under
   way. Which of the overlaps do replace a key is not told apart: see
   KeyNeverReplaced. *)
KeyFitsArchive ==
  ~together => \A k \in rows \cup blobs : keyring \in {0, k}

(* The same without the exception. *)
KeyNeverReplaced == \A k \in rows \cup blobs : keyring \in {0, k}

(* The version row never promises more than there is: neither an interrupted
   creation or migration nor two at a time leave a version without its schema,
   and a new archive has what a migrated one has. *)
VersionTellsSchema ==
  version \in 1..CurrentVersion => SchemaOf[version] \subseteq schema

(* What is opened has the whole current schema, and nothing left of a script
   that did not end; only a migration to version 3 that another start overtook
   may leave the empty tables it meant to rename. *)
OpenedIsCurrent ==
  \A p \in Instances : starts[p].step = "open" =>
    /\ version = CurrentVersion /\ SchemaOf[CurrentVersion] \subseteq schema
    /\ schema \ SchemaOf[CurrentVersion] \subseteq
         (IF together THEN Created(RenamedTables) ELSE {})

(* A start is refused for its schema only if the archive is newer, an earlier
   start ended early, or starts overlapped at some time; and for its key only if
   the key was lost. *)
RefusedForAReason ==
  \A p \in Instances :
    /\ starts[p].step = "schema_error" => version > CurrentVersion \/ ends > 0 \/ together
    /\ starts[p].step = "no_key" => lost # 0

=============================================================================
