-------------------------- MODULE ConfigFileProofs --------------------------
(***************************************************************************)
(* Proofs about ConfigFile, for any number of edits, mutations, failures   *)
(* and restarts: a revision is one configuration, and a setting in force   *)
(* is never replaced by an earlier one.                                    *)
(***************************************************************************)
EXTENDS ConfigFile, TLAPS

Values == [Parts -> Nat]

Ops ==
  {NoOp} \cup [at : {"reading"}, modified : Nat]
         \cup [at : {"saving"}, part : Parts, valid : BOOLEAN]
         \cup [at : {"saved"}, parts : Values]

TypeInv ==
  /\ file \in [parts : Values, valid : BOOLEAN, modified : Nat]
  /\ settings \in Values
  /\ modified \in Nat /\ revision \in Nat /\ writes \in Nat
  /\ up \in BOOLEAN
  /\ op \in Ops
  /\ observed \subseteq Nat \X Values

\* The values are numbers of writes that were made; the bound on writes leaves room
\* for the save of the mutation under way.
NumberInv ==
  /\ file.modified = writes /\ modified <= writes
  /\ op.at = "reading" => op.modified <= writes
  /\ \A p \in Parts : file.parts[p] <= writes
  /\ writes <= MaxWrites + 1
  /\ op.at = "saving" => writes <= MaxWrites

AtLeast(a, b) == \A p \in Parts : a[p] >= b[p]

\* The file is not behind the settings, in no part, and what a mutation has saved
\* is between the two.
OrderInv ==
  /\ AtLeast(file.parts, settings)
  /\ op.at = "saved" => AtLeast(file.parts, op.parts) /\ AtLeast(op.parts, settings)

\* The latest revision was observed with the settings of now, and not yet if a
\* mutation has reserved it.
RevisionInv ==
  \A a \in observed :
    /\ a[1] <= revision
    /\ a[1] = revision => a[2] = settings /\ op.at \notin {"saving", "saved"}

IInv == TypeInv /\ NumberInv /\ OrderInv /\ RevisionInv /\ RevisionIsOneConfiguration

-----------------------------------------------------------------------------
(* What the steps have in common.                                          *)

\* The lock is given back with settings that are new under a new revision, or those
\* of the revision that there is.
LEMMA UnlockKeeps ==
  ASSUME IInv, revision' \in Nat, settings' \in Values, Unlock(revision', settings'),
         revision' >= revision,
         \/ revision' > revision
         \/ settings' = settings
         \/ op.at = "saved"
  PROVE  /\ RevisionInv' /\ RevisionIsOneConfiguration'
         /\ observed' \subseteq Nat \X Values
         /\ op' \in Ops /\ op'.at = "idle"
<1>1. /\ observed' = observed \cup {<<revision', settings'>>}
      /\ op' = NoOp /\ op' \in Ops /\ op'.at = "idle"
  BY DEF Unlock, NoOp, Ops
<1>2. /\ observed \subseteq Nat \X Values /\ revision \in Nat
      /\ RevisionInv /\ RevisionIsOneConfiguration
  BY DEF IInv, TypeInv
<1>3. \A a \in observed : a[1] <= revision' /\ (a[1] = revision' => a[2] = settings')
  <2> SUFFICES ASSUME NEW a \in observed
               PROVE  a[1] <= revision' /\ (a[1] = revision' => a[2] = settings')
    OBVIOUS
  <2>1. /\ a[1] \in Nat /\ a[1] <= revision
        /\ a[1] = revision => a[2] = settings /\ op.at \notin {"saving", "saved"}
    BY <1>2 DEF RevisionInv
  <2> QED BY <1>2, <2>1
<1>4. RevisionInv'
  BY <1>1, <1>3 DEF RevisionInv
<1>5. RevisionIsOneConfiguration'
  BY <1>1, <1>2, <1>3 DEF RevisionIsOneConfiguration
<1>6. observed' \subseteq Nat \X Values
  BY <1>1, <1>2
<1> QED BY <1>1, <1>4, <1>5, <1>6

\* A change of one part to the number of a new write is no step back.
LEMMA ChangeOfPart ==
  ASSUME NEW values \in Values, NEW part \in Parts, NEW n \in Nat,
         \A p \in Parts : values[p] <= n
  PROVE  /\ [values EXCEPT ![part] = n + 1] \in Values
         /\ AtLeast([values EXCEPT ![part] = n + 1], values)
         /\ \A p \in Parts : [values EXCEPT ![part] = n + 1][p] <= n + 1
BY DEF Values, AtLeast

\* The order of configurations is transitive and reflexive.
LEMMA AtLeastOrder ==
  ASSUME NEW a \in Values, NEW b \in Values, NEW c \in Values
  PROVE  /\ AtLeast(a, a)
         /\ AtLeast(a, b) /\ AtLeast(b, c) => AtLeast(a, c)
BY DEF Values, AtLeast

\* The fields of the operation that holds the lock.
LEMMA OpFields ==
  ASSUME op \in Ops
  PROVE  /\ op.at \in {"idle", "reading", "saving", "saved"}
         /\ op.at = "reading" => op.modified \in Nat
         /\ op.at = "saving" => op.part \in Parts /\ op.valid \in BOOLEAN
         /\ op.at = "saved" => op.parts \in Values
BY DEF Ops, NoOp

-----------------------------------------------------------------------------
(* The steps keep the invariant.                                           *)

\* What is loaded in the beginning is the first revision.
LEMMA InitInv ==
  ASSUME BoundAssumption, Init
  PROVE  IInv
<1>1. /\ [p \in Parts |-> 0] \in Values
      /\ \A q \in Parts : [p \in Parts |-> 0][q] = 0
  BY DEF Values
<1>2. /\ file \in [parts : Values, valid : BOOLEAN, modified : Nat]
      /\ file.parts = [p \in Parts |-> 0] /\ file.modified = 0
  BY <1>1 DEF Init
<1>3. TypeInv
  BY <1>1, <1>2 DEF Init, TypeInv, Ops
<1>4. NumberInv /\ OrderInv
  BY <1>1, <1>2 DEF Init, NumberInv, OrderInv, AtLeast, NoOp, BoundAssumption
<1>5. RevisionInv /\ RevisionIsOneConfiguration
  BY <1>2 DEF Init, RevisionInv, RevisionIsOneConfiguration, NoOp
<1> QED BY <1>3, <1>4, <1>5 DEF IInv

\* An edit replaces one part by a new value, also between the steps of a reload or
\* of a save.
LEMMA EditInv ==
  ASSUME BoundAssumption, IInv, NEW part \in Parts, NEW valid \in BOOLEAN, Edit(part, valid)
  PROVE  IInv'
<1>1. /\ file.parts \in Values /\ settings \in Values /\ writes \in Nat /\ op \in Ops
      /\ modified \in Nat
      /\ \A p \in Parts : file.parts[p] <= writes
  BY DEF IInv, TypeInv, NumberInv
<1> DEFINE parts == IF valid THEN [file.parts EXCEPT ![part] = writes + 1] ELSE file.parts
<1>2. /\ file' = [parts |-> parts, valid |-> valid, modified |-> writes + 1]
      /\ writes' = writes + 1 /\ writes < MaxWrites
      /\ UNCHANGED <<settings, modified, revision, up, op, observed>>
  BY DEF Edit, Written
<1>3. /\ parts \in Values /\ AtLeast(parts, file.parts)
      /\ \A p \in Parts : parts[p] <= writes + 1
  <2>1. CASE valid
    BY <1>1, <2>1, ChangeOfPart
  <2>2. CASE ~valid
    BY <1>1, <2>2 DEF Values, AtLeast
  <2> QED BY <2>1, <2>2
<1> HIDE DEF parts
<1>4. file'.parts = parts /\ file'.modified = writes + 1
      /\ file' \in [parts : Values, valid : BOOLEAN, modified : Nat]
  BY <1>1, <1>2, <1>3
<1>5. TypeInv'
  BY <1>1, <1>2, <1>4 DEF IInv, TypeInv
<1>6. NumberInv'
  BY <1>1, <1>2, <1>3, <1>4, OpFields DEF IInv, NumberInv, BoundAssumption
<1>7. OrderInv'
  <2>1. AtLeast(parts, settings)
    BY <1>1, <1>3, AtLeastOrder DEF IInv, OrderInv
  <2>2. op.at = "saved" => AtLeast(parts, op.parts) /\ AtLeast(op.parts, settings)
    BY <1>1, <1>3, AtLeastOrder, OpFields DEF IInv, OrderInv
  <2> QED BY <1>2, <1>4, <2>1, <2>2 DEF OrderInv, AtLeast
<1>8. RevisionInv' /\ RevisionIsOneConfiguration'
  BY <1>2 DEF IInv, RevisionInv, RevisionIsOneConfiguration
<1> QED BY <1>5, <1>6, <1>7, <1>8 DEF IInv

\* Looking at the file changes nothing but the operation.
LEMMA LookInv ==
  ASSUME IInv, Look \/ StartLook
  PROVE  IInv'
<1>1. /\ op' = [at |-> "reading", modified |-> file.modified] /\ op.at = "idle"
      /\ UNCHANGED <<file, settings, modified, revision, up, writes, observed>>
  BY DEF Look, StartLook
<1>2. op' \in Ops /\ op'.at = "reading" /\ op'.modified = file.modified
  BY <1>1 DEF Ops, IInv, TypeInv
<1>3. TypeInv'
  BY <1>1, <1>2 DEF IInv, TypeInv
<1>4. NumberInv'
  BY <1>1, <1>2 DEF IInv, TypeInv, NumberInv
<1>5. OrderInv' /\ RevisionInv' /\ RevisionIsOneConfiguration'
  BY <1>1, <1>2 DEF IInv, OrderInv, AtLeast, RevisionInv, RevisionIsOneConfiguration
<1> QED BY <1>3, <1>4, <1>5 DEF IInv

\* A valid file is adopted as a new revision.
LEMMA ReloadInv ==
  ASSUME IInv, Reload \/ Start
  PROVE  IInv' /\ AtLeast(settings', settings)
<1>1. /\ op.at = "reading" /\ revision' = revision + 1
      /\ settings' = file.parts /\ modified' = op.modified
      /\ Unlock(revision', settings')
      /\ up' \in BOOLEAN
      /\ UNCHANGED <<file, writes>>
  BY DEF Reload, Start, IInv, TypeInv
<1>2. /\ file \in [parts : Values, valid : BOOLEAN, modified : Nat]
      /\ file.parts \in Values /\ op \in Ops /\ revision \in Nat /\ writes \in Nat
      /\ op.modified \in Nat /\ op.modified <= writes
  BY <1>1, OpFields DEF IInv, TypeInv, NumberInv
<1>3. /\ RevisionInv' /\ RevisionIsOneConfiguration'
      /\ observed' \subseteq Nat \X Values
      /\ op' \in Ops /\ op'.at = "idle"
  <2>1. revision' \in Nat /\ revision' > revision /\ settings' \in Values
    BY <1>1, <1>2
  <2> QED BY <1>1, <1>2, <2>1, UnlockKeeps
<1>4. TypeInv' /\ NumberInv'
  BY <1>1, <1>2, <1>3 DEF IInv, TypeInv, NumberInv
<1>5. OrderInv'
  <2>1. AtLeast(file.parts, file.parts)
    BY <1>2, AtLeastOrder
  <2> QED BY <1>1, <1>3, <2>1 DEF OrderInv, AtLeast
<1>6. AtLeast(settings', settings)
  BY <1>1 DEF IInv, OrderInv
<1> QED BY <1>3, <1>4, <1>5, <1>6 DEF IInv

\* A reload or a mutation that fails gives the lock back, the settings unchanged.
LEMMA FailedInv ==
  ASSUME IInv, ReloadInvalid \/ ReloadFails \/ SaveFails
  PROVE  IInv' /\ UNCHANGED settings
<1>1. /\ Unlock(revision', settings')
      /\ UNCHANGED <<file, settings, revision, up, writes>>
      /\ modified' = modified \/ (op.at = "reading" /\ modified' = op.modified)
  <2>1. /\ UNCHANGED <<file, settings, revision, up, writes>>
        /\ modified' = modified \/ (op.at = "reading" /\ modified' = op.modified)
    BY DEF ReloadInvalid, ReloadFails, SaveFails
  <2>2. Unlock(revision, settings)
    BY DEF ReloadInvalid, ReloadFails, SaveFails
  <2> QED BY <2>1, <2>2 DEF Unlock
<1>2. /\ revision \in Nat /\ settings \in Values /\ writes \in Nat /\ op \in Ops
      /\ modified \in Nat /\ modified <= writes
  BY DEF IInv, TypeInv, NumberInv
<1>3. /\ RevisionInv' /\ RevisionIsOneConfiguration'
      /\ observed' \subseteq Nat \X Values
      /\ op' \in Ops /\ op'.at = "idle"
  BY <1>1, <1>2, UnlockKeeps
<1>4. modified' \in Nat /\ modified' <= writes
  BY <1>1, <1>2, OpFields DEF IInv, NumberInv
<1>5. TypeInv' /\ NumberInv' /\ OrderInv'
  BY <1>1, <1>3, <1>4 DEF IInv, TypeInv, NumberInv, OrderInv, AtLeast
<1> QED BY <1>1, <1>3, <1>5 DEF IInv

\* A mutation takes a new revision, which nobody has observed.
LEMMA SetInv ==
  ASSUME BoundAssumption, IInv, NEW part \in Parts, NEW valid \in BOOLEAN, Set(part, valid)
  PROVE  IInv'
<1>1. /\ revision' = revision + 1 /\ writes < MaxWrites
      /\ op' = [at |-> "saving", part |-> part, valid |-> valid]
      /\ UNCHANGED <<file, settings, modified, up, writes, observed>>
  BY DEF Set
<1>2. op' \in Ops /\ op'.at = "saving"
  BY <1>1 DEF Ops
<1>3. revision \in Nat /\ writes \in Nat /\ observed \subseteq Nat \X Values
  BY DEF IInv, TypeInv
<1>4. TypeInv'
  BY <1>1, <1>2, <1>3 DEF IInv, TypeInv
<1>5. NumberInv'
  BY <1>1, <1>2, <1>3 DEF IInv, TypeInv, NumberInv, BoundAssumption
<1>6. OrderInv'
  BY <1>1, <1>2 DEF IInv, OrderInv, AtLeast
<1>7. RevisionInv'
  <2>1. \A a \in observed : a[1] \in Nat /\ a[1] <= revision
    BY <1>3 DEF IInv, RevisionInv
  <2>2. \A a \in observed : a[1] <= revision' /\ a[1] # revision'
    BY <1>1, <1>3, <2>1
  <2> QED BY <1>1, <2>2 DEF RevisionInv
<1>8. RevisionIsOneConfiguration'
  BY <1>1 DEF IInv, RevisionIsOneConfiguration
<1> QED BY <1>4, <1>5, <1>6, <1>7, <1>8 DEF IInv

\* The whole file is written from the settings in memory.
LEMMA SaveInv ==
  ASSUME BoundAssumption, IInv, Save
  PROVE  IInv'
<1>1. /\ file.parts \in Values /\ settings \in Values /\ writes \in Nat /\ op \in Ops
      /\ modified \in Nat /\ op.at = "saving" /\ op.part \in Parts
      /\ \A p \in Parts : settings[p] <= writes
  <2>1. /\ file.parts \in Values /\ settings \in Values /\ writes \in Nat /\ op \in Ops
        /\ modified \in Nat /\ op.at = "saving"
    BY DEF IInv, TypeInv, Save
  <2>2. op.part \in Parts
    BY <2>1, OpFields
  <2>3. \A p \in Parts : settings[p] <= writes
    <3>1. \A p \in Parts : /\ file.parts[p] \in Nat /\ settings[p] \in Nat
                           /\ file.parts[p] <= writes /\ file.parts[p] >= settings[p]
      BY <2>1 DEF IInv, NumberInv, OrderInv, AtLeast, Values
    <3> QED BY <2>1, <3>1
  <2> QED BY <2>1, <2>2, <2>3
<1> DEFINE parts == [settings EXCEPT ![op.part] = writes + 1]
<1>2. /\ file' = [parts |-> parts, valid |-> TRUE, modified |-> writes + 1]
      /\ writes' = writes + 1
      /\ op' = [at |-> "saved", parts |-> file'.parts]
      /\ UNCHANGED <<settings, modified, revision, up, observed>>
  BY DEF Save, Written
<1>3. /\ parts \in Values /\ AtLeast(parts, settings)
      /\ \A p \in Parts : parts[p] <= writes + 1
  BY <1>1, ChangeOfPart
<1> HIDE DEF parts
<1>4. /\ file'.parts = parts /\ file'.modified = writes + 1
      /\ file' \in [parts : Values, valid : BOOLEAN, modified : Nat]
      /\ op' = [at |-> "saved", parts |-> parts]
  BY <1>1, <1>2, <1>3
<1>5. op' \in Ops /\ op'.at = "saved" /\ op'.parts = parts
  BY <1>3, <1>4 DEF Ops
<1>6. TypeInv'
  BY <1>1, <1>2, <1>4, <1>5 DEF IInv, TypeInv
<1>7. NumberInv'
  BY <1>1, <1>2, <1>3, <1>4, <1>5 DEF IInv, NumberInv, BoundAssumption
<1>8. OrderInv'
  <2>1. AtLeast(parts, parts)
    BY <1>3, AtLeastOrder
  <2> QED BY <1>2, <1>3, <1>4, <1>5, <2>1 DEF OrderInv, AtLeast
<1>9. RevisionInv' /\ RevisionIsOneConfiguration'
  BY <1>1, <1>2 DEF IInv, RevisionInv, RevisionIsOneConfiguration
<1> QED BY <1>6, <1>7, <1>8, <1>9 DEF IInv

\* What was saved is in force, under the revision that was taken for it.
LEMMA AdoptInv ==
  ASSUME IInv, Adopt
  PROVE  IInv' /\ AtLeast(settings', settings)
<1>1. /\ op.at = "saved" /\ modified' = file.modified /\ settings' = op.parts
      /\ Unlock(revision', settings')
      /\ UNCHANGED <<file, revision, up, writes>>
  BY DEF Adopt
<1>2. /\ revision \in Nat /\ writes \in Nat /\ op \in Ops /\ op.parts \in Values
      /\ file.modified \in Nat /\ file.modified = writes
      /\ AtLeast(file.parts, op.parts) /\ AtLeast(op.parts, settings)
  BY <1>1, OpFields DEF IInv, TypeInv, NumberInv, OrderInv
<1>3. /\ RevisionInv' /\ RevisionIsOneConfiguration'
      /\ observed' \subseteq Nat \X Values
      /\ op' \in Ops /\ op'.at = "idle"
  BY <1>1, <1>2, UnlockKeeps
<1>4. TypeInv' /\ NumberInv'
  BY <1>1, <1>2, <1>3 DEF IInv, TypeInv, NumberInv
<1>5. OrderInv'
  BY <1>1, <1>2, <1>3 DEF OrderInv, AtLeast
<1> QED BY <1>1, <1>2, <1>3, <1>4, <1>5 DEF IInv

\* The process ends anywhere, or does not start with an invalid file.
LEMMA ExitInv ==
  ASSUME IInv, Exit \/ StartFails
  PROVE  IInv'
<1>1. /\ op' = NoOp /\ up' \in BOOLEAN
      /\ UNCHANGED <<file, settings, modified, revision, writes, observed>>
  BY DEF Exit, StartFails, IInv, TypeInv
<1>2. op' \in Ops /\ op'.at = "idle"
  BY <1>1 DEF Ops, NoOp
<1> QED BY <1>1, <1>2 DEF IInv, TypeInv, NumberInv, OrderInv, AtLeast, RevisionInv,
                          RevisionIsOneConfiguration

\* Every step keeps the invariant, and no setting goes back in it.
LEMMA NextInv ==
  ASSUME BoundAssumption, IInv, [Next]_vars
  PROVE  IInv' /\ AtLeast(settings', settings)
<1>1. settings \in Values
  BY DEF IInv, TypeInv
<1>2. UNCHANGED settings => AtLeast(settings', settings)
  BY <1>1, AtLeastOrder DEF AtLeast
<1>3. ASSUME NEW part \in Parts, NEW valid \in BOOLEAN,
             Edit(part, valid) \/ Set(part, valid)
      PROVE  IInv' /\ AtLeast(settings', settings)
  <2>1. UNCHANGED settings
    BY <1>3 DEF Edit, Set
  <2> QED BY <1>2, <1>3, <2>1, EditInv, SetInv
<1>4. CASE Look \/ StartLook
  BY <1>2, <1>4, LookInv DEF Look, StartLook
<1>5. CASE Reload \/ Start
  BY <1>5, ReloadInv
<1>6. CASE ReloadInvalid \/ ReloadFails \/ SaveFails
  BY <1>2, <1>6, FailedInv
<1>7. CASE Save
  BY <1>2, <1>7, SaveInv DEF Save
<1>8. CASE Adopt
  BY <1>8, AdoptInv
<1>9. CASE Exit \/ StartFails
  BY <1>2, <1>9, ExitInv DEF Exit, StartFails
<1>10. CASE UNCHANGED vars
  <2>1. IInv'
    BY <1>10 DEF vars, IInv, TypeInv, NumberInv, OrderInv, AtLeast, RevisionInv,
                 RevisionIsOneConfiguration
  <2> QED BY <1>2, <1>10, <2>1 DEF vars
<1> QED BY <1>3, <1>4, <1>5, <1>6, <1>7, <1>8, <1>9, <1>10 DEF Next

\* The invariant holds in every behaviour.
LEMMA Invariance ==
  ASSUME BoundAssumption
  PROVE  Spec => []IInv
<1>1. Init => IInv
  BY InitInv
<1>2. IInv /\ [Next]_vars => IInv'
  BY NextInv
<1> QED BY <1>1, <1>2, PTL DEF Spec

-----------------------------------------------------------------------------
(* The theorems.                                                           *)

\* The file, the settings and the operation that holds the control lock keep their
\* types.
THEOREM TypeCorrect ==
  ASSUME BoundAssumption
  PROVE  Spec => []TypeOK
<1>1. IInv => TypeOK
  <2> SUFFICES ASSUME IInv PROVE TypeOK
    OBVIOUS
  <2>1. /\ file.parts \in Values /\ settings \in Values /\ writes \in Nat /\ modified \in Nat
        /\ writes <= MaxWrites + 1 /\ MaxWrites + 1 \in Nat
        /\ \A p \in Parts : file.parts[p] <= writes
        /\ AtLeast(file.parts, settings)
    BY DEF IInv, TypeInv, NumberInv, OrderInv, BoundAssumption
  <2>2. \A p \in Parts : /\ file.parts[p] \in 0 .. MaxWrites + 1
                         /\ settings[p] \in 0 .. MaxWrites + 1
    <3> SUFFICES ASSUME NEW p \in Parts
                 PROVE  /\ file.parts[p] \in 0 .. MaxWrites + 1
                        /\ settings[p] \in 0 .. MaxWrites + 1
      OBVIOUS
    <3>1. /\ file.parts[p] \in Nat /\ settings[p] \in Nat
          /\ file.parts[p] <= writes /\ file.parts[p] >= settings[p]
      BY <2>1 DEF Values, AtLeast
    <3> QED BY <2>1, <3>1
  <2>3. /\ file.parts \in [Parts -> 0 .. MaxWrites + 1]
        /\ settings \in [Parts -> 0 .. MaxWrites + 1]
    BY <2>1, <2>2 DEF Values
  <2>4. modified \in 0 .. writes /\ file.modified = writes
    BY <2>1 DEF IInv, NumberInv
  <2>5. op.at \in {"idle", "reading", "saving", "saved"}
    BY OpFields DEF IInv, TypeInv
  <2>6. file.valid \in BOOLEAN /\ up \in BOOLEAN
    BY DEF IInv, TypeInv
  <2> QED BY <2>3, <2>4, <2>5, <2>6 DEF TypeOK
<1> QED BY <1>1, Invariance, PTL

\* Reloads, mutations that fail after their revision is saved, and restarts: the
\* settings seen under one revision are the same whenever they are seen.
THEOREM RevisionsAreConfigurations ==
  ASSUME BoundAssumption
  PROVE  Spec => []RevisionIsOneConfiguration
<1>1. IInv => RevisionIsOneConfiguration
  BY DEF IInv
<1> QED BY <1>1, Invariance, PTL

\* save_settings writes all parts from memory and a reload takes all parts from the
\* file: neither brings back a value that was replaced while it was in force.
THEOREM SettingsOnlyAdvance ==
  ASSUME BoundAssumption
  PROVE  Spec => SettingsNeverGoBack
<1>1. IInv /\ [Next]_vars => [\A p \in Parts : settings'[p] >= settings[p]]_vars
  BY NextInv DEF AtLeast
<1> QED BY <1>1, Invariance, PTL DEF Spec, SettingsNeverGoBack

=============================================================================
