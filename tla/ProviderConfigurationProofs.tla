--------------------- MODULE ProviderConfigurationProofs ---------------------
(***************************************************************************)
(* What overlapping operators cannot do, for any providers, requests,      *)
(* registrations, patches and credentials.                                 *)
(***************************************************************************)
EXTENDS ProviderConfiguration, TLAPS

IsFunction(f) == f = [x \in DOMAIN f |-> f[x]]

\* A row of inventory_providers that has been validated.
ValidRow(p) == IsFunction(p) /\ DOMAIN p = Fields /\ Valid(p)

RowsAreValid ==
  /\ IsFunction(stored)
  /\ \A i \in Registered : ValidRow(stored[i])

\* Validated against a kind that no call changes.
CredentialsAreAcceptable ==
  /\ IsFunction(credentials)
  /\ DOMAIN credentials \subseteq Registered
  /\ \A i \in DOMAIN credentials : Acceptable(stored[i], credentials[i])

\* What a call has read may be out of date, but not the kind and the driver, and
\* what it is about to write is valid beside any row of its provider.
CallIsValid(r) ==
  /\ call[r].id \in Registered
  /\ call[r].op = "update" =>
       /\ ValidRow(call[r].row)
       /\ call[r].row.kind = stored[call[r].id].kind
       /\ call[r].row.driver = stored[call[r].id].driver
  /\ call[r].op = "credentials" => Acceptable(stored[call[r].id], call[r].row)

CallsAreValid ==
  /\ IsFunction(call) /\ DOMAIN call = Requests
  /\ \A r \in Requests : call[r] # Idle => CallIsValid(r)

IInv == RowsAreValid /\ CredentialsAreAcceptable /\ CallsAreValid

\* The rows of a write keep their kind and driver: so the calls under way and the
\* credentials stay valid.
KindsAreKept ==
  /\ Registered \subseteq Registered'
  /\ \A i \in Registered : stored'[i].kind = stored[i].kind /\ stored'[i].driver = stored[i].driver

-----------------------------------------------------------------------------
\* A patched row has the columns of a row, and its kind and driver.
LEMMA MergedFacts ==
  ASSUME NEW p, NEW given \in Updates
  PROVE  /\ IsFunction(Merged(p, given))
         /\ DOMAIN Merged(p, given) = Fields
         /\ Merged(p, given).kind = p.kind
         /\ Merged(p, given).driver = p.driver
  BY ConfigurationAssumption DEF Merged, IsFunction, Fields, Mutable

\* The UPDATE of the mutable columns: the row is the validated one, as long as the
\* kind and the driver agree, but for is_enabled.
LEMMA UpdateFacts ==
  ASSUME IInv, NEW r \in Requests, Update(r)
  PROVE  LET i == call[r].id
             p == call[r].row
         IN /\ IsFunction(stored') /\ DOMAIN stored' = DOMAIN stored
            /\ i \in Registered
            /\ \A j \in Registered \ {i} : stored'[j] = stored[j]
            /\ IsFunction(stored'[i]) /\ DOMAIN stored'[i] = Fields
            /\ stored'[i].enabled = stored[i].enabled
            /\ \A f \in Fields \ {"enabled"} : stored'[i][f] = p[f]
<1> DEFINE i == call[r].id
           p == call[r].row
           row == [stored[i] EXCEPT !.name = p.name, !.url = p.url,
                                    !.timeout = p.timeout, !.caps = p.caps]
<1>1. call[r] # Idle /\ call[r].op = "update" /\ CallIsValid(r)
  BY DEF Update, Writes, IInv, CallsAreValid
<1>2. /\ i \in Registered /\ ValidRow(stored[i]) /\ ValidRow(p)
      /\ p.kind = stored[i].kind /\ p.driver = stored[i].driver
  BY <1>1 DEF CallIsValid, IInv, RowsAreValid
<1>3. /\ IsFunction(stored') /\ DOMAIN stored' = DOMAIN stored
      /\ \A j \in Registered \ {i} : stored'[j] = stored[j]
      /\ stored'[i] = row
  BY <1>2 DEF Update, Registered, IsFunction
<1>4. IsFunction(row) /\ DOMAIN row = Fields
  BY <1>2 DEF ValidRow, IsFunction
<1>5. /\ row.enabled = stored[i].enabled
      /\ \A f \in Fields \ {"enabled"} : row[f] = p[f]
  BY <1>2 DEF ValidRow, Fields, Mutable
<1> QED  BY <1>2, <1>3, <1>4, <1>5

\* Switching a provider changes is_enabled and nothing else.
LEMMA SetEnabledFacts ==
  ASSUME IInv, NEW r \in Requests, SetEnabled(r)
  PROVE  LET i == call[r].id
         IN /\ IsFunction(stored') /\ DOMAIN stored' = DOMAIN stored
            /\ i \in Registered
            /\ \A j \in Registered \ {i} : stored'[j] = stored[j]
            /\ IsFunction(stored'[i]) /\ DOMAIN stored'[i] = Fields
            /\ stored'[i].enabled = (call[r].op = "enable")
            /\ \A f \in Fields \ {"enabled"} : stored'[i][f] = stored[i][f]
<1> DEFINE i == call[r].id
           row == [stored[i] EXCEPT !.enabled = (call[r].op = "enable")]
<1>1. i \in Registered /\ ValidRow(stored[i])
  BY DEF SetEnabled, Writes, IInv, CallsAreValid, CallIsValid, RowsAreValid
<1>2. /\ IsFunction(stored') /\ DOMAIN stored' = DOMAIN stored
      /\ \A j \in Registered \ {i} : stored'[j] = stored[j]
      /\ stored'[i] = row
  BY <1>1 DEF SetEnabled, Registered, IsFunction
<1>3. IsFunction(row) /\ DOMAIN row = Fields
  BY <1>1 DEF ValidRow, IsFunction
<1>4. /\ row.enabled = (call[r].op = "enable")
      /\ \A f \in Fields \ {"enabled"} : row[f] = stored[i][f]
  BY <1>1 DEF ValidRow, Fields, Mutable
<1> QED  BY <1>1, <1>2, <1>3, <1>4

\* A row that agrees with a valid one but for is_enabled is valid.
LEMMA EnabledIsFree ==
  ASSUME NEW p, NEW q, ValidRow(p), IsFunction(q), DOMAIN q = Fields,
         \A f \in Fields \ {"enabled"} : q[f] = p[f]
  PROVE  ValidRow(q)
<1>1. /\ q.timeout = p.timeout /\ q.kind = p.kind /\ q.driver = p.driver
      /\ q.url = p.url /\ q.caps = p.caps
  BY DEF Fields, Mutable
<1> QED  BY <1>1 DEF ValidRow, Valid

-----------------------------------------------------------------------------
LEMMA InitInv == Init => IInv
BY DEF Init, IInv, RowsAreValid, CredentialsAreAcceptable, CallsAreValid, IsFunction, Registered

\* Every step leaves the rows valid and their kinds alone.
LEMMA RowsStep ==
  ASSUME IInv, [Next]_vars
  PROVE  RowsAreValid' /\ KindsAreKept
<1> USE DEF IInv, RowsAreValid, KindsAreKept, Registered
<1>1. ASSUME NEW i \in Ids, NEW p \in Registrations, Register(i, p)
      PROVE  RowsAreValid' /\ KindsAreKept
  <2>1. ValidRow(p)
    BY <1>1, ConfigurationAssumption DEF Register, ValidRow, IsFunction
  <2>2. /\ IsFunction(stored') /\ DOMAIN stored' = DOMAIN stored \cup {i}
        /\ stored'[i] = p /\ i \notin DOMAIN stored
        /\ \A j \in DOMAIN stored \ {i} : stored'[j] = stored[j]
    BY <1>1 DEF Register, Put, IsFunction
  <2> QED  BY <2>1, <2>2
<1>2. ASSUME NEW r \in Requests, Update(r)
      PROVE  RowsAreValid' /\ KindsAreKept
  <2>1. CallIsValid(r) /\ call[r].op = "update"
    BY <1>2 DEF Update, Writes, CallsAreValid
  <2>2. ValidRow(stored'[call[r].id])
    BY <1>2, <2>1, UpdateFacts, EnabledIsFree DEF CallIsValid
  <2>3. /\ stored'[call[r].id].kind = stored[call[r].id].kind
        /\ stored'[call[r].id].driver = stored[call[r].id].driver
    BY <1>2, <2>1, UpdateFacts DEF CallIsValid, Fields, Mutable
  <2> QED  BY <1>2, <2>2, <2>3, UpdateFacts
<1>3. ASSUME NEW r \in Requests, SetEnabled(r)
      PROVE  RowsAreValid' /\ KindsAreKept
  <2>1. ValidRow(stored[call[r].id])
    BY <1>3, SetEnabledFacts
  <2>2. ValidRow(stored'[call[r].id])
    BY <1>3, <2>1, SetEnabledFacts, EnabledIsFree
  <2>3. /\ stored'[call[r].id].kind = stored[call[r].id].kind
        /\ stored'[call[r].id].driver = stored[call[r].id].driver
    BY <1>3, SetEnabledFacts DEF Fields, Mutable
  <2> QED  BY <1>3, <2>2, <2>3, SetEnabledFacts
<1>4. ASSUME UNCHANGED stored
      PROVE  RowsAreValid' /\ KindsAreKept
  BY <1>4
<1> QED
  BY <1>1, <1>2, <1>3, <1>4 DEF Next, vars, ReadForUpdate, ReadForEnable, ReadForDisable,
     ReadForCredentials, Goes, UpsertCredentials, Fail

\* Credentials are written as they were accepted.
LEMMA CredentialsStep ==
  ASSUME IInv, [Next]_vars, KindsAreKept
  PROVE  CredentialsAreAcceptable'
<1> USE DEF IInv, CredentialsAreAcceptable, KindsAreKept, Acceptable
<1>1. ASSUME NEW r \in Requests, UpsertCredentials(r)
      PROVE  CredentialsAreAcceptable'
  <2> DEFINE i == call[r].id
  <2>1. i \in Registered /\ Acceptable(stored[i], call[r].row)
    BY <1>1 DEF UpsertCredentials, Writes, CallsAreValid, CallIsValid
  <2>2. /\ IsFunction(credentials') /\ DOMAIN credentials' = DOMAIN credentials \cup {i}
        /\ credentials'[i] = call[r].row
        /\ \A j \in DOMAIN credentials \ {i} : credentials'[j] = credentials[j]
    BY <1>1 DEF UpsertCredentials, Put, IsFunction
  <2>3. stored' = stored
    BY <1>1 DEF UpsertCredentials
  <2> QED  BY <2>1, <2>2, <2>3 DEF Registered
<1>2. ASSUME UNCHANGED credentials
      PROVE  CredentialsAreAcceptable'
  BY <1>2 DEF IsFunction
<1> QED
  BY <1>1, <1>2 DEF Next, vars, Register, ReadForUpdate, ReadForEnable, ReadForDisable,
     ReadForCredentials, Goes, Update, SetEnabled, Fail

\* A call that has begun stays valid whatever the others write meanwhile.
LEMMA CallsStep ==
  ASSUME IInv, [Next]_vars, KindsAreKept
  PROVE  CallsAreValid'
<1>1. ASSUME NEW r \in Requests, Ends(r)
      PROVE  CallsAreValid'
  <2>1. /\ IsFunction(call') /\ DOMAIN call' = Requests
        /\ call'[r] = Idle
        /\ \A q \in Requests \ {r} : call'[q] = call[q]
    BY <1>1 DEF Ends, IInv, CallsAreValid, IsFunction
  <2>2. ASSUME NEW q \in Requests, call'[q] # Idle
        PROVE  CallIsValid(q)'
    <3>1. call'[q] = call[q] /\ CallIsValid(q)
      BY <2>1, <2>2 DEF IInv, CallsAreValid
    <3> QED  BY <3>1 DEF CallIsValid, KindsAreKept, Acceptable
  <2> QED  BY <2>1, <2>2 DEF CallsAreValid
<1>2. ASSUME UNCHANGED call
      PROVE  CallsAreValid'
  BY <1>2 DEF IInv, CallsAreValid, CallIsValid, KindsAreKept, IsFunction, Acceptable
<1>3. ASSUME NEW r \in Requests, NEW i \in Registered, NEW op, NEW row, Goes(r, op, i, row),
             op = "update" => /\ ValidRow(row)
                              /\ row.kind = stored[i].kind /\ row.driver = stored[i].driver,
             op = "credentials" => Acceptable(stored[i], row)
      PROVE  CallsAreValid'
  <2>1. /\ IsFunction(call') /\ DOMAIN call' = Requests
        /\ \A q \in Requests \ {r} : call'[q] = call[q]
        /\ call'[r] = [op |-> op, id |-> i, was |-> stored[i], row |-> row]
    BY <1>3 DEF Goes, IInv, CallsAreValid, IsFunction
  <2>2. call'[r].op = op /\ call'[r].id = i /\ call'[r].row = row
    BY <2>1
  <2>3. stored' = stored
    BY <1>3 DEF Goes
  <2>4. CallIsValid(r)'
    BY <1>3, <2>2, <2>3 DEF CallIsValid, Registered
  <2>5. ASSUME NEW q \in Requests \ {r}, call'[q] # Idle
        PROVE  CallIsValid(q)'
    BY <2>1, <2>3, <2>5 DEF CallIsValid, IInv, CallsAreValid, Registered
  <2> QED  BY <2>1, <2>4, <2>5 DEF CallsAreValid
<1>4. ASSUME NEW r \in Requests, NEW i \in Registered, NEW given \in Updates,
             ReadForUpdate(r, i, given)
      PROVE  CallsAreValid'
  BY <1>3, <1>4, MergedFacts DEF ReadForUpdate, ValidRow
<1>5. ASSUME NEW r \in Requests, NEW i \in Registered, ReadForEnable(r, i) \/ ReadForDisable(r, i)
      PROVE  CallsAreValid'
  BY <1>3, <1>5 DEF ReadForEnable, ReadForDisable
<1>6. ASSUME NEW r \in Requests, NEW i \in Registered, NEW c \in Credentials,
             ReadForCredentials(r, i, c)
      PROVE  CallsAreValid'
  BY <1>3, <1>6 DEF ReadForCredentials
<1> QED
  BY <1>1, <1>2, <1>4, <1>5, <1>6 DEF Next, vars, Register, Update, SetEnabled,
     UpsertCredentials, Fail

LEMMA InvStep == IInv /\ [Next]_vars => IInv'
BY RowsStep, CredentialsStep, CallsStep DEF IInv

\* The configurations stay valid, for any parameters.
THEOREM Invariance == Spec => []IInv
BY InitInv, InvStep, PTL DEF Spec

\* HoldersCanSettle: a provider that takes holds is one that confirm and release
\* can call.
THEOREM HoldsCanBeSettled == Spec => []HoldersCanSettle
<1>1. ASSUME IInv, NEW i \in Registered
      PROVE  /\ stored[i].enabled /\ "hold" \in stored[i].caps =>
                  /\ {"confirm", "release"} \subseteq stored[i].caps
                  /\ stored[i].kind = "external" =>
                       stored[i].url # NoUrl /\ stored[i].driver = "http"
             /\ i \in DOMAIN credentials =>
                  /\ credentials[i].auth # "none" => credentials[i].secret
                  /\ stored[i].kind = "internal" => credentials[i].auth = "none"
  <2>1. Valid(stored[i])
    BY <1>1 DEF IInv, RowsAreValid, ValidRow
  <2>2. i \in DOMAIN credentials => Acceptable(stored[i], credentials[i])
    BY <1>1 DEF IInv, CredentialsAreAcceptable
  <2> QED  BY <2>1, <2>2, ConfigurationAssumption DEF Valid, Acceptable
<1>2. IInv => HoldersCanSettle
  BY <1>1 DEF HoldersCanSettle
<1> QED  BY Invariance, <1>2, PTL

\* OnlyItsCallSwitches: an update that overlaps with disabling a provider does
\* not bring it back.
THEOREM UpdatesDoNotSwitch == Spec => OnlyItsCallSwitches
<1>1. ASSUME IInv, [Next]_vars, NEW i \in Registered, stored'[i].enabled # stored[i].enabled
      PROVE  \E r \in Requests :
               /\ call[r] # Idle
               /\ call[r].id = i
               /\ call[r].op = (IF stored'[i].enabled THEN "enable" ELSE "disable")
  <2>1. CASE \E r \in Requests : SetEnabled(r)
    <3>1. PICK r \in Requests : SetEnabled(r)
      BY <2>1
    <3>2. call[r] # Idle /\ call[r].op \in {"enable", "disable"}
      BY <3>1 DEF SetEnabled, Writes
    <3>3. call[r].id = i /\ stored'[i].enabled = (call[r].op = "enable")
      BY <1>1, <3>1, SetEnabledFacts
    <3> QED  BY <3>2, <3>3
  <2>2. CASE \E r \in Requests : Update(r)
    BY <1>1, <2>2, UpdateFacts
  <2>3. CASE \E j \in Ids, p \in Registrations : Register(j, p)
    <3>1. PICK j \in Ids, p \in Registrations : Register(j, p)
      BY <2>3
    <3>2. stored'[i] = stored[i]
      BY <1>1, <3>1 DEF Register, Registered, Put
    <3> QED  BY <1>1, <3>2
  <2>4. CASE UNCHANGED stored
    BY <1>1, <2>4
  <2> QED
    BY <1>1, <2>1, <2>2, <2>3, <2>4 DEF Next, vars, ReadForUpdate, ReadForEnable,
       ReadForDisable, ReadForCredentials, Goes, UpsertCredentials, Fail
<1>2. IInv /\ [Next]_vars =>
        [\A i \in Registered : stored'[i].enabled # stored[i].enabled =>
           \E r \in Requests :
             /\ call[r] # Idle
             /\ call[r].id = i
             /\ call[r].op = (IF stored'[i].enabled THEN "enable" ELSE "disable")]_vars
  BY <1>1
<1> QED  BY Invariance, <1>2, PTL DEF Spec, OnlyItsCallSwitches

-----------------------------------------------------------------------------
(* Types *)

NamesDiffer == \A i, j \in Registered : i # j => stored[i].name # stored[j].name

ColumnsOf(p) == p.timeout \in Int /\ p.caps \subseteq Capabilities

ColumnTypes ==
  /\ Registered \subseteq Ids
  /\ \A i \in Registered : ColumnsOf(stored[i]) /\ stored[i].enabled \in BOOLEAN
  /\ \A r \in Requests : call[r] # Idle /\ call[r].op = "update" => ColumnsOf(call[r].row)

LEMMA MergedColumns ==
  ASSUME NEW p, ColumnsOf(p), NEW given \in Updates
  PROVE  ColumnsOf(Merged(p, given))
BY ConfigurationAssumption DEF ColumnsOf, Merged, Fields, Mutable

LEMMA CallColumnsStay ==
  ASSUME IInv, ColumnTypes, NEW r \in Requests,
         \/ UNCHANGED call \/ Ends(r)
         \/ \E i \in Registered : \E op, row :
              Goes(r, op, i, row) /\ (op = "update" => ColumnsOf(row))
  PROVE  \A q \in Requests : call'[q] # Idle /\ call'[q].op = "update" => ColumnsOf(call'[q].row)
<1>0. DOMAIN call = Requests /\ IsFunction(call)
  BY DEF IInv, CallsAreValid
<1>1. CASE UNCHANGED call
  BY <1>1 DEF ColumnTypes
<1>2. CASE Ends(r)
  BY <1>0, <1>2 DEF Ends, ColumnTypes
<1>3. ASSUME NEW i, NEW op, NEW row, Goes(r, op, i, row), op = "update" => ColumnsOf(row)
      PROVE  \A q \in Requests :
               call'[q] # Idle /\ call'[q].op = "update" => ColumnsOf(call'[q].row)
  <2> DEFINE begun == [op |-> op, id |-> i, was |-> stored[i], row |-> row]
  <2>1. call' = [call EXCEPT ![r] = begun] /\ begun.op = op /\ begun.row = row
    BY <1>3 DEF Goes
  <2> HIDE DEF begun
  <2> QED
    BY <1>0, <1>3, <2>1 DEF ColumnTypes
<1> QED
  BY <1>1, <1>2, <1>3

\* A row keeps to its columns when a call switches it or updates it, and its name is free
\* when it is written.
LEMMA ColumnsStep ==
  ASSUME IInv, ColumnTypes, NamesDiffer, [Next]_vars
  PROVE  ColumnTypes' /\ NamesDiffer'
<1>0. IsFunction(stored) /\ Registered \subseteq Ids
  BY DEF IInv, RowsAreValid, ColumnTypes
<1>1. ASSUME NEW i \in Ids, NEW p \in Registrations, Register(i, p)
      PROVE  ColumnTypes' /\ NamesDiffer'
  <2>1. /\ DOMAIN stored' = DOMAIN stored \cup {i} /\ stored'[i] = p /\ i \notin Registered
        /\ \A j \in Registered : stored'[j] = stored[j]
        /\ \A j \in Registered : stored[j].name # p.name
        /\ call' = call
    BY <1>1 DEF Register, Put, NameFree, Registered
  <2>2. ColumnsOf(p) /\ p.enabled \in BOOLEAN
    BY ConfigurationAssumption DEF ColumnsOf
  <2>3. \A q \in Requests : call'[q] # Idle /\ call'[q].op = "update" => ColumnsOf(call'[q].row)
    BY <2>1 DEF ColumnTypes
  <2>4. \A j \in Registered' : ColumnsOf(stored'[j]) /\ stored'[j].enabled \in BOOLEAN
    BY <2>1, <2>2 DEF ColumnTypes, Registered
  <2>5. NamesDiffer'
    BY <2>1 DEF NamesDiffer, Registered
  <2> QED
    BY <1>0, <2>1, <2>3, <2>4, <2>5 DEF ColumnTypes, Registered, ColumnsOf
<1>2. ASSUME NEW r \in Requests, NEW i \in Registered, Ends(r),
             DOMAIN stored' = DOMAIN stored,
             \A j \in Registered \ {i} : stored'[j] = stored[j],
             ColumnsOf(stored'[i]), stored'[i].enabled \in BOOLEAN,
             \A j \in Registered \ {i} : stored[j].name # stored'[i].name
      PROVE  ColumnTypes' /\ NamesDiffer'
  <2>1. \A q \in Requests : call'[q] # Idle /\ call'[q].op = "update" => ColumnsOf(call'[q].row)
    BY <1>2, CallColumnsStay
  <2>2. Registered' = Registered
    BY <1>2 DEF Registered
  <2>3. \A j \in Registered : ColumnsOf(stored'[j]) /\ stored'[j].enabled \in BOOLEAN
    BY <1>2 DEF ColumnTypes
  <2>4. ColumnTypes'
    BY <1>0, <2>1, <2>2, <2>3 DEF ColumnTypes, ColumnsOf
  <2>5. NamesDiffer'
    BY <1>2, <2>2 DEF NamesDiffer
  <2> QED
    BY <2>4, <2>5
<1>3. ASSUME NEW r \in Requests, Update(r) PROVE ColumnTypes' /\ NamesDiffer'
  <2>1. PICK i : i = call[r].id
    OBVIOUS
  <2>2. PICK p : p = call[r].row
    OBVIOUS
  <2>3. /\ call[r] # Idle /\ call[r].op = "update" /\ NameFree(i, p.name) /\ Ends(r)
    BY <1>3, <2>1, <2>2 DEF Update, Writes
  <2>4. /\ DOMAIN stored' = DOMAIN stored /\ i \in Registered
        /\ \A j \in Registered \ {i} : stored'[j] = stored[j]
        /\ stored'[i].enabled = stored[i].enabled
        /\ \A f \in Fields \ {"enabled"} : stored'[i][f] = p[f]
    BY <1>3, <2>1, <2>2, UpdateFacts
  <2>5. stored'[i].timeout = p.timeout /\ stored'[i].caps = p.caps /\ stored'[i].name = p.name
    BY <2>4 DEF Fields, Mutable
  <2>6. ColumnsOf(stored'[i])
    BY <2>2, <2>3, <2>5 DEF ColumnTypes, ColumnsOf
  <2>7. stored'[i].enabled \in BOOLEAN /\ \A j \in Registered \ {i} : stored[j].name # stored'[i].name
    BY <2>3, <2>4, <2>5 DEF ColumnTypes, NameFree
  <2> QED
    BY <1>2, <2>3, <2>4, <2>6, <2>7
<1>4. ASSUME NEW r \in Requests, SetEnabled(r) PROVE ColumnTypes' /\ NamesDiffer'
  <2>1. PICK i : i = call[r].id
    OBVIOUS
  <2>2. /\ DOMAIN stored' = DOMAIN stored /\ i \in Registered
        /\ \A j \in Registered \ {i} : stored'[j] = stored[j]
        /\ stored'[i].enabled \in BOOLEAN
        /\ \A f \in Fields \ {"enabled"} : stored'[i][f] = stored[i][f]
    BY <1>4, <2>1, SetEnabledFacts
  <2>3. /\ stored'[i].timeout = stored[i].timeout /\ stored'[i].caps = stored[i].caps
        /\ stored'[i].name = stored[i].name
    BY <2>2 DEF Fields, Mutable
  <2>4. ColumnsOf(stored'[i])
    BY <2>2, <2>3 DEF ColumnTypes, ColumnsOf
  <2>5. \A j \in Registered \ {i} : stored[j].name # stored'[i].name
    BY <2>2, <2>3 DEF NamesDiffer
  <2> QED
    BY <1>2, <1>4, <2>2, <2>4, <2>5 DEF SetEnabled
<1>5. ASSUME stored' = stored, NEW r \in Requests,
             \/ UNCHANGED call \/ Ends(r)
             \/ \E i \in Registered : \E op, row :
                  Goes(r, op, i, row) /\ (op = "update" => ColumnsOf(row))
      PROVE  ColumnTypes' /\ NamesDiffer'
  <2>1. \A q \in Requests : call'[q] # Idle /\ call'[q].op = "update" => ColumnsOf(call'[q].row)
    BY <1>5, CallColumnsStay
  <2> QED
    BY <1>5, <2>1 DEF ColumnTypes, NamesDiffer, Registered, ColumnsOf
<1>6. ASSUME NEW r \in Requests, NEW i \in Registered, NEW op, NEW row, Goes(r, op, i, row),
             op = "update" => ColumnsOf(row)
      PROVE  ColumnTypes' /\ NamesDiffer'
  <2>1. stored' = stored
    BY <1>6 DEF Goes
  <2> QED
    BY <1>5, <1>6, <2>1
<1>7. ASSUME NEW r \in Requests, NEW i \in Registered, NEW given \in Updates,
             ReadForUpdate(r, i, given)
      PROVE  ColumnTypes' /\ NamesDiffer'
  <2>1. ColumnsOf(Merged(stored[i], given))
    BY MergedColumns DEF ColumnTypes
  <2> QED
    BY <1>6, <1>7, <2>1 DEF ReadForUpdate
<1>8. ASSUME NEW r \in Requests, NEW i \in Registered,
             \/ ReadForEnable(r, i) \/ ReadForDisable(r, i)
             \/ \E c \in Credentials : ReadForCredentials(r, i, c)
      PROVE  ColumnTypes' /\ NamesDiffer'
  BY <1>6, <1>8 DEF ReadForEnable, ReadForDisable, ReadForCredentials
<1>9. ASSUME NEW r \in Requests, UpsertCredentials(r) \/ Fail(r)
      PROVE  ColumnTypes' /\ NamesDiffer'
  BY <1>5, <1>9 DEF UpsertCredentials, Fail
<1>10. CASE UNCHANGED vars
  BY <1>10 DEF vars, ColumnTypes, NamesDiffer, Registered, ColumnsOf
<1> QED
  BY <1>1, <1>3, <1>4, <1>7, <1>8, <1>9, <1>10 DEF Next

\* The tables keep to their columns and constraints: timeouts are positive, names unique,
\* credentials those of a provider that is there.
THEOREM TypesHold == Spec => []TypeOK
<1> DEFINE Inv == IInv /\ ColumnTypes /\ NamesDiffer
<1>1. Init => Inv
  BY InitInv DEF Init, ColumnTypes, NamesDiffer, Registered
<1>2. Inv /\ [Next]_vars => Inv'
  BY InvStep, ColumnsStep
<1>3. Inv => TypeOK
  <2> SUFFICES ASSUME Inv PROVE TypeOK
    OBVIOUS
  <2>1. ASSUME NEW i \in Registered
        PROVE  /\ stored[i].timeout \in Nat \ {0}
               /\ stored[i].caps \subseteq Capabilities
               /\ stored[i].enabled \in BOOLEAN
               /\ NameFree(i, stored[i].name)
    <3>1. Valid(stored[i]) /\ ColumnsOf(stored[i]) /\ stored[i].enabled \in BOOLEAN
      BY DEF IInv, RowsAreValid, ValidRow, ColumnTypes
    <3>2. NameFree(i, stored[i].name)
      BY DEF NamesDiffer, NameFree
    <3> QED
      BY <3>1, <3>2 DEF Valid, ColumnsOf
  <2>2. DOMAIN credentials \subseteq Registered
    BY DEF IInv, CredentialsAreAcceptable
  <2>3. \A r \in Requests : call[r] # Idle => call[r].id \in Registered
    BY DEF IInv, CallsAreValid, CallIsValid
  <2>4. Registered \subseteq Ids
    BY DEF ColumnTypes
  <2> QED
    BY <2>1, <2>2, <2>3, <2>4 DEF TypeOK
<1> QED
  BY <1>1, <1>2, <1>3, PTL DEF Spec
=============================================================================
