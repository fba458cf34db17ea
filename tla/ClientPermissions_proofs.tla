---------------------- MODULE ClientPermissions_proofs ----------------------
(***************************************************************************)
(* Proofs about ClientPermissions, for any permissions, any time to live   *)
(* and any number of operations and faults: its types, that no entry of    *)
(* the cache is out of date for more than two lifetimes, and that none is  *)
(* at all unless a check overlapped an operation, a deletion failed or a   *)
(* role was changed.                                                       *)
(*                                                                         *)
(* The first invariant bounds the time since the last write of an          *)
(* operation by the age of what is out of date. An entry filled from the   *)
(* rows is no older than that time; "effective", filled from another       *)
(* entry, may be younger by one lifetime; and a check holds what it read   *)
(* only while no time passes. It needs nothing of the operations but that  *)
(* each of their calls starts the count again, so what they do may change  *)
(* freely. The second one looks at what an operation still has to do:      *)
(* before it writes a row, it has deleted, or will first delete, each      *)
(* entry.                                                                  *)
(***************************************************************************)
EXTENDS ClientPermissions, SequenceTheorems, TLAPS

SourceKey == {"direct", "roles"}

\* As much of PermissionTypeOK as the argument uses.
CacheTypeOK ==
  /\ known \in SUBSET Permission
  /\ grants \in SUBSET Permission
  /\ roleGrants \in SUBSET Permission
  /\ cache \in [Key -> CacheEntry]
  /\ inquiry \in [busy : BOOLEAN, direct : Fill, roles : Fill]
  /\ quiet \in 0 .. 2 * TimeToLive

\* What is out of date has been since before the last write.
SourcesAgeWell == \A key \in SourceKey : Current(key) \/ quiet <= cache[key].age
EffectiveAgesWell ==
  Current("effective") \/ quiet <= cache["effective"].age + TimeToLive - 1

FillOK(key, fill, silence) ==
  /\ fill.step = "set" => fill.names = Rows(key) \/ silence = 0
  /\ fill.step = "done" => fill.names = Rows(key) \/ silence <= TimeToLive - 1
InquiryOK ==
  FillOK("direct", inquiry.direct, quiet) /\ FillOK("roles", inquiry.roles, quiet)

IdleInquiry == inquiry.busy \/ inquiry = NoInquiry

AgeInv ==
  /\ CacheTypeOK
  /\ IdleInquiry
  /\ SourcesAgeWell
  /\ EffectiveAgesWell
  /\ InquiryOK

-----------------------------------------------------------------------------
LEMMA EntriesOK ==
  /\ NoEntry \in CacheEntry /\ NoEntry.held = FALSE
  /\ \A names \in SUBSET Permission :
       FreshEntry(names) \in CacheEntry /\ FreshEntry(names).age = 0
         /\ FreshEntry(names).names = names
BY TimeToLiveAssumption DEF NoEntry, FreshEntry, CacheEntry

LEMMA RowsOK == CacheTypeOK => \A key \in Key : Rows(key) \in SUBSET Permission
BY DEF CacheTypeOK, Rows, Key

LEMMA AgeInitInv == PermissionInit => AgeInv
<1> SUFFICES ASSUME PermissionInit PROVE AgeInv
  OBVIOUS
<1>1. NoInquiry \in [busy : BOOLEAN, direct : Fill, roles : Fill]
  BY DEF NoInquiry, NewFill, Fill
<1>2. CacheTypeOK
  BY <1>1, EntriesOK, ScopeListsAssumption, TimeToLiveAssumption
     DEF PermissionInit, CacheTypeOK
<1>3. \A key \in Key : Current(key)
  BY EntriesOK DEF PermissionInit, Current
<1>4. SourcesAgeWell /\ EffectiveAgesWell
  BY <1>3 DEF SourcesAgeWell, EffectiveAgesWell, SourceKey, Key
<1>5. InquiryOK /\ IdleInquiry
  BY DEF PermissionInit, InquiryOK, FillOK, NoInquiry, NewFill, IdleInquiry
<1> QED
  BY <1>2, <1>4, <1>5 DEF AgeInv

\* Whatever an operation does: the count starts again.
LEMMA WriteKeepsInv ==
  ASSUME AgeInv, MakeCall \/ \E name \in Permission : DeletePermission(name)
  PROVE  AgeInv'
<1>1. quiet' = 0 /\ inquiry' = inquiry
  BY DEF MakeCall, DeletePermission
<1>2. /\ known' \in SUBSET Permission
      /\ grants' \in SUBSET Permission
      /\ roleGrants' \in SUBSET Permission
  BY DEF AgeInv, CacheTypeOK, MakeCall, DeleteEntry, ValidateAndAssign, WriteGrants,
         WriteClientRole, WriteRoleGrants, rowVars, DeletePermission
<1>3. cache' = cache \/ \E key : cache' = [cache EXCEPT ![key] = NoEntry]
  BY DEF MakeCall, DeleteEntry, ValidateAndAssign, WriteGrants,
         WriteClientRole, WriteRoleGrants, DeletePermission
<1>4. cache' \in [Key -> CacheEntry]
  BY <1>3, EntriesOK DEF AgeInv, CacheTypeOK
<1>5. CacheTypeOK'
  BY <1>1, <1>2, <1>4, TimeToLiveAssumption DEF AgeInv, CacheTypeOK
<1>6. \A key \in Key : cache'[key].age \in 0 .. TimeToLive - 1
  BY <1>4 DEF CacheEntry
<1>7. SourcesAgeWell' /\ EffectiveAgesWell'
  BY <1>1, <1>6, TimeToLiveAssumption DEF SourcesAgeWell, EffectiveAgesWell, SourceKey, Key
<1>8. InquiryOK' /\ IdleInquiry'
  BY <1>1, TimeToLiveAssumption DEF InquiryOK, FillOK, AgeInv, IdleInquiry
<1> QED
  BY <1>5, <1>7, <1>8 DEF AgeInv

\* The calls that fail, and an operation that begins, change nothing that counts.
LEMMA PermissionsUnchanged ==
  ASSUME AgeInv, UNCHANGED <<rowVars, cache, inquiry, quiet>>
  PROVE  AgeInv'
BY DEF rowVars, AgeInv, CacheTypeOK, SourcesAgeWell, EffectiveAgesWell, InquiryOK, FillOK,
       Current, Rows, IdleInquiry

\* A check that takes a step at one of the two sources.
LEMMA FillKeepsInv ==
  ASSUME AgeInv, NEW key \in SourceKey, UNCHANGED <<rowVars, quiet>>,
         NEW fill \in Fill, FillOK(key, fill, quiet),
         \/ key = "direct" /\ inquiry' = [inquiry EXCEPT !.direct = fill]
         \/ key = "roles" /\ inquiry' = [inquiry EXCEPT !.roles = fill],
         cache' \in [Key -> CacheEntry],
         SourcesAgeWell', EffectiveAgesWell', inquiry.busy
  PROVE  AgeInv'
<1>1. CacheTypeOK'
  BY DEF AgeInv, CacheTypeOK, rowVars
<1>2. Rows("direct")' = Rows("direct") /\ Rows("roles")' = Rows("roles") /\ quiet' = quiet
  BY DEF Rows, rowVars
<1>3. \/ inquiry'.direct = inquiry.direct /\ FillOK("roles", inquiry'.roles, quiet)
      \/ inquiry'.roles = inquiry.roles /\ FillOK("direct", inquiry'.direct, quiet)
  BY DEF AgeInv, CacheTypeOK
<1>4. InquiryOK'
  BY <1>2, <1>3 DEF AgeInv, InquiryOK, FillOK
<1>5. IdleInquiry'
  BY DEF AgeInv, CacheTypeOK, IdleInquiry
<1> QED
  BY <1>1, <1>4, <1>5 DEF AgeInv

\* The fill of a source, by name rather than by field.
LEMMA FillsAreGood ==
  ASSUME AgeInv, NEW key \in SourceKey
  PROVE  /\ inquiry[key] \in Fill
         /\ FillOK(key, inquiry[key], quiet)
         /\ \A fill : [inquiry EXCEPT ![key] = fill] =
              IF key = "direct" THEN [inquiry EXCEPT !.direct = fill]
              ELSE [inquiry EXCEPT !.roles = fill]
BY DEF AgeInv, CacheTypeOK, InquiryOK, SourceKey

LEMMA LookUpKeepsInv ==
  ASSUME AgeInv, NEW key \in SourceKey, LookUp(key)
  PROVE  AgeInv'
<1> DEFINE held == cache[key].held
           fill == IF held THEN [step |-> "done", names |-> cache[key].names]
                   ELSE [step |-> "read", names |-> {}]
<1>1. cache[key] \in CacheEntry
  BY DEF AgeInv, CacheTypeOK, SourceKey, Key
<1>2. fill \in Fill
  BY <1>1 DEF CacheEntry, Fill
<1>3. held => cache[key].names = Rows(key) \/ quiet <= TimeToLive - 1
  <2>1. cache[key].age <= TimeToLive - 1 /\ cache[key].age \in Nat
    BY <1>1, TimeToLiveAssumption DEF CacheEntry
  <2>2. quiet \in Nat
    BY TimeToLiveAssumption DEF AgeInv, CacheTypeOK
  <2>3. Current(key) \/ quiet <= cache[key].age
    BY DEF AgeInv, SourcesAgeWell
  <2> QED
    BY <2>1, <2>2, <2>3, TimeToLiveAssumption DEF Current
<1>4. FillOK(key, fill, quiet)
  BY <1>3 DEF FillOK
<1>5. /\ UNCHANGED <<rowVars, quiet, cache>>
      /\ inquiry' = [inquiry EXCEPT ![key] = fill]
      /\ inquiry.busy
  BY DEF LookUp
<1>6. SourcesAgeWell' /\ EffectiveAgesWell'
  BY <1>5 DEF AgeInv, SourcesAgeWell, EffectiveAgesWell, Current, Rows, rowVars
<1>7. \/ key = "direct" /\ inquiry' = [inquiry EXCEPT !.direct = fill]
      \/ key = "roles" /\ inquiry' = [inquiry EXCEPT !.roles = fill]
  BY <1>5, FillsAreGood DEF SourceKey
<1>8. cache' \in [Key -> CacheEntry]
  BY <1>5 DEF AgeInv, CacheTypeOK
<1> HIDE DEF fill
<1> QED
  BY <1>2, <1>4, <1>5, <1>6, <1>7, <1>8, FillKeepsInv

LEMMA ReadRowsKeepsInv ==
  ASSUME AgeInv, NEW key \in SourceKey, ReadRows(key)
  PROVE  AgeInv'
<1> DEFINE fill == [step |-> "set", names |-> Rows(key)]
<1>1. Rows(key) \in SUBSET Permission
  BY RowsOK DEF AgeInv, SourceKey, Key
<1>2. fill \in Fill
  BY <1>1 DEF Fill
<1>4. FillOK(key, fill, quiet)
  BY DEF FillOK
<1>5. /\ UNCHANGED <<rowVars, quiet, cache>>
      /\ inquiry' = [inquiry EXCEPT ![key] = fill]
      /\ inquiry.busy
  BY DEF ReadRows
<1>6. SourcesAgeWell' /\ EffectiveAgesWell'
  BY <1>5 DEF AgeInv, SourcesAgeWell, EffectiveAgesWell, Current, Rows, rowVars
<1>7. \/ key = "direct" /\ inquiry' = [inquiry EXCEPT !.direct = fill]
      \/ key = "roles" /\ inquiry' = [inquiry EXCEPT !.roles = fill]
  BY <1>5, FillsAreGood DEF SourceKey
<1>8. cache' \in [Key -> CacheEntry]
  BY <1>5 DEF AgeInv, CacheTypeOK
<1> HIDE DEF fill
<1> QED
  BY <1>2, <1>4, <1>5, <1>6, <1>7, <1>8, FillKeepsInv

LEMMA StoreFillKeepsInv ==
  ASSUME AgeInv, NEW key \in SourceKey, StoreFill(key)
  PROVE  AgeInv'
<1> DEFINE fill == [inquiry[key] EXCEPT !.step = "done"]
<1>1. inquiry[key] \in Fill /\ fill \in Fill
  BY FillsAreGood DEF Fill
<1>2. inquiry[key].names = Rows(key) \/ quiet = 0
  BY FillsAreGood DEF StoreFill, FillOK
<1>3. quiet \in Nat
  BY TimeToLiveAssumption DEF AgeInv, CacheTypeOK
<1>4. FillOK(key, fill, quiet)
  BY <1>1, <1>2, TimeToLiveAssumption DEF FillOK, Fill
<1>5. /\ UNCHANGED <<rowVars, quiet>>
      /\ inquiry' = [inquiry EXCEPT ![key] = fill]
      /\ cache' = [cache EXCEPT ![key] = FreshEntry(inquiry[key].names)]
      /\ inquiry.busy
  BY DEF StoreFill
<1>6. cache \in [Key -> CacheEntry] /\ key \in Key /\ key # "effective"
  BY DEF AgeInv, CacheTypeOK, SourceKey, Key
<1>7. FreshEntry(inquiry[key].names) \in CacheEntry
  BY <1>1, EntriesOK DEF Fill
<1>8. cache' \in [Key -> CacheEntry]
  BY <1>5, <1>6, <1>7
<1>9. /\ cache'[key].names = inquiry[key].names /\ cache'[key].age = 0
      /\ \A other \in Key \ {key} : cache'[other] = cache[other]
  BY <1>5, <1>6 DEF FreshEntry
<1>10. \A k \in Key : Rows(k)' = Rows(k)
  BY <1>5 DEF Rows, rowVars
<1>11. ASSUME NEW other \in SourceKey
       PROVE  Current(other)' \/ quiet' <= cache'[other].age
  <2>1. CASE other = key
    BY <2>1, <1>2, <1>5, <1>6, <1>9, <1>10 DEF Current
  <2>2. CASE other # key
    <3>1. other \in Key \ {key}
      BY <2>2 DEF SourceKey, Key
    <3> QED
      BY <3>1, <1>5, <1>9, <1>10 DEF Current, AgeInv, SourcesAgeWell
  <2> QED
    BY <2>1, <2>2
<1>12. EffectiveAgesWell'
  <2>1. "effective" \in Key \ {key}
    BY <1>6 DEF Key
  <2> QED
    BY <2>1, <1>5, <1>9, <1>10 DEF AgeInv, EffectiveAgesWell, Current
<1>13. SourcesAgeWell'
  BY <1>11 DEF SourcesAgeWell
<1>14. \/ key = "direct" /\ inquiry' = [inquiry EXCEPT !.direct = fill]
       \/ key = "roles" /\ inquiry' = [inquiry EXCEPT !.roles = fill]
  BY <1>5, FillsAreGood DEF SourceKey
<1> HIDE DEF fill
<1> QED
  BY <1>1, <1>4, <1>5, <1>8, <1>12, <1>13, <1>14, FillKeepsInv

LEMMA StartKeepsInv == ASSUME AgeInv, StartInquiry PROVE AgeInv'
<1>1. NoInquiry \in [busy : BOOLEAN, direct : Fill, roles : Fill]
  BY DEF NoInquiry, NewFill, Fill
<1>2. /\ UNCHANGED <<rowVars, cache, quiet>>
      /\ inquiry' = [NoInquiry EXCEPT !.busy = TRUE]
  BY DEF StartInquiry
<1>3. inquiry' \in [busy : BOOLEAN, direct : Fill, roles : Fill] /\ inquiry'.busy
  BY <1>1, <1>2
<1>4. CacheTypeOK' /\ IdleInquiry'
  BY <1>2, <1>3 DEF AgeInv, CacheTypeOK, rowVars, IdleInquiry
<1>5. SourcesAgeWell' /\ EffectiveAgesWell'
  BY <1>2 DEF AgeInv, SourcesAgeWell, EffectiveAgesWell, Current, Rows, rowVars
<1>6. InquiryOK'
  BY <1>2 DEF InquiryOK, FillOK, NoInquiry, NewFill
<1> QED
  BY <1>4, <1>5, <1>6 DEF AgeInv

\* A check that is answered: both halves are right, or what is wrong is younger
\* than a lifetime.
LEMMA EndKeepsInv == ASSUME AgeInv, EndInquiry PROVE AgeInv'
<1> DEFINE names == inquiry["direct"].names \cup inquiry["roles"].names
<1>1. NoInquiry \in [busy : BOOLEAN, direct : Fill, roles : Fill]
  BY DEF NoInquiry, NewFill, Fill
<1>2. /\ UNCHANGED <<rowVars, quiet>>
      /\ inquiry' = NoInquiry
      /\ cache' = [cache EXCEPT !["effective"] = FreshEntry(names)]
  BY DEF EndInquiry
<1>3. cache \in [Key -> CacheEntry] /\ "effective" \in Key /\ "effective" \notin SourceKey
  BY DEF AgeInv, CacheTypeOK, SourceKey, Key
<1>4. names \in SUBSET Permission
  BY FillsAreGood DEF SourceKey, Fill
<1>5. FreshEntry(names) \in CacheEntry
  BY <1>4, EntriesOK
<1>6. CacheTypeOK' /\ IdleInquiry'
  BY <1>1, <1>2, <1>3, <1>5 DEF AgeInv, CacheTypeOK, rowVars, IdleInquiry
<1>7. /\ cache'["effective"].names = names /\ cache'["effective"].age = 0
      /\ \A key \in SourceKey : cache'[key] = cache[key]
  BY <1>2, <1>3 DEF FreshEntry, SourceKey, Key
<1>8. \A key \in Key : Rows(key)' = Rows(key)
  BY <1>2 DEF Rows, rowVars
<1>9. SourcesAgeWell'
  BY <1>2, <1>7, <1>8 DEF AgeInv, SourcesAgeWell, Current, SourceKey, Key
<1>10. quiet' = quiet /\ quiet \in Nat
  BY <1>2, TimeToLiveAssumption DEF AgeInv, CacheTypeOK
<1>11. CASE quiet <= TimeToLive - 1
  <2>1. quiet' <= cache'["effective"].age + TimeToLive - 1
    BY <1>7, <1>10, <1>11, TimeToLiveAssumption
  <2>2. EffectiveAgesWell'
    BY <2>1 DEF EffectiveAgesWell
  <2>3. InquiryOK'
    BY <1>2 DEF InquiryOK, FillOK, NoInquiry, NewFill
  <2> QED
    BY <1>6, <1>9, <2>2, <2>3 DEF AgeInv
<1>12. CASE ~ (quiet <= TimeToLive - 1)
  <2>1. /\ inquiry["direct"].names = Rows("direct")
        /\ inquiry["roles"].names = Rows("roles")
    BY <1>12, FillsAreGood DEF EndInquiry, FillOK, SourceKey
  <2>2. names = Rows("effective")
    BY <2>1 DEF Rows
  <2>3. EffectiveAgesWell'
    BY <2>2, <1>3, <1>7, <1>8 DEF EffectiveAgesWell, Current
  <2>4. InquiryOK'
    BY <1>2 DEF InquiryOK, FillOK, NoInquiry, NewFill
  <2> QED
    BY <1>6, <1>9, <2>3, <2>4 DEF AgeInv
<1> QED
  BY <1>11, <1>12

LEMMA InquiryFaultKeepsInv == ASSUME AgeInv, InquiryFault PROVE AgeInv'
<1>1. UNCHANGED <<rowVars, cache, quiet>> /\ inquiry.busy
  BY DEF InquiryFault
<1>2. SourcesAgeWell' /\ EffectiveAgesWell'
  BY <1>1 DEF AgeInv, SourcesAgeWell, EffectiveAgesWell, Current, Rows, rowVars
<1>3. cache' \in [Key -> CacheEntry]
  BY <1>1 DEF AgeInv, CacheTypeOK
<1>4. ASSUME NEW key \in SourceKey,
             inquiry[key].step = "look", inquiry' = [inquiry EXCEPT ![key].step = "read"]
      PROVE  AgeInv'
  <2> DEFINE fill == [inquiry[key] EXCEPT !.step = "read"]
  <2>1. fill \in Fill /\ FillOK(key, fill, quiet)
    BY FillsAreGood DEF Fill, FillOK
  <2>2. inquiry' = [inquiry EXCEPT ![key] = fill]
    BY <1>4
  <2>3. \/ key = "direct" /\ inquiry' = [inquiry EXCEPT !.direct = fill]
        \/ key = "roles" /\ inquiry' = [inquiry EXCEPT !.roles = fill]
    BY <2>2, FillsAreGood DEF SourceKey
  <2> HIDE DEF fill
  <2> QED
    BY <1>1, <1>2, <1>3, <2>1, <2>3, FillKeepsInv
<1>5. ASSUME NEW key \in SourceKey,
             inquiry[key].step = "set", inquiry' = [inquiry EXCEPT ![key].step = "done"]
      PROVE  AgeInv'
  <2> DEFINE fill == [inquiry[key] EXCEPT !.step = "done"]
  <2>1. inquiry[key] \in Fill /\ fill \in Fill
    BY FillsAreGood DEF Fill
  <2>2. inquiry[key].names = Rows(key) \/ quiet = 0
    BY <1>5, FillsAreGood DEF FillOK
  <2>3. FillOK(key, fill, quiet)
    BY <2>1, <2>2, TimeToLiveAssumption DEF FillOK, Fill
  <2>4. inquiry' = [inquiry EXCEPT ![key] = fill]
    BY <1>5
  <2>5. \/ key = "direct" /\ inquiry' = [inquiry EXCEPT !.direct = fill]
        \/ key = "roles" /\ inquiry' = [inquiry EXCEPT !.roles = fill]
    BY <2>4, FillsAreGood DEF SourceKey
  <2> HIDE DEF fill
  <2> QED
    BY <1>1, <1>2, <1>3, <2>1, <2>3, <2>5, FillKeepsInv
<1>6. CASE inquiry' = NoInquiry
  <2>1. NoInquiry \in [busy : BOOLEAN, direct : Fill, roles : Fill]
    BY DEF NoInquiry, NewFill, Fill
  <2>2. CacheTypeOK' /\ IdleInquiry'
    BY <1>1, <1>6, <2>1 DEF AgeInv, CacheTypeOK, rowVars, IdleInquiry
  <2>3. InquiryOK'
    BY <1>6 DEF InquiryOK, FillOK, NoInquiry, NewFill
  <2> QED
    BY <1>2, <2>2, <2>3 DEF AgeInv
<1> QED
  BY <1>4, <1>5, <1>6 DEF InquiryFault, SourceKey

\* An entry that grows older by a tick, as the count does, or is dropped.
LEMMA OlderEntries ==
  ASSUME NEW entry \in CacheEntry
  PROVE  /\ Older(entry) \in CacheEntry
         /\ \/ Older(entry).held = FALSE
            \/ /\ entry.held
               /\ Older(entry).names = entry.names
               /\ Older(entry).age = entry.age + 1
<1>1. CASE entry.held /\ entry.age + 1 < TimeToLive
  <2>1. Older(entry) = [entry EXCEPT !.age = entry.age + 1]
    BY <1>1 DEF Older
  <2>2. entry.age + 1 \in 0 .. TimeToLive - 1
    BY <1>1, TimeToLiveAssumption DEF CacheEntry
  <2> QED
    BY <1>1, <2>1, <2>2 DEF CacheEntry
<1>2. CASE ~ (entry.held /\ entry.age + 1 < TimeToLive)
  BY <1>2, EntriesOK DEF Older
<1> QED
  BY <1>1, <1>2

LEMMA TickKeepsInv == ASSUME AgeInv, Tick PROVE AgeInv'
<1>1. /\ UNCHANGED <<rowVars, inquiry>>
      /\ inquiry = NoInquiry
      /\ \A key \in Key : cache'[key] = Older(cache[key])
      /\ cache' = [k \in Key |-> Older(cache[k])]
  BY DEF Tick, AgeInv, IdleInquiry
<1>2. cache \in [Key -> CacheEntry] /\ quiet \in Nat /\ quiet <= 2 * TimeToLive
  BY TimeToLiveAssumption DEF AgeInv, CacheTypeOK
<1>3. cache' \in [Key -> CacheEntry]
  BY <1>1, <1>2, OlderEntries
<1>4. quiet' \in 0 .. 2 * TimeToLive /\ quiet' <= quiet + 1
  BY <1>2, TimeToLiveAssumption DEF Tick
<1>5. CacheTypeOK' /\ IdleInquiry'
  BY <1>1, <1>3, <1>4 DEF AgeInv, CacheTypeOK, rowVars, IdleInquiry
<1>6. \A key \in Key : Rows(key)' = Rows(key)
  BY <1>1 DEF Rows, rowVars
<1>7. ASSUME NEW key \in Key
      PROVE  \/ Current(key)'
             \/ ~Current(key) /\ cache'[key].age = cache[key].age + 1
  BY <1>1, <1>2, <1>6, OlderEntries DEF Current
<1>8. \A key \in Key : cache[key].age \in Nat
  BY <1>2, TimeToLiveAssumption DEF CacheEntry
<1>9. ASSUME NEW key \in SourceKey PROVE Current(key)' \/ quiet' <= cache'[key].age
  <2>1. key \in Key
    BY DEF SourceKey, Key
  <2>2. CASE ~Current(key) /\ cache'[key].age = cache[key].age + 1
    <3>1. quiet <= cache[key].age
      BY <2>2 DEF AgeInv, SourcesAgeWell
    <3> QED
      BY <1>2, <1>4, <1>8, <2>1, <2>2, <3>1
  <2> QED
    BY <1>7, <2>1, <2>2
<1>10. EffectiveAgesWell'
  <2>1. "effective" \in Key
    BY DEF Key
  <2>2. CASE ~Current("effective") /\ cache'["effective"].age = cache["effective"].age + 1
    <3>1. quiet <= cache["effective"].age + TimeToLive - 1
      BY <2>2 DEF AgeInv, EffectiveAgesWell
    <3>2. quiet' <= cache'["effective"].age + TimeToLive - 1
      BY <1>2, <1>4, <1>8, <2>1, <2>2, <3>1, TimeToLiveAssumption
    <3> QED
      BY <3>2 DEF EffectiveAgesWell
  <2> QED
    BY <1>7, <2>1, <2>2 DEF EffectiveAgesWell
<1>11. SourcesAgeWell'
  BY <1>9 DEF SourcesAgeWell
<1>12. InquiryOK'
  BY <1>1 DEF InquiryOK, FillOK, NoInquiry, NewFill
<1> QED
  BY <1>5, <1>10, <1>11, <1>12 DEF AgeInv

LEMMA BeginKeepsInv ==
  ASSUME AgeInv, Operation
  PROVE  AgeInv'
<1>1. CASE UNCHANGED <<rowVars, cache, inquiry, quiet>>
  BY <1>1, PermissionsUnchanged
<1>2. CASE \E name \in Permission : DeletePermission(name)
  BY <1>2, WriteKeepsInv
<1> QED
  BY <1>1, <1>2 DEF Operation, UpdateClientPermissions, UpdateRolePermissions,
     RemovePermissionFromClient, AssignRoleToClient, RemoveRoleFromClient, Begin

LEMMA AgeNextInv == AgeInv /\ [PermissionNext]_permissionVars => AgeInv'
<1> SUFFICES ASSUME AgeInv, [PermissionNext]_permissionVars PROVE AgeInv'
  OBVIOUS
<1>1. CASE StartInquiry
  BY <1>1, StartKeepsInv
<1>2. CASE EndInquiry
  BY <1>2, EndKeepsInv
<1>3. CASE InquiryFault
  BY <1>3, InquiryFaultKeepsInv
<1>4. ASSUME NEW key \in SourceKey, LookUp(key) \/ ReadRows(key) \/ StoreFill(key)
      PROVE  AgeInv'
  BY <1>4, LookUpKeepsInv, ReadRowsKeepsInv, StoreFillKeepsInv
<1>5. CASE Operation
  BY <1>5, BeginKeepsInv
<1>6. CASE MakeCall
  BY <1>6, WriteKeepsInv
<1>7. CASE CallFails
  BY <1>7, PermissionsUnchanged DEF CallFails
<1>8. CASE Tick
  BY <1>8, TickKeepsInv
<1>9. CASE UNCHANGED permissionVars
  BY <1>9, PermissionsUnchanged DEF permissionVars, rowVars
<1> QED
  BY <1>1, <1>2, <1>3, <1>4, <1>5, <1>6, <1>7, <1>8, <1>9 DEF PermissionNext, SourceKey

\* In every state of every behaviour of PermissionSpec, what an entry gets wrong is
\* no longer ago than its age allows.
THEOREM AgeInvariance == PermissionSpec => []AgeInv
BY AgeInitInv, AgeNextInv, PTL DEF PermissionSpec

\* Two lifetimes after the last write of an operation, every entry of the cache
\* says what the rows say (permission.service.ts, cache.service.ts).
THEOREM WrongForTwoLifetimes == PermissionSpec => []OutOfDateForTwoLifetimes
<1>1. AgeInv => OutOfDateForTwoLifetimes
  <2> SUFFICES ASSUME AgeInv, quiet = 2 * TimeToLive, NEW key \in Key PROVE Current(key)
    BY DEF OutOfDateForTwoLifetimes
  <2>1. cache[key].age \in Nat /\ cache[key].age <= TimeToLive - 1
    BY TimeToLiveAssumption DEF AgeInv, CacheTypeOK, CacheEntry
  <2>2. CASE key \in SourceKey
    <3>1. ~ (quiet <= cache[key].age)
      BY <2>1, TimeToLiveAssumption
    <3> QED
      BY <2>2, <3>1 DEF AgeInv, SourcesAgeWell
  <2>3. CASE key = "effective"
    <3>1. ~ (quiet <= cache[key].age + TimeToLive - 1)
      BY <2>1, TimeToLiveAssumption
    <3> QED
      BY <2>3, <3>1 DEF AgeInv, EffectiveAgesWell
  <2> QED
    BY <2>2, <2>3 DEF Key, SourceKey
<1> QED
  BY <1>1, AgeInvariance, PTL

-----------------------------------------------------------------------------
(* An entry is out of date only by an overlap.  An operation deletes every   *)
(* entry before it writes a row; so while no check and no operation overlap, *)
(* its writes find no entry to make false, wherever it stops.                *)

\* The calls that change what entries hold, of operations that delete entries.
Writing == {"clear", "insert", "remove", "addRole", "dropRole"}

\* Before each such write, these calls delete the entry.
DeletedFirst(calls, key) ==
  \A i \in 1 .. Len(calls) : calls[i].do \in Writing =>
    \E j \in 1 .. i - 1 : calls[j].do = "del" /\ calls[j].key = key

\* The entry is gone, and no check is about to fill it again.
Gone(key) == ~inquiry.busy /\ ~cache[key].held

FillCurrent(key) ==
  inquiry[key].step \in {"set", "done"} => inquiry[key].names = Rows(key)

CleanMeansCurrent ==
  clean =>
    /\ \A key \in Key : Current(key) /\ (Gone(key) \/ DeletedFirst(program, key))
    /\ \A key \in SourceKey : FillCurrent(key)

OverlapInv ==
  /\ AgeInv
  /\ PermissionTypeOK
  /\ CleanMeansCurrent

(* The calls of the operations. *)

LEMMA CallsOK ==
  /\ \A key \in Key : Delete(key) \in Calls
  /\ \A names \in SUBSET Permission, do \in {"clear", "validate", "assign", "insert", "remove",
                                             "addRole", "dropRole", "retain", "extend"} :
       Call(do, names) \in Calls
BY DEF Delete, Call, Calls, Key

\* What begins with the three deletions deletes every entry before it writes.
LEMMA DeletionsComeFirst ==
  ASSUME NEW rest \in Seq(Calls)
  PROVE  /\ InvalidateClientCache \o rest \in Seq(Calls)
         /\ \A key \in Key : DeletedFirst(InvalidateClientCache \o rest, key)
<1> DEFINE calls == InvalidateClientCache \o rest
<1>1. /\ InvalidateClientCache \in Seq(Calls) /\ Len(InvalidateClientCache) = 3
      /\ InvalidateClientCache[1] = Delete("effective")
      /\ InvalidateClientCache[2] = Delete("direct")
      /\ InvalidateClientCache[3] = Delete("roles")
  BY CallsOK DEF InvalidateClientCache, Key
<1>2. /\ calls \in Seq(Calls)
      /\ Len(calls) \in Nat /\ Len(calls) >= 3
      /\ calls[1] = Delete("effective") /\ calls[2] = Delete("direct")
      /\ calls[3] = Delete("roles")
  <2> DEFINE n == Len(InvalidateClientCache)
  <2>1. /\ calls \in Seq(Calls) /\ Len(calls) = n + Len(rest)
        /\ \A i \in 1 .. n + Len(rest) :
             calls[i] = IF i <= n THEN InvalidateClientCache[i] ELSE rest[i - n]
    BY <1>1, ConcatProperties
  <2>2. Len(rest) \in Nat /\ n = 3
    BY <1>1, LenProperties
  <2> HIDE DEF calls, n
  <2> QED BY <1>1, <2>1, <2>2
<1> HIDE DEF calls
<1>3. ASSUME NEW key \in Key, NEW i \in 1 .. Len(calls), calls[i].do \in Writing
      PROVE  \E j \in 1 .. i - 1 : calls[j].do = "del" /\ calls[j].key = key
  <2>1. i \notin {1, 2, 3}
    BY <1>2, <1>3 DEF Delete, Writing
  <2>2. 1 \in 1 .. i - 1 /\ 2 \in 1 .. i - 1 /\ 3 \in 1 .. i - 1
    BY <1>2, <2>1
  <2> QED BY <1>2, <2>2 DEF Key, Delete
<1> QED BY <1>2, <1>3 DEF DeletedFirst, calls

\* A call that is not this entry's deletion leaves the rest deleting it first.
LEMMA RestDeletesFirst ==
  ASSUME NEW calls \in Seq(Calls), calls # <<>>, NEW key \in Key, DeletedFirst(calls, key),
         ~(Head(calls).do = "del" /\ Head(calls).key = key)
  PROVE  DeletedFirst(Tail(calls), key)
<1>1. /\ Len(Tail(calls)) = Len(calls) - 1 /\ Len(calls) \in Nat
      /\ \A i \in 1 .. Len(Tail(calls)) : Tail(calls)[i] = calls[i + 1]
  BY HeadTailProperties, LenProperties
<1>2. ~(calls[1].do = "del" /\ calls[1].key = key)
  OBVIOUS
<1>3. SUFFICES ASSUME NEW i \in 1 .. Len(Tail(calls)), Tail(calls)[i].do \in Writing
      PROVE  \E j \in 1 .. i - 1 : Tail(calls)[j].do = "del" /\ Tail(calls)[j].key = key
  BY DEF DeletedFirst
<1>4. i + 1 \in 1 .. Len(calls) /\ calls[i + 1].do \in Writing
  BY <1>1, <1>3
<1>5. PICK j \in 1 .. (i + 1) - 1 : calls[j].do = "del" /\ calls[j].key = key
  BY <1>4 DEF DeletedFirst
<1>6. j # 1
  BY <1>2, <1>5
<1>7. /\ j - 1 \in 1 .. i - 1 /\ j - 1 \in 1 .. Len(Tail(calls))
      /\ Tail(calls)[j - 1] = calls[j]
  BY <1>1, <1>3, <1>5, <1>6
<1> QED BY <1>5, <1>7

LEMMA NothingLeft == <<>> \in Seq(Calls) /\ \A key : DeletedFirst(<<>>, key)
BY DEF DeletedFirst

\* An operation that begins: it deletes every entry before it writes, or, like the
\* change of a role, writes nothing that it would have to delete entries for.
LEMMA OperationsDeleteFirst ==
  ASSUME PermissionTypeOK, Operation, ~ \E name \in Permission : DeletePermission(name)
  PROVE  /\ UNCHANGED <<rowVars, cache, inquiry, quiet, clean, permissionFaults>>
         /\ changes < MaxChanges /\ changes' = changes + 1
         /\ program' \in Seq(Calls)
         /\ \A key \in Key : DeletedFirst(program', key)
<1>1. ASSUME NEW names \in ScopeLists, UpdateClientPermissions(names)
      PROVE  program' \in Seq(Calls) /\ \A key \in Key : DeletedFirst(program', key)
  <2> DEFINE clear == <<Call("clear", {})>>
             assign == AssignPermissionsToClient(names)
  <2>1. clear \in Seq(Calls) /\ assign \in Seq(Calls)
    BY CallsOK, ScopeListsAssumption DEF AssignPermissionsToClient
  <2>2. InvalidateClientCache \in Seq(Calls)
    BY CallsOK DEF InvalidateClientCache, Key
  <2>3. program' = (InvalidateClientCache \o clear) \o assign
    BY <1>1 DEF UpdateClientPermissions
  <2> HIDE DEF clear, assign
  <2>4. program' = InvalidateClientCache \o (clear \o assign) /\ clear \o assign \in Seq(Calls)
    BY <2>1, <2>2, <2>3, ConcatAssociative, ConcatProperties
  <2> QED BY <2>4, DeletionsComeFirst
<1>2. ASSUME NEW names \in ScopeLists, UpdateRolePermissions(names)
      PROVE  program' \in Seq(Calls) /\ \A key \in Key : DeletedFirst(program', key)
  <2>1. /\ program' = <<Call("retain", names), Call("extend", names)>>
        /\ Call("retain", names) \in Calls /\ Call("extend", names) \in Calls
    BY <1>2, CallsOK, ScopeListsAssumption DEF UpdateRolePermissions
  <2>2. Call("retain", names).do \notin Writing /\ Call("extend", names).do \notin Writing
    BY DEF Call, Writing
  <2> QED BY <2>1, <2>2 DEF DeletedFirst
<1>3. ASSUME NEW call \in Calls, program' = Append(InvalidateClientCache, call)
      PROVE  program' \in Seq(Calls) /\ \A key \in Key : DeletedFirst(program', key)
  <2>1. InvalidateClientCache \in Seq(Calls) /\ <<call>> \in Seq(Calls)
    BY CallsOK DEF InvalidateClientCache, Key
  <2>2. program' = InvalidateClientCache \o <<call>>
    BY <1>3, <2>1, AppendIsConcat
  <2> QED BY <2>1, <2>2, DeletionsComeFirst
<1>4. ASSUME NEW name \in Permission, RemovePermissionFromClient(name)
      PROVE  program' \in Seq(Calls) /\ \A key \in Key : DeletedFirst(program', key)
  <2>1. Call("remove", {name}) \in Calls
    BY CallsOK
  <2> QED BY <1>3, <1>4, <2>1 DEF RemovePermissionFromClient
<1>5. ASSUME AssignRoleToClient \/ RemoveRoleFromClient
      PROVE  program' \in Seq(Calls) /\ \A key \in Key : DeletedFirst(program', key)
  <2>1. Call("addRole", {}) \in Calls /\ Call("dropRole", {}) \in Calls
    BY CallsOK
  <2> QED BY <1>3, <1>5, <2>1 DEF AssignRoleToClient, RemoveRoleFromClient
<1>6. Begin
  BY DEF Operation, UpdateClientPermissions, UpdateRolePermissions,
     RemovePermissionFromClient, AssignRoleToClient, RemoveRoleFromClient
<1> QED BY <1>1, <1>2, <1>4, <1>5, <1>6 DEF Operation, Begin

(* Every step keeps it. *)

LEMMA TypesKept ==
  ASSUME OverlapInv, AgeInv', [PermissionNext]_permissionVars
  PROVE  PermissionTypeOK'
<1>1. /\ cache' \in [Key -> CacheEntry]
      /\ inquiry' \in [busy : BOOLEAN, direct : Fill, roles : Fill]
      /\ quiet' \in 0 .. 2 * TimeToLive
  BY DEF AgeInv, CacheTypeOK
<1>2. PermissionTypeOK /\ changes \in Nat /\ permissionFaults \in Nat
  BY ChangesAssumption DEF OverlapInv, PermissionTypeOK
<1>3. CASE \/ StartInquiry \/ EndInquiry \/ InquiryFault \/ Tick
           \/ \E key \in SourceKey : LookUp(key) \/ ReadRows(key) \/ StoreFill(key)
  <2>1. /\ UNCHANGED <<rowVars, program, changes>>
        /\ clean' = clean \/ clean' = (clean /\ program = <<>>)
        /\ \/ permissionFaults' = permissionFaults
           \/ /\ permissionFaults < MaxPermissionFaults
              /\ permissionFaults' = permissionFaults + 1
    <3>1. CASE StartInquiry \/ EndInquiry \/ Tick
      BY <3>1 DEF StartInquiry, EndInquiry, Tick
    <3>2. CASE InquiryFault
      BY <3>2 DEF InquiryFault
    <3>3. CASE \E key \in SourceKey : LookUp(key) \/ ReadRows(key) \/ StoreFill(key)
      BY <3>3 DEF LookUp, ReadRows, StoreFill
    <3> QED BY <1>3, <3>1, <3>2, <3>3
  <2>2. permissionFaults' \in 0 .. MaxPermissionFaults
    BY <1>2, <2>1, ChangesAssumption DEF PermissionTypeOK
  <2> QED BY <1>1, <1>2, <2>1, <2>2 DEF PermissionTypeOK, rowVars
<1>4. CASE Operation
  <2>1. CASE \E name \in Permission : DeletePermission(name)
    <3>1. PICK name \in Permission : DeletePermission(name)
      BY <2>1
    <3>2. /\ known' \in SUBSET Permission /\ grants' \in SUBSET known'
          /\ roleGrants' \in SUBSET known'
      BY <1>2, <3>1 DEF DeletePermission, MayDelete, PermissionTypeOK
    <3>3. changes' \in 0 .. MaxChanges
      BY <1>2, <3>1, ChangesAssumption DEF DeletePermission, PermissionTypeOK
    <3>4. UNCHANGED <<hasRole, program, permissionFaults>> /\ clean' \in BOOLEAN
      BY <3>1 DEF DeletePermission
    <3> QED BY <1>1, <1>2, <3>2, <3>3, <3>4 DEF PermissionTypeOK
  <2>2. CASE ~ \E name \in Permission : DeletePermission(name)
    <3>1. /\ UNCHANGED <<rowVars, clean, permissionFaults>>
          /\ changes' \in 0 .. MaxChanges
          /\ program' \in Seq(Calls)
      BY <1>2, <1>4, <2>2, OperationsDeleteFirst, ChangesAssumption
    <3> QED BY <1>1, <1>2, <3>1 DEF PermissionTypeOK, rowVars
  <2> QED BY <2>1, <2>2
<1>5. CASE MakeCall
  <2>1. program \in Seq(Calls) /\ program # <<>>
    BY <1>2, <1>5 DEF PermissionTypeOK, MakeCall
  <2>2. TheCall \in Calls /\ Next1 \in Seq(Calls)
    BY <2>1, HeadTailProperties DEF TheCall, Next1
  <2>3. program' \in Seq(Calls)
    <3>1. CASE program' \in {Next1, <<>>}
      BY <2>2, <3>1, NothingLeft
    <3>2. ASSUME NEW name \in TheCall.names,
                 program' = InvalidateClientCache
                              \o <<Call("insert", {name}),
                                   Call("assign", TheCall.names \ {name})>>
          PROVE  program' \in Seq(Calls)
      <4>1. {name} \in SUBSET Permission /\ TheCall.names \ {name} \in SUBSET Permission
        BY <2>2 DEF Calls
      <4>2. <<Call("insert", {name}), Call("assign", TheCall.names \ {name})>> \in Seq(Calls)
        BY <4>1, CallsOK
      <4> QED BY <3>2, <4>2, DeletionsComeFirst
    <3> QED
      BY <1>5, <3>1, <3>2 DEF MakeCall, DeleteEntry, ValidateAndAssign, WriteGrants,
         WriteClientRole, WriteRoleGrants
  <2>4. /\ known' = known
        /\ grants' \in SUBSET known /\ roleGrants' \in SUBSET known /\ hasRole' \in BOOLEAN
        /\ clean' \in BOOLEAN
    BY <1>2, <1>5 DEF MakeCall, DeleteEntry, ValidateAndAssign, WriteGrants,
       WriteClientRole, WriteRoleGrants, rowVars, PermissionTypeOK
  <2>5. changes' = changes /\ permissionFaults' = permissionFaults
    BY <1>5 DEF MakeCall
  <2> QED BY <1>1, <1>2, <2>3, <2>4, <2>5 DEF PermissionTypeOK
<1>6. CASE CallFails
  <2>1. program' \in Seq(Calls) /\ clean' \in BOOLEAN
    <3>1. program \in Seq(Calls) /\ program # <<>>
      BY <1>2, <1>6 DEF PermissionTypeOK, CallFails
    <3>2. Next1 \in Seq(Calls)
      BY <3>1, HeadTailProperties DEF Next1
    <3> QED BY <1>2, <1>6, <3>2, NothingLeft DEF CallFails, PermissionTypeOK
  <2>2. UNCHANGED <<rowVars, changes>> /\ permissionFaults' \in 0 .. MaxPermissionFaults
    BY <1>2, <1>6, ChangesAssumption DEF CallFails, PermissionTypeOK
  <2> QED BY <1>1, <1>2, <2>1, <2>2 DEF PermissionTypeOK, rowVars
<1>7. CASE UNCHANGED permissionVars
  BY <1>2, <1>7 DEF permissionVars, rowVars, PermissionTypeOK
<1> QED BY <1>3, <1>4, <1>5, <1>6, <1>7 DEF PermissionNext, SourceKey

\* A check's step.
LEMMA ChecksKeepCurrent ==
  ASSUME OverlapInv, clean',
         \/ StartInquiry \/ EndInquiry \/ InquiryFault
         \/ \E key \in SourceKey : LookUp(key) \/ ReadRows(key) \/ StoreFill(key)
  PROVE  CleanMeansCurrent'
<1>1. clean /\ UNCHANGED <<rowVars, program>> /\ (StartInquiry => program = <<>>)
  BY DEF StartInquiry, EndInquiry, InquiryFault, LookUp, ReadRows, StoreFill
<1>2. /\ \A key \in Key : Current(key) /\ (Gone(key) \/ DeletedFirst(program, key))
      /\ \A key \in SourceKey : FillCurrent(key)
  BY <1>1 DEF OverlapInv, CleanMeansCurrent
<1>3. \A key \in Key : DeletedFirst(program, key)
  <2>1. CASE StartInquiry
    BY <1>1, <2>1, NothingLeft
  <2>2. CASE ~StartInquiry
    BY <1>2, <2>2 DEF Gone, EndInquiry, InquiryFault, LookUp, ReadRows, StoreFill
  <2> QED BY <2>1, <2>2
<1>4. \A key : Rows(key)' = Rows(key)
  BY <1>1 DEF Rows, rowVars
<1>5. cache \in [Key -> CacheEntry] /\ \A key \in SourceKey : inquiry[key] \in Fill
  BY FillsAreGood DEF OverlapInv, PermissionTypeOK
<1>6. "direct" \in SourceKey /\ "roles" \in SourceKey /\ SourceKey \subseteq Key
  BY DEF SourceKey, Key
<1>7. inquiry \in [busy : BOOLEAN, direct : Fill, roles : Fill]
  BY DEF OverlapInv, PermissionTypeOK
\* It is enough that the entries and fills it leaves say what the rows say.
<1>8. SUFFICES /\ \A key \in Key : cache'[key].held => cache'[key].names = Rows(key)
               /\ \A key \in SourceKey :
                    inquiry'[key].step \in {"set", "done"} => inquiry'[key].names = Rows(key)
  BY <1>1, <1>3, <1>4 DEF CleanMeansCurrent, Current, FillCurrent, DeletedFirst
<1>9. CASE StartInquiry
  BY <1>2, <1>9 DEF StartInquiry, NoInquiry, NewFill, Current, SourceKey
<1>10. CASE EndInquiry
  <2>1. /\ inquiry["direct"].names = Rows("direct") /\ inquiry["roles"].names = Rows("roles")
    BY <1>2, <1>6, <1>10 DEF EndInquiry, FillCurrent
  <2>2. inquiry["direct"].names \cup inquiry["roles"].names = Rows("effective")
    BY <2>1 DEF Rows
  <2> QED
    BY <1>2, <1>5, <1>10, <2>2
    DEF EndInquiry, Current, FreshEntry, NoInquiry, NewFill, SourceKey
<1>11. ASSUME NEW key \in SourceKey, NEW fill \in Fill,
              inquiry' = [inquiry EXCEPT ![key] = fill],
              fill.step \in {"set", "done"} => fill.names = Rows(key)
       PROVE  \A k \in SourceKey :
                inquiry'[k].step \in {"set", "done"} => inquiry'[k].names = Rows(k)
  <2>1. ASSUME NEW k \in SourceKey PROVE inquiry'[k] = IF k = key THEN fill ELSE inquiry[k]
    BY <1>7, <1>11 DEF SourceKey
  <2> QED BY <1>2, <1>11, <2>1 DEF FillCurrent
<1>12. ASSUME NEW key \in SourceKey, LookUp(key)
       PROVE  /\ cache' = cache
              /\ \A k \in SourceKey :
                   inquiry'[k].step \in {"set", "done"} => inquiry'[k].names = Rows(k)
  <2> DEFINE fill == IF cache[key].held THEN [step |-> "done", names |-> cache[key].names]
                     ELSE [step |-> "read", names |-> {}]
  <2>1. fill \in Fill
    BY <1>5, <1>6 DEF CacheEntry, Fill
  <2>2. fill.step \in {"set", "done"} => fill.names = Rows(key)
    BY <1>2, <1>6 DEF Current
  <2>3. inquiry' = [inquiry EXCEPT ![key] = fill] /\ cache' = cache
    BY <1>12 DEF LookUp
  <2> HIDE DEF fill
  <2> QED BY <1>11, <2>1, <2>2, <2>3
<1>13. ASSUME NEW key \in SourceKey, ReadRows(key)
       PROVE  /\ cache' = cache
              /\ \A k \in SourceKey :
                   inquiry'[k].step \in {"set", "done"} => inquiry'[k].names = Rows(k)
  <2> DEFINE fill == [step |-> "set", names |-> Rows(key)]
  <2>1. Rows(key) \in SUBSET Permission
    BY <1>6, RowsOK DEF OverlapInv, AgeInv
  <2>2. fill \in Fill /\ (fill.step \in {"set", "done"} => fill.names = Rows(key))
    BY <2>1 DEF Fill
  <2>3. inquiry' = [inquiry EXCEPT ![key] = fill] /\ cache' = cache
    BY <1>13 DEF ReadRows
  <2> HIDE DEF fill
  <2> QED BY <1>11, <2>2, <2>3
<1>14. ASSUME NEW key \in SourceKey, StoreFill(key)
       PROVE  /\ cache' = [cache EXCEPT ![key] = FreshEntry(Rows(key))]
              /\ \A k \in SourceKey :
                   inquiry'[k].step \in {"set", "done"} => inquiry'[k].names = Rows(k)
  <2> DEFINE fill == [inquiry[key] EXCEPT !.step = "done"]
  <2>1. inquiry[key].names = Rows(key)
    BY <1>2, <1>14 DEF StoreFill, FillCurrent
  <2>2. fill \in Fill /\ fill.names = Rows(key)
    BY <1>5, <2>1 DEF Fill
  <2>3. inquiry' = [inquiry EXCEPT ![key] = fill]
    BY <1>14 DEF StoreFill
  <2>4. cache' = [cache EXCEPT ![key] = FreshEntry(Rows(key))]
    BY <1>14, <2>1 DEF StoreFill
  <2> HIDE DEF fill
  <2> QED BY <1>11, <2>2, <2>3, <2>4
<1>15. CASE \E key \in SourceKey : LookUp(key) \/ ReadRows(key) \/ StoreFill(key)
  BY <1>2, <1>5, <1>12, <1>13, <1>14, <1>15 DEF Current, FreshEntry
<1>16. CASE InquiryFault
  <2>1. cache' = cache
    BY <1>16 DEF InquiryFault
  <2>2. CASE inquiry' = NoInquiry
    BY <1>2, <2>1, <2>2 DEF Current, NoInquiry, NewFill, SourceKey
  <2>3. ASSUME NEW key \in SourceKey, NEW step \in {"read", "done"},
               step = "read" \/ inquiry[key].step = "set",
               inquiry' = [inquiry EXCEPT ![key].step = step]
        PROVE  \A k \in SourceKey :
                 inquiry'[k].step \in {"set", "done"} => inquiry'[k].names = Rows(k)
    <3> DEFINE fill == [inquiry[key] EXCEPT !.step = step]
    <3>1. fill \in Fill /\ (fill.step \in {"set", "done"} => fill.names = Rows(key))
      BY <1>2, <1>5, <2>3 DEF Fill, FillCurrent
    <3>2. inquiry' = [inquiry EXCEPT ![key] = fill]
      BY <2>3
    <3> HIDE DEF fill
    <3> QED BY <1>11, <3>1, <3>2
  <2> QED BY <1>2, <1>16, <2>1, <2>2, <2>3 DEF InquiryFault, Current, SourceKey
<1> QED BY <1>9, <1>10, <1>15, <1>16

\* A call of an operation.
LEMMA CallsKeepCurrent ==
  ASSUME OverlapInv, clean', MakeCall
  PROVE  CleanMeansCurrent'
<1>1. clean /\ ~inquiry.busy /\ ~WriteRoleGrants /\ inquiry' = inquiry
  BY DEF MakeCall, DeleteEntry, ValidateAndAssign, WriteGrants, WriteClientRole, WriteRoleGrants
<1>2. \A key \in Key : Current(key) /\ (Gone(key) \/ DeletedFirst(program, key))
  BY <1>1 DEF OverlapInv, CleanMeansCurrent
<1>3. program \in Seq(Calls) /\ program # <<>> /\ cache \in [Key -> CacheEntry]
  BY DEF MakeCall, OverlapInv, PermissionTypeOK
<1>4. TheCall \in Calls
  BY <1>3, HeadTailProperties DEF TheCall
\* No check is under way, so the fills are those of no check.
<1>5. inquiry' = NoInquiry
  BY <1>1 DEF OverlapInv, AgeInv, IdleInquiry
<1>6. \A key \in SourceKey : FillCurrent(key)'
  BY <1>5 DEF FillCurrent, NoInquiry, NewFill, SourceKey
\* Calls that write no row.
<1>7. ASSUME UNCHANGED rowVars,
             NEW gone \in SUBSET Key, \A key \in gone : cache'[key] = NoEntry,
             \A key \in Key \ gone : cache'[key] = cache[key],
             \A key \in Key \ gone : DeletedFirst(program, key) => DeletedFirst(program', key)
      PROVE  CleanMeansCurrent'
  <2>1. \A key : Rows(key)' = Rows(key)
    BY <1>7 DEF Rows, rowVars
  <2>2. \A key \in Key : Current(key)' /\ (Gone(key)' \/ DeletedFirst(program', key))
    BY <1>1, <1>2, <1>7, <2>1, EntriesOK DEF Current, Gone
  <2> QED BY <1>6, <2>2 DEF CleanMeansCurrent, DeletedFirst
<1>8. CASE DeleteEntry
  <2>1. TheCall.key \in Key /\ {TheCall.key} \in SUBSET Key
    BY <1>4 DEF Calls
  <2>2. /\ UNCHANGED rowVars /\ program' = Tail(program)
        /\ \A key \in {TheCall.key} : cache'[key] = NoEntry
        /\ \A key \in Key \ {TheCall.key} : cache'[key] = cache[key]
    BY <1>3, <1>8, <2>1 DEF DeleteEntry, Next1
  <2>3. \A key \in Key \ {TheCall.key} :
          DeletedFirst(program, key) => DeletedFirst(program', key)
    BY <1>3, <2>2, RestDeletesFirst DEF TheCall
  <2> QED BY <1>7, <2>1, <2>2, <2>3
<1>9. CASE ValidateAndAssign
  <2>1. UNCHANGED rowVars /\ cache' = cache
    BY <1>9 DEF ValidateAndAssign
  <2>2. \A key \in Key : DeletedFirst(program, key) => DeletedFirst(program', key)
    <3>1. TheCall.do # "del"
      BY <1>9 DEF ValidateAndAssign
    <3>2. CASE program' \in {Next1, <<>>}
      BY <1>3, <3>1, <3>2, RestDeletesFirst, NothingLeft DEF TheCall, Next1
    <3>3. ASSUME NEW name \in TheCall.names,
                 program' = InvalidateClientCache
                              \o <<Call("insert", {name}),
                                   Call("assign", TheCall.names \ {name})>>
          PROVE  \A key \in Key : DeletedFirst(program', key)
      <4>1. {name} \in SUBSET Permission /\ TheCall.names \ {name} \in SUBSET Permission
        BY <1>4 DEF Calls
      <4>2. <<Call("insert", {name}), Call("assign", TheCall.names \ {name})>> \in Seq(Calls)
        BY <4>1, CallsOK
      <4> QED BY <3>3, <4>2, DeletionsComeFirst
    <3> QED BY <1>9, <3>2, <3>3 DEF ValidateAndAssign
  <2>3. {} \in SUBSET Key
    OBVIOUS
  <2> QED BY <1>7, <2>1, <2>2, <2>3
<1>10. CASE WriteGrants \/ WriteClientRole
  <2>1. TheCall.do \in Writing /\ cache' = cache /\ program' = Next1
    BY <1>10 DEF WriteGrants, WriteClientRole, Writing
  <2>2. Len(program) \in Nat /\ Len(program) > 0 /\ program[1] = TheCall
    BY <1>3, EmptySeq DEF TheCall
  <2>3. \A key \in Key : ~DeletedFirst(program, key)
    BY <2>1, <2>2 DEF DeletedFirst
  <2>4. \A key \in Key : Gone(key)
    BY <1>2, <2>3
  <2>5. \A key \in Key : Gone(key)' /\ Current(key)'
    BY <1>1, <2>1, <2>4 DEF Gone, Current
  <2> QED BY <1>6, <2>5 DEF CleanMeansCurrent
<1> QED BY <1>1, <1>8, <1>9, <1>10 DEF MakeCall

LEMMA OverlapInit == PermissionInit => OverlapInv
<1> SUFFICES ASSUME PermissionInit PROVE OverlapInv
  OBVIOUS
<1>1. AgeInv
  BY AgeInitInv
<1>2. PermissionTypeOK
  BY <1>1, ScopeListsAssumption, ChangesAssumption, NothingLeft
  DEF PermissionInit, PermissionTypeOK, AgeInv, CacheTypeOK
<1>3. CleanMeansCurrent
  BY EntriesOK, NothingLeft
  DEF PermissionInit, CleanMeansCurrent, Current, FillCurrent, NoInquiry, NewFill, SourceKey
<1> QED BY <1>1, <1>2, <1>3 DEF OverlapInv

LEMMA OverlapStep == OverlapInv /\ [PermissionNext]_permissionVars => OverlapInv'
<1> SUFFICES ASSUME OverlapInv, [PermissionNext]_permissionVars PROVE OverlapInv'
  OBVIOUS
<1>1. AgeInv'
  BY AgeNextInv DEF OverlapInv
<1>2. PermissionTypeOK'
  BY <1>1, TypesKept
<1>3. ASSUME clean' PROVE CleanMeansCurrent'
  <2>1. CASE \/ StartInquiry \/ EndInquiry \/ InquiryFault
             \/ \E key \in SourceKey : LookUp(key) \/ ReadRows(key) \/ StoreFill(key)
    BY <1>3, <2>1, ChecksKeepCurrent
  <2>2. CASE MakeCall
    BY <1>3, <2>2, CallsKeepCurrent
  \* Rows, entries and checks are as they were, and what is left deletes entries first.
  <2>3. ASSUME UNCHANGED <<rowVars, cache, inquiry>>, clean,
               \A key \in Key : DeletedFirst(program, key) => DeletedFirst(program', key)
        PROVE  CleanMeansCurrent'
    <3>1. /\ \A key : Rows(key)' = Rows(key)
      BY <2>3 DEF Rows, rowVars
    <3>2. \A key \in Key : Current(key)' /\ (Gone(key)' \/ DeletedFirst(program', key))
      BY <2>3, <3>1 DEF OverlapInv, CleanMeansCurrent, Current, Gone
    <3>3. \A key \in SourceKey : FillCurrent(key)'
      BY <2>3, <3>1 DEF OverlapInv, CleanMeansCurrent, FillCurrent
    <3> QED BY <3>2, <3>3 DEF CleanMeansCurrent, DeletedFirst
  <2>4. CASE Operation
    <3>1. ~ \E name \in Permission : DeletePermission(name)
      BY <1>3 DEF DeletePermission
    <3> QED BY <1>3, <2>3, <2>4, <3>1, OperationsDeleteFirst DEF OverlapInv
  <2>5. CASE CallFails
    <3>1. program' = <<>> /\ clean /\ UNCHANGED <<rowVars, cache, inquiry>>
      BY <1>3, <2>5 DEF CallFails
    <3> QED BY <2>3, <3>1, NothingLeft
  <2>6. CASE Tick
    <3>1. /\ UNCHANGED <<rowVars, inquiry, clean>> /\ program' = <<>>
          /\ cache' = [k \in Key |-> Older(cache[k])]
      BY <2>6 DEF Tick
    <3>2. \A key : Rows(key)' = Rows(key)
      BY <3>1 DEF Rows, rowVars
    <3>3. \A key \in Key : Current(key)'
      BY <1>3, <3>1, <3>2, OlderEntries
      DEF OverlapInv, CleanMeansCurrent, Current, PermissionTypeOK
    <3>4. \A key \in SourceKey : FillCurrent(key)'
      BY <1>3, <3>1, <3>2 DEF OverlapInv, CleanMeansCurrent, FillCurrent
    <3> QED BY <3>1, <3>3, <3>4, NothingLeft DEF CleanMeansCurrent
  <2>7. CASE UNCHANGED permissionVars
    <3>1. UNCHANGED <<rowVars, cache, inquiry, program, clean>>
      BY <2>7 DEF permissionVars, rowVars
    <3> QED BY <1>3, <2>3, <3>1
  <2> QED BY <2>1, <2>2, <2>4, <2>5, <2>6, <2>7 DEF PermissionNext, SourceKey
<1> QED BY <1>1, <1>2, <1>3 DEF OverlapInv, CleanMeansCurrent

LEMMA OverlapInvariance == PermissionSpec => []OverlapInv
BY OverlapInit, OverlapStep, PTL DEF PermissionSpec

\* The rows, the entries, the check under way and the calls that an operation still
\* makes stay in their types; in particular, no client or role is ever granted a
\* permission that is not in the permission table.
THEOREM PermissionTypesCorrect == PermissionSpec => []PermissionTypeOK
<1>1. OverlapInv => PermissionTypeOK
  BY DEF OverlapInv
<1> QED BY <1>1, OverlapInvariance, PTL

\* Between operations that no check overlapped and whose deletions all succeeded,
\* every entry says what the rows say, wherever an operation stopped half-way.
THEOREM WrongOnlyByOverlap == PermissionSpec => []OutOfDateOnlyByOverlap
<1>1. OverlapInv => OutOfDateOnlyByOverlap
  BY DEF OverlapInv, CleanMeansCurrent, OutOfDateOnlyByOverlap
<1> QED BY <1>1, OverlapInvariance, PTL
=============================================================================
