-------------------------- MODULE Catalogue_proofs --------------------------
(***************************************************************************)
(* Proofs about Catalogue, for any names, codes, days and bounds: the      *)
(* types, that every enforced reference leads to a row of the same         *)
(* profile, that a deleted entity is empty, and that the names and periods *)
(* the services keep apart stay apart.                                     *)
(*                                                                         *)
(* The invariant speaks of a set d of rows.  A step adds rows, drops rows  *)
(* or swaps one row for another; one lemma each says when d stays good,    *)
(* and the step of an action only has to show that its guard is enough.    *)
(***************************************************************************)
EXTENDS Catalogue, TLAPS

SharedTables ==
  {"profiles", "market_assets", "prices", "tax_definitions", "broker_fee_definitions"}

Plain(s) == \A b \in s.refs : b[1] # "balance_snapshots"

\* The references of row r are in order among the rows d: they lead to rows of
\* the same profile, a charge hangs on no adjustment, and a movement is on no
\* deleted entity.
Settled(d, r) ==
  ~r.loose =>
    /\ \A k \in r.refs : <<r.key[1], k[1]>> \in Enforced =>
         \E s \in d : s.key = k /\ s.owner = r.owner
    /\ \A s \in d : s.key \in r.refs =>
         /\ r.key[1] \in {"transaction_fees", "transaction_taxes"} /\ s.key[1] = "transactions"
              => Plain(s)
         /\ r.key[1] \in {"transactions", "balance_snapshots"} /\ s.key[1] = "entities"
              => s.live

Keyed(d) == \A r, s \in d : r.key = s.key => r = s
Owned(r) == (r.owner = Shared) <=> (r.key[1] \in SharedTables)

Good(d) ==
  /\ d \subseteq Rows
  /\ Keyed(d)
  /\ \A r \in d : Owned(r) /\ Settled(d, r)

CatalogueInv == TypeOK /\ Good(db) /\ \A r \in held : Owned(r)

-----------------------------------------------------------------------------
(* The three ways the rows change *)

\* New keys lead nowhere the references in order already lead.
LEMMA MoreSettled ==
  ASSUME NEW d, NEW rows, NEW r, Settled(d, r), \A q \in rows, s \in d : q.key # s.key
  PROVE  Settled(d \cup rows, r)
<1>1. ASSUME ~r.loose, NEW s \in rows, s.key \in r.refs,
             <<r.key[1], s.key[1]>> \in Enforced
      PROVE  FALSE
  BY <1>1 DEF Settled
<1> QED
  BY <1>1 DEF Settled, Enforced

LEMMA AddGood ==
  ASSUME NEW d, Good(d), NEW rows \in SUBSET Rows, Keyed(rows),
         \A r \in rows, s \in d : r.key # s.key,
         \A r \in rows : Owned(r) /\ Settled(d \cup rows, r)
  PROVE  Good(d \cup rows)
<1>1. Keyed(d \cup rows)
  BY DEF Good, Keyed
<1>2. ASSUME NEW r \in d PROVE Settled(d \cup rows, r)
  BY MoreSettled DEF Good
<1> QED
  BY <1>1, <1>2 DEF Good

LEMMA DropGood ==
  ASSUME NEW d, Good(d), NEW gone,
         \A r \in d \ gone, s \in d \cap gone :
           ~r.loose /\ s.key \in r.refs /\ s.owner = r.owner
             => <<r.key[1], s.key[1]>> \notin Enforced
  PROVE  Good(d \ gone)
<1>1. Keyed(d \ gone)
  BY DEF Good, Keyed
<1>2. ASSUME NEW r \in d \ gone PROVE Settled(d \ gone, r)
  BY DEF Good, Settled
<1> QED
  BY <1>1, <1>2 DEF Good

LEMMA SwapGood ==
  ASSUME NEW d, Good(d), NEW r \in d, NEW s \in Rows,
         s.key = r.key, s.owner = r.owner, Settled(d, s),
         r.key[1] = "transactions" /\ Plain(r) => Plain(s),
         r.key[1] = "entities" /\ ~s.live =>
           \A q \in d : /\ q.key[1] \in {"transactions", "balance_snapshots"}
                        /\ q.owner = r.owner /\ r.key \in q.refs
                        => q.loose
  PROVE  Good((d \ {r}) \cup {s})
<1> DEFINE e == (d \ {r}) \cup {s}
<1>1. Keyed(e) /\ e \subseteq Rows
  BY DEF Good, Keyed
<1>2. Owned(s)
  BY DEF Good, Owned
<1>3. ASSUME NEW q \in d \cup {s}, Settled(d, q)
      PROVE  Settled(e, q)
  <2>1. ASSUME ~q.loose, NEW k \in q.refs, <<q.key[1], k[1]>> \in Enforced
        PROVE  \E t \in e : t.key = k /\ t.owner = q.owner
    BY <1>3, <2>1 DEF Settled
  <2>2. ASSUME ~q.loose, NEW t \in e, t.key \in q.refs,
               q.key[1] \in {"transaction_fees", "transaction_taxes"},
               t.key[1] = "transactions"
        PROVE  Plain(t)
    BY <1>3, <2>2 DEF Settled
  <2>3. ASSUME ~q.loose, NEW t \in e, t.key \in q.refs,
               q.key[1] \in {"transactions", "balance_snapshots"},
               t.key[1] = "entities"
        PROVE  t.live
    <3>1. CASE t \in d
      BY <1>3, <2>3, <3>1 DEF Settled
    <3>2. CASE t = s
      <4>1. <<q.key[1], r.key[1]>> \in Enforced
        BY <2>3, <3>2 DEF Enforced
      <4>2. PICK u \in d : u.key = r.key /\ u.owner = q.owner
        BY <1>3, <2>3, <3>2, <4>1 DEF Settled
      <4>3. q \in d
        BY <2>3, <3>2
      <4> QED
        BY <2>3, <3>2, <4>2, <4>3 DEF Good, Keyed
    <3> QED
      BY <3>1, <3>2
  <2> QED
    BY <2>1, <2>2, <2>3 DEF Settled
<1> QED
  BY <1>1, <1>2, <1>3 DEF Good

-----------------------------------------------------------------------------
(* The state around an action *)

LEMMA ProfileFacts == ASSUME CatalogueInv, NEW p \in Profiles PROVE p \in Keys /\ p # Shared
<1>1. PICK r \in db : r.key = p /\ p[1] = "profiles"
  BY DEF Profiles, KeysOf, Of
<1>2. p \in Keys
  BY <1>1 DEF CatalogueInv, TypeOK, Rows
<1>3. p \in {"profiles"} \X Ids
  BY <1>1, <1>2 DEF Keys
<1> QED
  BY <1>2, <1>3, CatalogueAssumption DEF Ids, Shared

LEMMA FoundFacts ==
  ASSUME CatalogueInv, NEW p \in Profiles, NEW t \in Tables, NEW k \in Found(p, t)
  PROVE  /\ k \in Keys /\ k[1] = t
         /\ \E s \in db : /\ s.key = k /\ s.live
                         /\ s.owner = IF t \in SharedTables THEN Shared ELSE p
<1>1. PICK s \in db : s.key = k /\ s.live /\ s.key[1] = t /\ s.owner \in {p, Shared}
  BY DEF Found, Seen, KeysOf, Of
<1>2. p # Shared
  BY ProfileFacts
<1>3. s.owner = IF t \in SharedTables THEN Shared ELSE p
  <2>1. Owned(s) /\ (t \in SharedTables => s.owner = Shared)
    BY <1>1 DEF CatalogueInv, Good, Owned
  <2>2. t \notin SharedTables => s.owner # Shared
    BY <1>1, <2>1 DEF Owned
  <2> QED
    BY <1>1, <2>1, <2>2
<1>4. k \in Keys
  BY <1>1 DEF CatalogueInv, TypeOK, Rows
<1> QED
  BY <1>1, <1>3, <1>4

\* What the keys resolved for profile p lead to.
Leads(p, k) ==
  /\ k \in Keys /\ k[1] \in {"entities", "portfolio_assets", "fiscal_exemptions"}
  /\ \E s \in db : s.key = k /\ s.owner = p /\ s.live

LEMMA LeadsTo ==
  ASSUME CatalogueInv, NEW p \in Profiles,
         NEW t \in {"entities", "portfolio_assets", "fiscal_exemptions"}, NEW k \in Found(p, t)
  PROVE  Leads(p, k) /\ k[1] = t
  BY FoundFacts DEF Leads, Tables, SharedTables

LEMMA ResolvedFacts ==
  ASSUME CatalogueInv, NEW p \in Profiles, NEW refs \in Resolved(p)
  PROVE  refs \subseteq Keys /\ \A k \in refs : Leads(p, k)
<1>1. PICK e \in Found(p, "entities"),
           a \in AtMostOne(Found(p, "portfolio_assets")),
           x \in AtMostOne(Found(p, "fiscal_exemptions")) : refs = {e} \cup a \cup x
  BY DEF Resolved
<1>2. a \subseteq Found(p, "portfolio_assets") /\ x \subseteq Found(p, "fiscal_exemptions")
  BY DEF AtMostOne
<1>3. \A k \in refs : Leads(p, k)
  BY <1>1, <1>2, LeadsTo
<1> QED
  BY <1>3 DEF Leads

LEMMA RowFacts ==
  ASSUME NEW k \in Keys, NEW p \in Keys \cup {Shared}
  PROVE  /\ Row(k, p) \in Rows /\ Row(k, p).key = k /\ Row(k, p).owner = p
         /\ Row(k, p).refs = {} /\ ~Row(k, p).loose /\ Row(k, p).live
  BY DEF Row, Rows

LEMMA ChargeRow ==
  ASSUME NEW r \in Rows, NEW t \in Keys, NEW def \in SUBSET Keys
  PROVE  /\ Charge(r, t, def) \in Rows
         /\ Charge(r, t, def).key = r.key /\ Charge(r, t, def).owner = r.owner
         /\ Charge(r, t, def).refs = {t} \cup def
         /\ Charge(r, t, def).loose = OfAdjustment(t)
<1>1. OfAdjustment(t) \in BOOLEAN
  BY DEF OfAdjustment
<1> DEFINE s == [r EXCEPT !.refs = {t} \cup def, !.loose = OfAdjustment(t)]
<1>2. s \in Rows /\ s.key = r.key /\ s.owner = r.owner /\ s.refs = {t} \cup def
  BY <1>1 DEF Rows
<1>3. s.loose = OfAdjustment(t)
  BY DEF Rows
<1> QED
  BY <1>2, <1>3 DEF Charge

LEMMA FreshFacts ==
  ASSUME NEW t \in Tables, NEW used, NEW k \in Fresh(t, used)
  PROVE  k \in Keys /\ k[1] = t /\ k \notin used
  BY DEF Fresh, Keys

-----------------------------------------------------------------------------
(* The three writes keep the invariant *)

LEMMA InsertInv ==
  ASSUME CatalogueInv, NEW rows \in SUBSET Rows, Keyed(rows),
         \A r \in rows : r.key \notin KeysOf(db),
         \A r \in rows : Owned(r) /\ Settled(db \cup rows, r),
         db' = db \cup rows, issued' = issued \cup KeysOf(rows), held' \subseteq held
  PROVE  CatalogueInv'
<1>1. Good(db \cup rows)
  BY AddGood DEF CatalogueInv, KeysOf
<1>2. TypeOK'
  BY <1>1 DEF CatalogueInv, TypeOK, Good, Keyed, KeysOf, Rows
<1> QED
  BY <1>1, <1>2 DEF CatalogueInv

\* One row with a key the table has never handed out.
LEMMA InsertOne ==
  ASSUME CatalogueInv, NEW r \in Rows, r.key \notin KeysOf(db), Owned(r),
         Settled(db, r), Insert({r})
  PROVE  CatalogueInv'
<1>1. Keyed({r}) /\ {r} \in SUBSET Rows
  BY DEF Keyed
<1>2. Settled(db \cup {r}, r)
  BY MoreSettled DEF KeysOf
<1> QED
  BY <1>1, <1>2, InsertInv DEF Insert

LEMMA RemoveInv ==
  ASSUME CatalogueInv, NEW gone, Remove(gone),
         \A r \in db \ gone, s \in db \cap gone :
           ~r.loose /\ s.key \in r.refs /\ s.owner = r.owner
             => <<r.key[1], s.key[1]>> \notin Enforced
  PROVE  CatalogueInv'
<1>1. Good(db \ gone)
  BY DropGood DEF CatalogueInv
<1>2. TypeOK'
  BY DEF CatalogueInv, TypeOK, Remove, KeysOf
<1> QED
  BY <1>1, <1>2 DEF CatalogueInv, Remove

LEMMA ReplaceInv ==
  ASSUME CatalogueInv, NEW r \in db, NEW s \in Rows, Replace(r, s),
         s.key = r.key, s.owner = r.owner, Settled(db, s),
         r.key[1] = "transactions" /\ Plain(r) => Plain(s),
         r.key[1] = "entities" /\ ~s.live =>
           \A q \in db : /\ q.key[1] \in {"transactions", "balance_snapshots"}
                         /\ q.owner = r.owner /\ r.key \in q.refs
                         => q.loose
  PROVE  CatalogueInv'
<1>1. Good((db \ {r}) \cup {s})
  BY SwapGood DEF CatalogueInv
<1>2. TypeOK'
  BY <1>1 DEF CatalogueInv, TypeOK, Replace, Good, Keyed, KeysOf
<1> QED
  BY <1>1, <1>2 DEF CatalogueInv, Replace

LEMMA FreshRow ==
  ASSUME CatalogueInv, NEW t \in Tables, NEW k \in Fresh(t, issued)
  PROVE  k \in Keys /\ k[1] = t /\ k \notin issued /\ k \notin KeysOf(db)
  BY FreshFacts DEF CatalogueInv, TypeOK

LEMMA InsertBare ==
  ASSUME CatalogueInv, NEW r \in Rows, r.key \notin KeysOf(db), Owned(r), r.refs = {},
         Insert({r})
  PROVE  CatalogueInv'
<1>1. Settled(db, r)
  BY DEF Settled
<1> QED
  BY <1>1, InsertOne

\* Nothing the references depend on changes.
LEMMA ReplaceBare ==
  ASSUME CatalogueInv, NEW r \in db, NEW s \in Rows, Replace(r, s),
         s.key = r.key, s.owner = r.owner, s.refs = r.refs, s.loose = r.loose, s.live = r.live
  PROVE  CatalogueInv'
<1>1. Settled(db, s)
  BY DEF CatalogueInv, Good, Settled
<1>2. r.key[1] = "entities" /\ ~s.live =>
        \A q \in db : /\ q.key[1] \in {"transactions", "balance_snapshots"}
                      /\ q.owner = r.owner /\ r.key \in q.refs
                      => q.loose
  BY DEF CatalogueInv, Good, Settled
<1> QED
  BY <1>1, <1>2, ReplaceInv DEF Plain

\* A row of a table no enforced reference leads to.
LEMMA RemoveLeaf ==
  ASSUME CatalogueInv, NEW r, Remove({r}),
         r.key[1] \notin {"entities", "portfolio_assets", "fiscal_exemptions",
                         "transactions", "market_assets"}
  PROVE  CatalogueInv'
<1>1. \A q \in db \ {r}, s \in db \cap {r} :
         ~q.loose /\ s.key \in q.refs /\ s.owner = q.owner
           => <<q.key[1], s.key[1]>> \notin Enforced
  BY DEF Enforced
<1> QED
  BY <1>1, RemoveInv

-----------------------------------------------------------------------------
(* The actions: profiles and the shared tables *)

LEMMA CreateSharedInv ==
  ASSUME CatalogueInv, NEW n \in Names,
         \/ CreateProfile(n)
         \/ CreateTaxDefinition(n)
         \/ CreateFeeDefinition
  PROVE  CatalogueInv'
<1>1. ASSUME NEW t \in {"profiles", "tax_definitions", "broker_fee_definitions"},
             NEW k \in Fresh(t, issued), NEW m \in Names \cup {NoName},
             Insert({[Row(k, Shared) EXCEPT !.name = m]})
      PROVE  CatalogueInv'
  <2> DEFINE r == [Row(k, Shared) EXCEPT !.name = m]
  <2>1. k \in Keys /\ k[1] = t /\ k \notin KeysOf(db)
    BY FreshRow DEF Tables
  <2>2. r \in Rows /\ r.key = k /\ r.owner = Shared /\ r.refs = {}
    BY <2>1, RowFacts DEF Rows
  <2>3. Insert({r})
    BY <1>1
  <2>4. Owned(r)
    BY <2>1, <2>2 DEF Owned, SharedTables
  <2> HIDE DEF r
  <2> QED
    BY <2>1, <2>2, <2>3, <2>4, InsertBare
<1>2. CASE CreateProfile(n)
  BY <1>1, <1>2 DEF CreateProfile
<1>3. CASE CreateTaxDefinition(n)
  BY <1>1, <1>3 DEF CreateTaxDefinition
<1>4. CASE CreateFeeDefinition
  <2>1. PICK k \in Fresh("broker_fee_definitions", issued) : Insert({Row(k, Shared)})
    BY <1>4 DEF CreateFeeDefinition
  <2>2. k \in Keys /\ k[1] = "broker_fee_definitions" /\ k \notin KeysOf(db)
    BY FreshRow DEF Tables
  <2>3. /\ Row(k, Shared) \in Rows /\ Row(k, Shared).key = k
        /\ Row(k, Shared).refs = {} /\ Owned(Row(k, Shared))
    BY <2>2, RowFacts DEF Owned, SharedTables
  <2> QED
    BY <2>1, <2>2, <2>3, InsertBare
<1> QED
  BY <1>2, <1>3, <1>4

LEMMA RenameInv ==
  ASSUME CatalogueInv, NEW r \in db, NEW n \in Names, Replace(r, [r EXCEPT !.name = n])
  PROVE  CatalogueInv'
<1> DEFINE s == [r EXCEPT !.name = n]
<1>1. r \in Rows
  BY DEF CatalogueInv, TypeOK
<1>2. /\ s \in Rows /\ s.key = r.key /\ s.owner = r.owner /\ s.refs = r.refs
      /\ s.loose = r.loose /\ s.live = r.live
  BY <1>1 DEF Rows
<1>3. Replace(r, s)
  OBVIOUS
<1> HIDE DEF s
<1> QED
  BY <1>2, <1>3, ReplaceBare

LEMMA RetypeInv ==
  ASSUME CatalogueInv, NEW r \in db, NEW n \in Names, NEW y \in EntityTypes,
         Replace(r, [r EXCEPT !.name = n, !.type = y])
  PROVE  CatalogueInv'
<1> DEFINE s == [r EXCEPT !.name = n, !.type = y]
<1>1. r \in Rows
  BY DEF CatalogueInv, TypeOK
<1>2. /\ s \in Rows /\ s.key = r.key /\ s.owner = r.owner /\ s.refs = r.refs
      /\ s.loose = r.loose /\ s.live = r.live
  BY <1>1 DEF Rows
<1>3. Replace(r, s)
  OBVIOUS
<1> HIDE DEF s
<1> QED
  BY <1>2, <1>3, ReplaceBare

LEMMA DeleteProfileInv ==
  ASSUME CatalogueInv, NEW p \in db, DeleteProfile(p) PROVE CatalogueInv'
<1> DEFINE gone == {p} \cup {r \in db : r.key[1] \in ProfileTables /\ r.owner = p.key}
<1>1. p.key[1] = "profiles" /\ Remove(gone)
  BY DEF DeleteProfile, Of
<1>2. \A r \in db \ gone, s \in db \cap gone :
         ~r.loose /\ s.key \in r.refs /\ s.owner = r.owner
           => <<r.key[1], s.key[1]>> \notin Enforced
  BY <1>1 DEF Enforced, ProfileTables
<1> HIDE DEF gone
<1> QED
  BY <1>1, <1>2, RemoveInv

LEMMA CreateMarketAssetInv ==
  ASSUME CatalogueInv, NEW c \in Codes, CreateMarketAsset(c) PROVE CatalogueInv'
<1> DEFINE k == <<"market_assets", c>>
<1>1. k \in Keys
  BY DEF Keys
<1>2. k \notin KeysOf(db) /\ Insert({Row(k, Shared)})
  BY DEF CreateMarketAsset
<1>3. k[1] = "market_assets"
  OBVIOUS
<1> HIDE DEF k
<1>4. Row(k, Shared) \in Rows /\ Row(k, Shared).key = k /\ Row(k, Shared).refs = {}
      /\ Owned(Row(k, Shared))
  BY <1>1, <1>3, RowFacts DEF Owned, SharedTables
<1> QED
  BY <1>2, <1>4, InsertBare

LEMMA SharedInv == ASSUME CatalogueInv, SharedNext PROVE CatalogueInv'
<1>1. ASSUME NEW n \in Names, CreateProfile(n) \/ CreateTaxDefinition(n) PROVE CatalogueInv'
  BY <1>1, CreateSharedInv
<1>2. ASSUME NEW r \in db, NEW n \in Names, RenameProfile(r, n) \/ UpdateTaxDefinition(r, n)
      PROVE  CatalogueInv'
  BY <1>2, RenameInv DEF RenameProfile, UpdateTaxDefinition
<1>3. ASSUME NEW r \in db, DeleteProfile(r) PROVE CatalogueInv'
  BY <1>3, DeleteProfileInv
<1>4. ASSUME NEW r \in db, DeleteTaxDefinition(r) \/ DeleteFeeDefinition(r)
      PROVE  CatalogueInv'
  BY <1>4, RemoveLeaf DEF DeleteTaxDefinition, DeleteFeeDefinition, Of
<1>5. CASE CreateFeeDefinition
  BY <1>5, CreateSharedInv, CatalogueAssumption
<1>6. ASSUME NEW c \in Codes, CreateMarketAsset(c) PROVE CatalogueInv'
  BY <1>6, CreateMarketAssetInv
<1> QED
  BY <1>1, <1>2, <1>3, <1>4, <1>5, <1>6 DEF SharedNext

-----------------------------------------------------------------------------
(* The actions: entities, assets, prices, exemptions and periods *)

\* A row with a fresh key, no references and any name or span.
LEMMA CreateBare ==
  ASSUME CatalogueInv, NEW p \in Profiles,
         NEW t \in {"entities", "fiscal_exemptions", "fiscal_periods"},
         NEW k \in Fresh(t, issued), NEW r \in Rows,
         r.key = k, r.owner = p, r.refs = {}, Insert({r})
  PROVE  CatalogueInv'
<1>1. k[1] = t /\ k \notin KeysOf(db)
  BY FreshRow DEF Tables
<1>2. Owned(r)
  BY <1>1, ProfileFacts DEF Owned, SharedTables
<1> QED
  BY <1>1, <1>2, InsertBare

LEMMA CreateBaresInv ==
  ASSUME CatalogueInv, NEW p \in Profiles,
         \/ \E n \in Names, y \in EntityTypes : CreateEntity(p, n, y)
         \/ CreateExemption(p)
         \/ \E s \in Spans : CreatePeriod(p, s)
  PROVE  CatalogueInv'
<1>0. p \in Keys
  BY ProfileFacts
<1>1. ASSUME NEW n \in Names, NEW y \in EntityTypes, CreateEntity(p, n, y) PROVE CatalogueInv'
  <2>1. PICK k \in Fresh("entities", issued) : Insert({[Row(k, p) EXCEPT !.name = n, !.type = y]})
    BY <1>1 DEF CreateEntity
  <2> DEFINE row == Row(k, p)
             r == [row EXCEPT !.name = n, !.type = y]
  <2>2. k \in Keys
    BY FreshRow DEF Tables
  <2>3. r \in Rows /\ r.key = k /\ r.owner = p /\ r.refs = {}
    <3>1. row \in Rows /\ row.key = k /\ row.owner = p /\ row.refs = {}
      BY <1>0, <2>2, RowFacts
    <3> HIDE DEF row
    <3> QED
      BY <3>1 DEF Rows
  <2>4. Insert({r})
    BY <2>1
  <2> HIDE DEF r
  <2> QED
    BY <2>3, <2>4, CreateBare
<1>2. CASE CreateExemption(p)
  <2>1. PICK k \in Fresh("fiscal_exemptions", issued) : Insert({Row(k, p)})
    BY <1>2 DEF CreateExemption
  <2>2. k \in Keys
    BY FreshRow DEF Tables
  <2> QED
    BY <1>0, <2>1, <2>2, RowFacts, CreateBare
<1>3. ASSUME NEW s \in Spans, CreatePeriod(p, s) PROVE CatalogueInv'
  <2>1. PICK k \in Fresh("fiscal_periods", issued) : Insert({[Row(k, p) EXCEPT !.span = s]})
    BY <1>3 DEF CreatePeriod
  <2> DEFINE r == [Row(k, p) EXCEPT !.span = s]
  <2>2. k \in Keys
    BY FreshRow DEF Tables
  <2>3. r \in Rows /\ r.key = k /\ r.owner = p /\ r.refs = {}
    BY <1>0, <2>2, RowFacts DEF Rows
  <2>4. Insert({r})
    BY <2>1
  <2> HIDE DEF r
  <2> QED
    BY <2>3, <2>4, CreateBare
<1> QED
  BY <1>1, <1>2, <1>3

LEMMA UpdatePeriodInv ==
  ASSUME CatalogueInv, NEW p \in Profiles, NEW r \in db, NEW s \in Spans, UpdatePeriod(p, r, s)
  PROVE  CatalogueInv'
<1> DEFINE q == [r EXCEPT !.span = s]
<1>1. r \in Rows
  BY DEF CatalogueInv, TypeOK
<1>2. /\ q \in Rows /\ q.key = r.key /\ q.owner = r.owner /\ q.refs = r.refs
      /\ q.loose = r.loose /\ q.live = r.live
  BY <1>1 DEF Rows
<1>3. Replace(r, q)
  BY DEF UpdatePeriod
<1> HIDE DEF q
<1> QED
  BY <1>2, <1>3, ReplaceBare

\* Whoever refers to a row of its own profile is among those the check counts.
LEMMA Counted ==
  ASSUME NEW p, NEW t \in Tables, NEW s \in Seen(p, t), NEW q \in db, NEW u,
         q.key[1] = u, s.key \in q.refs, q.owner = s.owner
  PROVE  q \in Referring(p, u, s.key)
  BY DEF Seen, Referring, Of

LEMMA DeleteEntityInv ==
  ASSUME CatalogueInv, NEW p \in Profiles, NEW e \in db, DeleteEntity(p, e) PROVE CatalogueInv'
<1> DEFINE s == [e EXCEPT !.live = FALSE]
<1>1. e \in Rows /\ e \in Seen(p, "entities") /\ e.key[1] = "entities"
  BY DEF CatalogueInv, TypeOK, DeleteEntity, Seen, Of
<1>2. s \in Rows /\ s.key = e.key /\ s.owner = e.owner /\ s.refs = e.refs /\ s.loose = e.loose
  BY <1>1 DEF Rows
<1>3. Settled(db, s)
  BY <1>2 DEF CatalogueInv, Good, Settled
<1>4. \A q \in db : /\ q.key[1] \in {"transactions", "balance_snapshots"}
                    /\ q.owner = e.owner /\ e.key \in q.refs
                    => q.loose
  BY <1>1, Counted DEF DeleteEntity, EntityHasDependents, Tables
<1>5. Replace(e, s)
  BY DEF DeleteEntity
<1> HIDE DEF s
<1> QED
  BY <1>1, <1>2, <1>3, <1>4, <1>5, ReplaceInv

LEMMA DeleteCountedInv ==
  ASSUME CatalogueInv, NEW p \in Profiles, NEW r \in db,
         \/ DeleteMarketAsset(p, r)
         \/ DeletePortfolioAsset(p, r)
         \/ DeleteExemption(p, r)
         \/ DeleteTransaction(p, r)
  PROVE  CatalogueInv'
<1>1. ASSUME NEW t \in Tables, r \in Seen(p, t), Remove({r}),
             \A u \in Tables : <<u, t>> \in Enforced => Referring(p, u, r.key) = {}
      PROVE  CatalogueInv'
  <2>1. r.key[1] = t
    BY <1>1 DEF Seen, Of
  <2>2. \A q \in db \ {r}, s \in db \cap {r} :
           ~q.loose /\ s.key \in q.refs /\ s.owner = q.owner
             => <<q.key[1], s.key[1]>> \notin Enforced
    BY <1>1, <2>1, Counted DEF Enforced, Tables
  <2> QED
    BY <1>1, <2>2, RemoveInv
<1>2. CASE DeleteMarketAsset(p, r)
  <2>1. \A u \in Tables : <<u, "market_assets">> \in Enforced => Referring(p, u, r.key) = {}
    BY <1>2 DEF DeleteMarketAsset, MarketAssetHasDependents, Enforced
  <2> QED
    BY <1>1, <1>2, <2>1 DEF DeleteMarketAsset, Tables
<1>3. CASE DeletePortfolioAsset(p, r)
  <2>1. \A u \in Tables : <<u, "portfolio_assets">> \in Enforced => Referring(p, u, r.key) = {}
    BY <1>3 DEF DeletePortfolioAsset, PortfolioAssetHasDependents, Enforced
  <2> QED
    BY <1>1, <1>3, <2>1 DEF DeletePortfolioAsset, Tables
<1>4. CASE DeleteExemption(p, r)
  <2>1. \A u \in Tables : <<u, "fiscal_exemptions">> \in Enforced => Referring(p, u, r.key) = {}
    BY <1>4 DEF DeleteExemption, FiscalExemptionHasDependents, Enforced
  <2> QED
    BY <1>1, <1>4, <2>1 DEF DeleteExemption, Tables
<1>5. CASE DeleteTransaction(p, r)
  <2>1. \A u \in Tables : <<u, "transactions">> \in Enforced => Referring(p, u, r.key) = {}
    BY <1>5 DEF DeleteTransaction, TransactionHasDependents, Enforced
  <2> QED
    BY <1>1, <1>5, <2>1 DEF DeleteTransaction, Tables
<1> QED
  BY <1>2, <1>3, <1>4, <1>5

\* What the write of a price or a portfolio asset refers to.
LEMMA MarketSettled ==
  ASSUME CatalogueInv, NEW p \in Profiles, NEW m \in Found(p, "market_assets"),
         NEW r, r.refs = {m},
         \/ r.key[1] = "prices" /\ r.owner = Shared
         \/ r.key[1] = "portfolio_assets"
  PROVE  m \in Keys /\ Settled(db, r)
<1>1. m \in Keys /\ m[1] = "market_assets" /\ \E s \in db : s.key = m /\ s.owner = Shared
  BY FoundFacts DEF Tables, SharedTables
<1> QED
  BY <1>1 DEF Settled, Enforced

LEMMA CreateHoldingInv ==
  ASSUME CatalogueInv, NEW p \in Profiles, NEW m \in KeysOf(db),
         CreatePrice(p, m) \/ CreatePortfolioAsset(p, m)
  PROVE  CatalogueInv'
<1>0. p \in Keys /\ p # Shared
  BY ProfileFacts
<1>1. ASSUME NEW t \in {"prices", "portfolio_assets"}, NEW k \in Fresh(t, issued),
             NEW o, o = IF t = "prices" THEN Shared ELSE p,
             m \in Found(p, "market_assets"), Insert({[Row(k, o) EXCEPT !.refs = {m}]})
      PROVE  CatalogueInv'
  <2> DEFINE r == [Row(k, o) EXCEPT !.refs = {m}]
  <2>1. k \in Keys /\ k[1] = t /\ k \notin KeysOf(db)
    BY FreshRow DEF Tables
  <2>2. m \in Keys
    BY <1>1, FoundFacts DEF Tables
  <2>3. r \in Rows /\ r.key = k /\ r.owner = o /\ r.refs = {m}
    BY <1>0, <1>1, <2>1, <2>2, RowFacts DEF Rows
  <2>4. Insert({r})
    BY <1>1
  <2> HIDE DEF r
  <2>5. Owned(r)
    BY <1>0, <1>1, <2>1, <2>3 DEF Owned, SharedTables
  <2>6. Settled(db, r)
    BY <1>1, <2>1, <2>3, MarketSettled
  <2> QED
    BY <2>1, <2>3, <2>4, <2>5, <2>6, InsertOne
<1>2. CASE CreatePrice(p, m)
  BY <1>1, <1>2 DEF CreatePrice
<1>3. CASE CreatePortfolioAsset(p, m)
  BY <1>1, <1>3 DEF CreatePortfolioAsset
<1> QED
  BY <1>2, <1>3

LEMMA UpdateHoldingInv ==
  ASSUME CatalogueInv, NEW p \in Profiles, NEW m \in KeysOf(db), NEW r \in db,
         UpdatePrice(p, r, m) \/ UpdatePortfolioAsset(p, r, m)
  PROVE  CatalogueInv'
<1>1. r \in Rows /\ Owned(r)
  BY DEF CatalogueInv, TypeOK, Good
<1>2. ASSUME NEW l \in BOOLEAN, m \in Found(p, "market_assets"),
             Replace(r, [r EXCEPT !.refs = {m}, !.loose = l]),
             r.key[1] \in {"prices", "portfolio_assets"}
      PROVE  CatalogueInv'
  <2> DEFINE s == [r EXCEPT !.refs = {m}, !.loose = l]
  <2>1. m \in Keys
    BY <1>2, FoundFacts DEF Tables
  <2>2. s \in Rows /\ s.key = r.key /\ s.owner = r.owner /\ s.refs = {m}
    BY <1>1, <2>1 DEF Rows
  <2>3. Replace(r, s)
    BY <1>2
  <2> HIDE DEF s
  <2>4. r.key[1] = "prices" => s.owner = Shared
    BY <1>1, <2>2 DEF Owned, SharedTables
  <2>5. Settled(db, s)
    BY <1>2, <2>2, <2>4, MarketSettled
  <2> QED
    BY <1>2, <2>2, <2>3, <2>5, ReplaceInv
<1>3. CASE UpdatePrice(p, r, m)
  BY <1>2, <1>3 DEF UpdatePrice, Seen, Of
<1>4. CASE UpdatePortfolioAsset(p, r, m)
  <2>1. [r EXCEPT !.refs = {m}, !.loose = r.loose] = [r EXCEPT !.refs = {m}]
    BY <1>1 DEF Rows
  <2>2. r.loose \in BOOLEAN
    BY <1>1 DEF Rows
  <2> QED
    BY <1>2, <1>4, <2>1, <2>2 DEF UpdatePortfolioAsset, Seen, Of
<1> QED
  BY <1>3, <1>4

LEMMA HoldingsInv ==
  ASSUME CatalogueInv, NEW p \in Profiles, HoldingsNext(p) PROVE CatalogueInv'
<1>1. ASSUME NEW n \in Names, NEW y \in EntityTypes, CreateEntity(p, n, y) PROVE CatalogueInv'
  BY <1>1, CreateBaresInv
<1>2. ASSUME NEW n \in Names, NEW y \in EntityTypes, NEW e \in db, UpdateEntity(p, e, n, y)
      PROVE  CatalogueInv'
  BY <1>2, RetypeInv DEF UpdateEntity
<1>3. ASSUME NEW m \in KeysOf(db), CreatePrice(p, m) \/ CreatePortfolioAsset(p, m)
      PROVE  CatalogueInv'
  BY <1>3, CreateHoldingInv
<1>4. ASSUME NEW m \in KeysOf(db), NEW r \in db,
             UpdatePrice(p, r, m) \/ UpdatePortfolioAsset(p, r, m)
      PROVE  CatalogueInv'
  BY <1>4, UpdateHoldingInv
<1>5. ASSUME NEW s \in Spans, CreatePeriod(p, s) PROVE CatalogueInv'
  BY <1>5, CreateBaresInv
<1>6. ASSUME NEW s \in Spans, NEW r \in db, UpdatePeriod(p, r, s) PROVE CatalogueInv'
  BY <1>6, UpdatePeriodInv
<1>7. CASE CreateExemption(p)
  BY <1>7, CreateBaresInv
<1>8. ASSUME NEW r \in db, DeleteEntity(p, r) PROVE CatalogueInv'
  BY <1>8, DeleteEntityInv
<1>9. ASSUME NEW r \in db, DeleteMarketAsset(p, r) \/ DeletePortfolioAsset(p, r)
             \/ DeleteExemption(p, r)
      PROVE  CatalogueInv'
  BY <1>9, DeleteCountedInv
<1>10. ASSUME NEW r \in db, DeletePrice(p, r) \/ DeletePeriod(p, r) PROVE CatalogueInv'
  BY <1>10, RemoveLeaf DEF DeletePrice, DeletePeriod, Seen, Of
<1> QED
  BY <1>1, <1>2, <1>3, <1>4, <1>5, <1>6, <1>7, <1>8, <1>9, <1>10 DEF HoldingsNext

-----------------------------------------------------------------------------
(* The actions: transactions, charges, snapshots and schedules *)

\* A movement or a schedule whose references lead to rows of its profile that
\* are still among the rows d.
LEMMA MovementSettled ==
  ASSUME CatalogueInv, NEW d, Keyed(d), d \subseteq db \/ db \subseteq d,
         \A s \in db : s.key[1] \in {"entities", "portfolio_assets", "fiscal_exemptions"}
                       => s \in d,
         NEW p \in Profiles, NEW r, r.owner = p,
         r.key[1] \in {"transactions", "balance_snapshots", "schedules"},
         \A k \in r.refs : Leads(p, k) \/ <<r.key[1], k[1]>> \notin Enforced
  PROVE  Settled(d, r)
<1>1. ASSUME NEW k \in r.refs, <<r.key[1], k[1]>> \in Enforced
      PROVE  \E s \in d : s.key = k /\ s.owner = r.owner /\ s.live
  BY <1>1 DEF Leads
<1>2. ASSUME NEW s \in d, s.key \in r.refs, s.key[1] = "entities",
             r.key[1] \in {"transactions", "balance_snapshots"}
      PROVE  s.live
  <2>1. <<r.key[1], s.key[1]>> \in Enforced
    BY <1>2 DEF Enforced
  <2> QED
    BY <1>1, <1>2, <2>1 DEF Keyed
<1> QED
  BY <1>1, <1>2 DEF Settled

LEMMA MovementHere ==
  ASSUME CatalogueInv, NEW p \in Profiles, NEW r, r.owner = p,
         r.key[1] \in {"transactions", "balance_snapshots", "schedules"},
         \A k \in r.refs : Leads(p, k) \/ <<r.key[1], k[1]>> \notin Enforced
  PROVE  Settled(db, r)
<1>1. Keyed(db)
  BY DEF CatalogueInv, Good
<1> QED
  BY <1>1, MovementSettled

LEMMA CreateMovementInv ==
  ASSUME CatalogueInv, NEW p \in Profiles, NEW t \in {"transactions", "schedules"},
         NEW refs \in SUBSET Keys, NEW k \in Fresh(t, issued),
         Insert({[Row(k, p) EXCEPT !.refs = refs]}),
         \A f \in refs : Leads(p, f) \/ <<t, f[1]>> \notin Enforced
  PROVE  CatalogueInv'
<1> DEFINE r == [Row(k, p) EXCEPT !.refs = refs]
<1>1. p \in Keys /\ p # Shared
  BY ProfileFacts
<1>2. k \in Keys /\ k[1] = t /\ k \notin KeysOf(db)
  BY FreshRow DEF Tables
<1>3. r \in Rows /\ r.key = k /\ r.owner = p /\ r.refs = refs
  BY <1>1, <1>2, RowFacts DEF Rows
<1>4. Insert({r})
  OBVIOUS
<1> HIDE DEF r
<1>5. Owned(r)
  BY <1>1, <1>2, <1>3 DEF Owned, SharedTables
<1>6. Settled(db, r)
  BY <1>2, <1>3, MovementHere
<1> QED
  BY <1>2, <1>3, <1>4, <1>5, <1>6, InsertOne

LEMMA UpdateTransactionInv ==
  ASSUME CatalogueInv, NEW p \in Profiles, NEW r \in db, NEW refs \in Resolved(p),
         UpdateTransaction(p, r, refs)
  PROVE  CatalogueInv'
<1> DEFINE all == refs \cup {k \in r.refs : k[1] = "balance_snapshots"}
           s == [r EXCEPT !.refs = all, !.loose = FALSE]
<1>1. r \in Rows /\ r.key[1] = "transactions" /\ r.owner \in {p, Shared} /\ Owned(r)
  BY DEF UpdateTransaction, Seen, Of, CatalogueInv, TypeOK, Good
<1>2. r.owner = p
  BY <1>1 DEF Owned, SharedTables
<1>3. refs \subseteq Keys /\ \A k \in refs : Leads(p, k)
  BY ResolvedFacts
<1>4. s \in Rows /\ s.key = r.key /\ s.owner = r.owner /\ s.refs = all
  BY <1>1, <1>3 DEF Rows
<1>5. \A k \in all : Leads(p, k) \/ <<"transactions", k[1]>> \notin Enforced
  BY <1>3 DEF Enforced
<1>6. Plain(r) => \A k \in all : k[1] # "balance_snapshots"
  BY <1>3 DEF Plain, Leads
<1>7. Replace(r, s)
  BY DEF UpdateTransaction
<1> HIDE DEF all, s
<1>8. Settled(db, s)
  BY <1>1, <1>2, <1>4, <1>5, MovementHere
<1>9. Plain(r) => Plain(s)
  BY <1>4, <1>6 DEF Plain
<1> QED
  BY <1>1, <1>4, <1>7, <1>8, <1>9, ReplaceInv

LEMMA ScheduleFacts ==
  ASSUME CatalogueInv, NEW p \in Profiles, NEW refs \in ScheduleRefs(p)
  PROVE  /\ refs \subseteq Keys
         /\ \A k \in refs : Leads(p, k) \/ <<"schedules", k[1]>> \notin Enforced
<1>1. PICK e \in AtMostOne(Found(p, "entities")), a \in AtMostOne({<<"portfolio_assets", 1>>}) :
        refs = e \cup a
  BY DEF ScheduleRefs
<1>2. e \subseteq Found(p, "entities") /\ a \subseteq {<<"portfolio_assets", 1>>}
  BY <1>1 DEF AtMostOne
<1>3. \A k \in e : Leads(p, k)
  BY <1>2, LeadsTo
<1>4. <<"portfolio_assets", 1>> \in Keys
  BY CatalogueAssumption DEF Keys, Tables, Ids
<1>5. <<"schedules", <<"portfolio_assets", 1>>[1]>> \notin Enforced
  BY DEF Enforced
<1> QED
  BY <1>1, <1>2, <1>3, <1>4, <1>5 DEF Leads

LEMMA UpdateScheduleInv ==
  ASSUME CatalogueInv, NEW p \in Profiles, NEW r \in db, NEW refs \in ScheduleRefs(p),
         UpdateSchedule(p, r, refs)
  PROVE  CatalogueInv'
<1> DEFINE s == [r EXCEPT !.refs = refs]
<1>1. r \in Rows /\ r.key[1] = "schedules" /\ r.owner \in {p, Shared} /\ Owned(r)
  BY DEF UpdateSchedule, Seen, Of, CatalogueInv, TypeOK, Good
<1>2. r.owner = p
  BY <1>1 DEF Owned, SharedTables
<1>3. s \in Rows /\ s.key = r.key /\ s.owner = r.owner /\ s.refs = refs
  BY <1>1, ScheduleFacts DEF Rows
<1>4. Replace(r, s)
  BY DEF UpdateSchedule
<1> HIDE DEF s
<1>5. Settled(db, s)
  BY <1>1, <1>2, <1>3, ScheduleFacts, MovementHere
<1> QED
  BY <1>1, <1>3, <1>4, <1>5, ReplaceInv

\* A charge of a transaction that is no adjustment, or a loose one.
LEMMA ChargeSettled ==
  ASSUME CatalogueInv, NEW p \in Profiles, NEW c \in Charges, NEW t \in Found(p, "transactions"),
         NEW def \in AtMostOne({<<c[2], 1>>}), NEW r, r.key[1] = c[1], r.owner = p,
         r.refs = {t} \cup def, r.loose = OfAdjustment(t)
  PROVE  Settled(db, r)
<1>1. t[1] = "transactions" /\ \E s \in db : s.key = t /\ s.owner = p
  BY FoundFacts DEF Tables, SharedTables
<1>2. \A k \in def : k[1] \in {"broker_fee_definitions", "tax_definitions"}
  BY DEF AtMostOne, Charges
<1>3. ASSUME ~r.loose, NEW s \in db, s.key \in r.refs, s.key[1] = "transactions"
      PROVE  Plain(s)
  BY <1>1, <1>2, <1>3 DEF OfAdjustment, Plain
<1>4. c[1] \in {"transaction_fees", "transaction_taxes"}
  BY DEF Charges
<1> QED
  BY <1>1, <1>2, <1>3, <1>4 DEF Settled, Enforced

LEMMA ChargeKeys ==
  ASSUME NEW c \in Charges, NEW def \in AtMostOne({<<c[2], 1>>})
  PROVE  def \subseteq Keys /\ c[1] \in Tables
  BY CatalogueAssumption DEF Charges, AtMostOne, Keys, Tables, Ids

LEMMA CreateChargeInv ==
  ASSUME CatalogueInv, NEW p \in Profiles, NEW c \in Charges, NEW t,
         NEW def \in AtMostOne({<<c[2], 1>>}), CreateCharge(p, c, t, def)
  PROVE  CatalogueInv'
<1>1. PICK k \in Fresh(c[1], issued) : Insert({Charge(Row(k, p), t, def)})
  BY DEF CreateCharge
<1> DEFINE r == Charge(Row(k, p), t, def)
<1>2. p \in Keys /\ p # Shared
  BY ProfileFacts
<1>3. t \in Found(p, "transactions") /\ t \in Keys
  BY FoundFacts DEF CreateCharge, Tables
<1>4. k \in Keys /\ k[1] = c[1] /\ k \notin KeysOf(db)
  BY ChargeKeys, FreshRow
<1>5. /\ r \in Rows /\ r.key = k /\ r.owner = p /\ r.refs = {t} \cup def
      /\ r.loose = OfAdjustment(t)
  BY <1>2, <1>3, <1>4, ChargeKeys, RowFacts, ChargeRow
<1>6. Insert({r})
  BY <1>1
<1> HIDE DEF r
<1>7. Settled(db, r)
  BY <1>3, <1>4, <1>5, ChargeSettled
<1>8. Owned(r)
  BY <1>2, <1>4, <1>5 DEF Owned, SharedTables, Charges
<1> QED
  BY <1>4, <1>5, <1>6, <1>7, <1>8, InsertOne

LEMMA UpdateChargeInv ==
  ASSUME CatalogueInv, NEW p \in Profiles, NEW c \in Charges, NEW t, NEW r \in db,
         NEW def \in AtMostOne({<<c[2], 1>>}), UpdateCharge(p, c, r, t, def)
  PROVE  CatalogueInv'
<1> DEFINE s == Charge(r, t, def)
<1>1. r \in Rows /\ r.key[1] = c[1] /\ r.owner \in {p, Shared} /\ Owned(r)
  BY DEF UpdateCharge, Seen, Of, CatalogueInv, TypeOK, Good
<1>2. r.owner = p
  BY <1>1 DEF Owned, SharedTables, Charges
<1>3. t \in Found(p, "transactions") /\ t \in Keys
  BY FoundFacts DEF UpdateCharge, Tables
<1>4. /\ s \in Rows /\ s.key = r.key /\ s.owner = r.owner /\ s.refs = {t} \cup def
      /\ s.loose = OfAdjustment(t)
  BY <1>1, <1>3, ChargeKeys, ChargeRow
<1>5. Replace(r, s)
  BY DEF UpdateCharge
<1> HIDE DEF s
<1>6. Settled(db, s)
  BY <1>1, <1>2, <1>3, <1>4, ChargeSettled
<1>7. r.key[1] \notin {"transactions", "entities"}
  BY <1>1 DEF Charges
<1> QED
  BY <1>4, <1>5, <1>6, <1>7, ReplaceInv

LEMMA CreateTwoInv ==
  ASSUME CatalogueInv, NEW p \in Profiles, NEW refs1 \in Resolved(p), NEW refs2 \in Resolved(p),
         NEW withFee \in BOOLEAN, CreateTwo(p, refs1, refs2, withFee)
  PROVE  CatalogueInv'
<1>0. p \in Keys /\ p # Shared
  BY ProfileFacts
<1>01. PICK k1 \in Fresh("transactions", issued) :
        \E k2 \in Fresh("transactions", issued \cup {k1}) :
        \E f \in Fresh("transaction_fees", issued) :
        Insert({[Row(k1, p) EXCEPT !.refs = refs1], [Row(k2, p) EXCEPT !.refs = refs2]}
               \cup {r \in {[Row(f, p) EXCEPT !.refs = {k1}]} : withFee})
  BY DEF CreateTwo
<1>02. PICK k2 \in Fresh("transactions", issued \cup {k1}) :
        \E f \in Fresh("transaction_fees", issued) :
        Insert({[Row(k1, p) EXCEPT !.refs = refs1], [Row(k2, p) EXCEPT !.refs = refs2]}
               \cup {r \in {[Row(f, p) EXCEPT !.refs = {k1}]} : withFee})
  BY <1>01
<1>1. PICK f \in Fresh("transaction_fees", issued) :
        Insert({[Row(k1, p) EXCEPT !.refs = refs1], [Row(k2, p) EXCEPT !.refs = refs2]}
               \cup {r \in {[Row(f, p) EXCEPT !.refs = {k1}]} : withFee})
  BY <1>02
<1> DEFINE r1 == [Row(k1, p) EXCEPT !.refs = refs1]
           r2 == [Row(k2, p) EXCEPT !.refs = refs2]
           r3 == [Row(f, p) EXCEPT !.refs = {k1}]
           rows == {r1, r2} \cup {r \in {r3} : withFee}
<1>2. Insert(rows)
  BY <1>1
<1>3. /\ k1 \in Keys /\ k1[1] = "transactions" /\ k1 \notin KeysOf(db)
      /\ k2 \in Keys /\ k2[1] = "transactions" /\ k2 \notin KeysOf(db) /\ k2 # k1
      /\ f \in Keys /\ f[1] = "transaction_fees" /\ f \notin KeysOf(db)
  <2>1. KeysOf(db) \subseteq issued
    BY DEF CatalogueInv, TypeOK
  <2> QED
    BY <2>1, FreshFacts DEF Tables
<1>4. /\ refs1 \in SUBSET Keys /\ refs2 \in SUBSET Keys
      /\ \A k \in refs1 \cup refs2 : Leads(p, k)
  BY ResolvedFacts
<1>5. r1 \in Rows /\ r1.key = k1 /\ r1.owner = p /\ r1.refs = refs1
  BY <1>0, <1>3, <1>4, RowFacts DEF Rows
<1>6. r2 \in Rows /\ r2.key = k2 /\ r2.owner = p /\ r2.refs = refs2
  BY <1>0, <1>3, <1>4, RowFacts DEF Rows
<1>7. r3 \in Rows /\ r3.key = f /\ r3.owner = p /\ r3.refs = {k1}
  <2>1. {k1} \in SUBSET Keys
    BY <1>3
  <2> QED
    BY <1>0, <1>3, <2>1, RowFacts DEF Rows
<1> HIDE DEF r1, r2, r3
<1>8. rows \subseteq {r1, r2, r3} /\ r1 \in rows
  OBVIOUS
<1> HIDE DEF rows
<1>9. rows \in SUBSET Rows /\ Keyed(rows) /\ \A r \in rows : r.key \notin KeysOf(db) /\ Owned(r)
  <2>1. f # k1 /\ f # k2
    BY <1>3
  <2> QED
    BY <1>0, <1>3, <1>5, <1>6, <1>7, <1>8, <2>1 DEF Keyed, Owned, SharedTables
<1>10. ASSUME NEW r \in {r1, r2} PROVE Settled(db \cup rows, r)
  <2>1. Settled(db, r)
    BY <1>3, <1>4, <1>5, <1>6, MovementHere
  <2>2. \A q \in rows, s \in db : q.key # s.key
    BY <1>9 DEF KeysOf
  <2> QED
    BY <2>1, <2>2, MoreSettled
<1>11. Settled(db \cup rows, r3)
  <2>1. Plain(r1)
    BY <1>4, <1>5 DEF Plain, Leads
  <2>2. \A s \in db \cup rows : s.key = k1 => s = r1
    BY <1>3, <1>5, <1>8, <1>9 DEF Keyed, KeysOf
  <2> QED
    BY <1>3, <1>5, <1>7, <1>8, <2>1, <2>2 DEF Settled, Enforced
<1> QED
  BY <1>2, <1>8, <1>9, <1>10, <1>11, InsertInv DEF Insert

LEMMA CreateSnapshotInv ==
  ASSUME CatalogueInv, NEW p \in Profiles, NEW e, CreateSnapshot(p, e) PROVE CatalogueInv'
<1>0. p \in Keys /\ p # Shared
  BY ProfileFacts
<1>1. PICK k \in Fresh("balance_snapshots", issued), a \in Fresh("transactions", issued) :
        Insert({[Row(k, p) EXCEPT !.refs = {e}], [Row(a, p) EXCEPT !.refs = {e, k}]})
  BY DEF CreateSnapshot
<1> DEFINE r1 == [Row(k, p) EXCEPT !.refs = {e}]
           r2 == [Row(a, p) EXCEPT !.refs = {e, k}]
           rows == {r1, r2}
<1>2. Insert(rows)
  BY <1>1
<1>3. /\ k \in Keys /\ k[1] = "balance_snapshots" /\ k \notin KeysOf(db)
      /\ a \in Keys /\ a[1] = "transactions" /\ a \notin KeysOf(db)
  BY FreshRow DEF Tables
<1>4. Leads(p, e) /\ e \in Keys
  BY LeadsTo DEF CreateSnapshot, Leads
<1>5. r1 \in Rows /\ r1.key = k /\ r1.owner = p /\ r1.refs = {e}
  <2>1. {e} \in SUBSET Keys
    BY <1>4
  <2> QED
    BY <1>0, <1>3, <2>1, RowFacts DEF Rows
<1>6. r2 \in Rows /\ r2.key = a /\ r2.owner = p /\ r2.refs = {e, k}
  <2>1. {e, k} \in SUBSET Keys
    BY <1>3, <1>4
  <2> QED
    BY <1>0, <1>3, <2>1, RowFacts DEF Rows
<1> HIDE DEF r1, r2
<1>7. rows \in SUBSET Rows /\ Keyed(rows) /\ \A r \in rows : r.key \notin KeysOf(db) /\ Owned(r)
  BY <1>0, <1>3, <1>5, <1>6 DEF Keyed, Owned, SharedTables
<1>8. ASSUME NEW r \in rows PROVE Settled(db \cup rows, r)
  <2>1. Settled(db, r)
    BY <1>3, <1>4, <1>5, <1>6, MovementHere DEF Enforced
  <2>2. \A q \in rows, s \in db : q.key # s.key
    BY <1>7 DEF KeysOf
  <2> HIDE DEF rows
  <2> QED
    BY <2>1, <2>2, MoreSettled
<1> HIDE DEF rows
<1> QED
  BY <1>2, <1>7, <1>8, InsertInv DEF Insert

\* Whoever refers to an adjustment is loose.
LEMMA AdjustmentFree ==
  ASSUME CatalogueInv, NEW p, NEW e, NEW k, k[1] = "balance_snapshots",
         NEW a \in Adjustments(p, e, k), NEW q \in db, ~q.loose, a.key \in q.refs
  PROVE  <<q.key[1], a.key[1]>> \notin Enforced
<1>1. a \in db /\ a.key[1] = "transactions" /\ ~Plain(a)
  BY DEF Adjustments, Of, Plain
<1>2. q.key[1] \notin {"transaction_fees", "transaction_taxes"}
  BY <1>1 DEF CatalogueInv, Good, Settled
<1> QED
  BY <1>1, <1>2 DEF Enforced

LEMMA DeleteSnapshotInv ==
  ASSUME CatalogueInv, NEW p \in Profiles, NEW r \in db, DeleteSnapshot(p, r)
  PROVE  CatalogueInv'
<1> DEFINE gone == {r} \cup UNION {Adjustments(p, f, r.key) : f \in r.refs}
<1>1. Remove(gone) /\ r.key[1] = "balance_snapshots"
  BY DEF DeleteSnapshot, Seen, Of
<1>2. ASSUME NEW q \in db \ gone, NEW s \in db \cap gone, ~q.loose, s.key \in q.refs
      PROVE  <<q.key[1], s.key[1]>> \notin Enforced
  <2>1. CASE s = r
    BY <1>1, <2>1 DEF Enforced
  <2>2. CASE s # r
    <3>1. PICK f \in r.refs : s \in Adjustments(p, f, r.key)
      BY <2>2
    <3> QED
      BY <1>1, <1>2, <3>1, AdjustmentFree
  <2> QED
    BY <2>1, <2>2
<1> HIDE DEF gone
<1> QED
  BY <1>1, <1>2, RemoveInv

LEMMA UpdateSnapshotInv ==
  ASSUME CatalogueInv, NEW p \in Profiles, NEW r \in db, NEW e, NEW changed \in BOOLEAN,
         UpdateSnapshot(p, r, e, changed)
  PROVE  CatalogueInv'
<1> DEFINE old == UNION {Adjustments(p, f, r.key) : f \in r.refs}
           kept == IF changed THEN db \ old ELSE db
           new(a) == IF changed /\ Adjustments(p, e, r.key) \ old = {}
                     THEN {[Row(a, p) EXCEPT !.refs = {e, r.key}]} ELSE {}
           s == [r EXCEPT !.refs = {e}]
<1>1. p \in Keys /\ p # Shared
  BY ProfileFacts
<1>2. r \in Rows /\ r.key[1] = "balance_snapshots" /\ r.owner \in {p, Shared} /\ Owned(r)
  BY DEF UpdateSnapshot, Seen, Of, CatalogueInv, TypeOK, Good
<1>3. r.owner = p /\ r.key \in Keys
  BY <1>2 DEF Owned, SharedTables, Rows
<1>4. Leads(p, e) /\ e \in Keys
  BY LeadsTo DEF UpdateSnapshot, Leads
<1>5. PICK a \in Fresh("transactions", issued) :
        /\ db' = (kept \ {r}) \cup {s} \cup new(a)
        /\ issued' = issued \cup KeysOf(new(a))
        /\ held' = held
  BY DEF UpdateSnapshot
<1>6. a \in Keys /\ a[1] = "transactions" /\ a \notin KeysOf(db)
  BY FreshRow DEF Tables
<1>7. s \in Rows /\ s.key = r.key /\ s.owner = p /\ s.refs = {e}
  <2>1. {e} \in SUBSET Keys
    BY <1>4
  <2> QED
    BY <1>2, <1>3, <2>1 DEF Rows
<1> DEFINE n == [Row(a, p) EXCEPT !.refs = {e, r.key}]
<1>8. n \in Rows /\ n.key = a /\ n.owner = p /\ n.refs = {e, r.key}
  <2>1. {e, r.key} \in SUBSET Keys
    BY <1>3, <1>4
  <2> QED
    BY <1>1, <1>6, <2>1, RowFacts DEF Rows
<1>9. new(a) \subseteq {n}
  OBVIOUS
<1>10. old \subseteq Of("transactions")
  BY DEF Adjustments
<1> DEFINE rows == new(a)
<1>11. db' = (kept \ {r}) \cup {s} \cup rows /\ issued' = issued \cup KeysOf(rows)
  BY <1>5
<1>12. rows \subseteq {n}
  BY <1>9
<1> HIDE DEF s, n, rows, new
<1>13. Good(kept) /\ r \in kept /\ kept \subseteq db
  <2>1. CASE ~changed
    BY <2>1 DEF CatalogueInv
  <2>2. CASE changed
    <3>1. ASSUME NEW q \in db \ old, NEW t \in db \cap old, ~q.loose, t.key \in q.refs
          PROVE  <<q.key[1], t.key[1]>> \notin Enforced
      <4>1. PICK f \in r.refs : t \in Adjustments(p, f, r.key)
        OBVIOUS
      <4> QED
        BY <1>2, <3>1, <4>1, AdjustmentFree
    <3> HIDE DEF old
    <3>2. Good(db)
      BY DEF CatalogueInv
    <3>3. Good(db \ old)
      BY <3>1, <3>2, DropGood
    <3>4. r \notin old
      BY <1>2, <1>10 DEF Of
    <3> QED
      BY <2>2, <3>3, <3>4
  <2> QED
    BY <2>1, <2>2
<1>14. \A t \in db : t.key[1] \in {"entities", "portfolio_assets", "fiscal_exemptions"}
                      => t \in kept
  BY <1>10 DEF Of
<1> HIDE DEF old, kept
<1>15. Settled(kept, s)
  BY <1>2, <1>4, <1>7, <1>13, <1>14, MovementSettled DEF Good
<1>16. Settled(kept, n)
  <2>1. \A k \in n.refs : Leads(p, k) \/ <<n.key[1], k[1]>> \notin Enforced
    BY <1>2, <1>4, <1>6, <1>8 DEF Enforced
  <2> QED
    BY <1>6, <1>8, <1>13, <1>14, <2>1, MovementSettled DEF Good
<1>17. \A q \in rows, t \in kept : q.key # t.key
  BY <1>6, <1>8, <1>12, <1>13 DEF KeysOf
<1>18. Good(kept \cup rows)
  <2>1. rows \in SUBSET Rows /\ Keyed(rows)
    BY <1>8, <1>12 DEF Keyed
  <2>2. ASSUME NEW q \in rows PROVE Owned(q) /\ Settled(kept \cup rows, q)
    <3>1. q = n
      BY <1>12
    <3>2. Owned(q)
      BY <1>1, <1>6, <1>8, <3>1 DEF Owned, SharedTables
    <3>3. Settled(kept \cup rows, q)
      BY <1>16, <1>17, <3>1, MoreSettled
    <3> QED
      BY <3>2, <3>3
  <2> QED
    BY <1>13, <1>17, <2>1, <2>2, AddGood
<1>19. Settled(kept \cup rows, s)
  BY <1>15, <1>17, MoreSettled
<1>20. Good(((kept \cup rows) \ {r}) \cup {s})
  BY <1>2, <1>3, <1>7, <1>13, <1>18, <1>19, SwapGood
<1>21. db' = ((kept \cup rows) \ {r}) \cup {s}
  <2>1. r \notin rows
    BY <1>13, <1>17
  <2> QED
    BY <1>11, <2>1
<1>22. Good(db')
  BY <1>20, <1>21
<1>23. KeysOf(db') \subseteq issued' /\ issued' \subseteq Keys
  <2>1. KeysOf(db) \subseteq issued /\ issued \subseteq Keys
    BY DEF CatalogueInv, TypeOK
  <2>2. KeysOf(rows) \subseteq Keys
    BY <1>6, <1>8, <1>12 DEF KeysOf
  <2> QED
    BY <1>7, <1>11, <1>13, <2>1, <2>2 DEF KeysOf
<1> QED
  BY <1>5, <1>22, <1>23 DEF CatalogueInv, TypeOK, Good, Keyed

LEMMA MovementsInv == ASSUME CatalogueInv, NEW p \in Profiles, MovementsNext(p) PROVE CatalogueInv'
<1>1. ASSUME NEW refs \in Resolved(p), CreateTransaction(p, refs) PROVE CatalogueInv'
  <2>1. PICK k \in Fresh("transactions", issued) : Insert({[Row(k, p) EXCEPT !.refs = refs]})
    BY <1>1 DEF CreateTransaction
  <2>2. refs \in SUBSET Keys /\ \A f \in refs : Leads(p, f)
    BY ResolvedFacts
  <2> QED
    BY <2>1, <2>2, CreateMovementInv
<1>2. ASSUME NEW refs \in Resolved(p), NEW r \in db, UpdateTransaction(p, r, refs)
      PROVE  CatalogueInv'
  BY <1>2, UpdateTransactionInv
<1>3. ASSUME NEW refs \in Resolved(p), NEW refs2 \in Resolved(p), NEW withFee \in BOOLEAN,
             CreateTwo(p, refs, refs2, withFee)
      PROVE  CatalogueInv'
  BY <1>3, CreateTwoInv
<1>4. ASSUME NEW c \in Charges, NEW t \in KeysOf(db), NEW def \in AtMostOne({<<c[2], 1>>}),
             CreateCharge(p, c, t, def)
      PROVE  CatalogueInv'
  BY <1>4, CreateChargeInv
<1>5. ASSUME NEW c \in Charges, NEW t \in KeysOf(db), NEW def \in AtMostOne({<<c[2], 1>>}),
             NEW r \in db, UpdateCharge(p, c, r, t, def)
      PROVE  CatalogueInv'
  BY <1>5, UpdateChargeInv
<1>6. ASSUME NEW e \in KeysOf(db), CreateSnapshot(p, e) PROVE CatalogueInv'
  BY <1>6, CreateSnapshotInv
<1>7. ASSUME NEW e \in KeysOf(db), NEW r \in db, NEW changed \in BOOLEAN,
             UpdateSnapshot(p, r, e, changed)
      PROVE  CatalogueInv'
  BY <1>7, UpdateSnapshotInv
<1>8. ASSUME NEW refs \in ScheduleRefs(p), CreateSchedule(p, refs) PROVE CatalogueInv'
  <2>1. PICK k \in Fresh("schedules", issued) : Insert({[Row(k, p) EXCEPT !.refs = refs]})
    BY <1>8 DEF CreateSchedule
  <2> QED
    BY <2>1, ScheduleFacts, CreateMovementInv
<1>9. ASSUME NEW refs \in ScheduleRefs(p), NEW r \in db, UpdateSchedule(p, r, refs)
      PROVE  CatalogueInv'
  BY <1>9, UpdateScheduleInv
<1>10. ASSUME NEW r \in db, DeleteTransaction(p, r) PROVE CatalogueInv'
  BY <1>10, DeleteCountedInv
<1>11. ASSUME NEW r \in db, NEW c \in Charges, DeleteCharge(p, c, r) PROVE CatalogueInv'
  BY <1>11, RemoveLeaf DEF DeleteCharge, Charges, Seen, Of
<1>12. ASSUME NEW r \in db, DeleteSnapshot(p, r) PROVE CatalogueInv'
  BY <1>12, DeleteSnapshotInv
<1>13. ASSUME NEW r \in db, DeleteSchedule(p, r) PROVE CatalogueInv'
  BY <1>13, RemoveLeaf DEF DeleteSchedule, Seen, Of
<1> QED
  BY <1>1, <1>2, <1>3, <1>4, <1>5, <1>6, <1>7, <1>8, <1>9, <1>10, <1>11, <1>12, <1>13
  DEF MovementsNext

-----------------------------------------------------------------------------
(* The threads *)

\* What a thread inserts is loose, in a profile of its own or in none.
LEMMA LooseRow ==
  ASSUME NEW r \in Rows, NEW refs \in SUBSET Keys, NEW s,
         s = [r EXCEPT !.refs = refs, !.loose = TRUE]
  PROVE  s \in Rows /\ s.key = r.key /\ s.owner = r.owner /\ s.loose
  BY DEF Rows

LEMMA InsertLoose ==
  ASSUME CatalogueInv, NEW t \in {"transactions", "prices"}, NEW k \in Fresh(t, issued),
         NEW p \in Keys \cup {Shared}, p = Shared <=> t = "prices", NEW refs \in SUBSET Keys,
         db' = db \cup {[Row(k, p) EXCEPT !.refs = refs, !.loose = TRUE]},
         issued' = issued \cup {k}, held' = {}
  PROVE  CatalogueInv'
<1>1. k \in Keys /\ k[1] = t /\ k \notin KeysOf(db)
  BY FreshRow DEF Tables
<1> DEFINE new == Row(k, p)
           s == [new EXCEPT !.refs = refs, !.loose = TRUE]
<1>2. new \in Rows /\ new.key = k /\ new.owner = p
  BY <1>1, RowFacts
<1>3. db' = db \cup {s}
  OBVIOUS
<1> HIDE DEF new
<1>4. s \in Rows /\ s.key = k /\ s.owner = p /\ s.loose
  BY <1>2, LooseRow
<1> HIDE DEF s
<1>5. Owned(s) /\ Settled(db \cup {s}, s)
  BY <1>1, <1>4 DEF Owned, SharedTables, Settled
<1>6. {s} \in SUBSET Rows /\ Keyed({s}) /\ issued' = issued \cup KeysOf({s})
  BY <1>4 DEF Keyed, KeysOf
<1> QED
  BY <1>1, <1>3, <1>4, <1>5, <1>6, InsertInv

LEMMA JobsInv == ASSUME CatalogueInv, JobsNext PROVE CatalogueInv'
<1>1. ASSUME db' = db, issued' = issued, held' \subseteq db \cup held PROVE CatalogueInv'
  BY <1>1 DEF CatalogueInv, TypeOK, Good, Keyed, KeysOf
<1>2. ASSUME NEW r \in db, ReadSchedule(r) \/ ReadTarget(r) PROVE CatalogueInv'
  BY <1>1, <1>2 DEF ReadSchedule, ReadTarget
<1>3. ASSUME NEW r \in held, NEW k \in Keys, FireSchedule(r, k) PROVE CatalogueInv'
  <2>1. r \in Rows /\ Owned(r) /\ r.key[1] = "schedules"
    BY <1>3 DEF CatalogueInv, TypeOK, FireSchedule
  <2>2. r.owner \in Keys \cup {Shared} /\ r.owner # Shared /\ r.refs \in SUBSET Keys
    BY <2>1 DEF Owned, SharedTables, Rows
  <2> QED
    BY <1>3, <2>2, InsertLoose DEF FireSchedule
<1>4. ASSUME NEW m \in held, NEW k \in Keys, StorePrice(m, k) PROVE CatalogueInv'
  <2>1. {m.key} \in SUBSET Keys
    BY DEF CatalogueInv, TypeOK, Rows
  <2> QED
    BY <1>4, <2>1, InsertLoose DEF StorePrice
<1>5. CASE DropJob
  BY <1>1, <1>5 DEF DropJob
<1> QED
  BY <1>2, <1>3, <1>4, <1>5 DEF JobsNext

-----------------------------------------------------------------------------
LEMMA InitInv == Init => CatalogueInv
<1> SUFFICES ASSUME Init PROVE CatalogueInv
  OBVIOUS
<1> DEFINE new == Row(DefaultProfile, Shared)
           r == [new EXCEPT !.name = "Default"]
<1>1. DefaultProfile \in Keys /\ DefaultProfile[1] = "profiles"
  BY CatalogueAssumption DEF DefaultProfile, Keys, Tables, Ids
<1>2. /\ new \in Rows /\ new.key = DefaultProfile /\ new.owner = Shared /\ new.refs = {}
  BY <1>1, RowFacts
<1>3. db = {r} /\ issued = KeysOf({r}) /\ held = {}
  BY DEF Init, Seeds
<1> HIDE DEF new
<1>4. r \in Rows /\ r.key = DefaultProfile /\ r.owner = Shared /\ r.refs = {}
  BY <1>2, CatalogueAssumption DEF Rows
<1> HIDE DEF r
<1>5. Owned(r) /\ Settled(db, r)
  BY <1>1, <1>4 DEF Owned, SharedTables, Settled
<1> QED
  BY <1>1, <1>3, <1>4, <1>5 DEF CatalogueInv, TypeOK, Good, Keyed, KeysOf

\* After every sequence of requests and jobs the rows are good: typed, keyed,
\* owned as their table says, and every row a request wrote is settled.
THEOREM CatalogueInvariant == Spec => []CatalogueInv
<1>1. ASSUME CatalogueInv, [Next]_vars PROVE CatalogueInv'
  <2>1. CASE UNCHANGED vars
    BY <1>1, <2>1 DEF vars, CatalogueInv, TypeOK, Good, Keyed, KeysOf
  <2>2. CASE SharedNext
    BY <1>1, <2>2, SharedInv
  <2>3. ASSUME NEW p \in Profiles, HoldingsNext(p) PROVE CatalogueInv'
    BY <1>1, <2>3, HoldingsInv
  <2>4. ASSUME NEW p \in Profiles, MovementsNext(p) PROVE CatalogueInv'
    BY <1>1, <2>4, MovementsInv
  <2>5. CASE JobsNext
    BY <1>1, <2>5, JobsInv
  <2> QED
    BY <1>1, <2>1, <2>2, <2>3, <2>4, <2>5 DEF Next
<1> QED
  BY <1>1, InitInv, PTL DEF Spec

\* Rows have their types and their keys are unique and never handed out twice.
THEOREM CatalogueTypes == Spec => []TypeOK
<1>1. CatalogueInv => TypeOK
  BY DEF CatalogueInv
<1> QED
  BY <1>1, CatalogueInvariant, PTL

\* The dependents checks of the deletes and the lookups of the writes keep every
\* enforced reference of a row a request wrote, for any number of rows.
THEOREM ReferencesResolve == Spec => []RefsResolve
<1>1. CatalogueInv => RefsResolve
  BY DEF CatalogueInv, Good, Settled, RefsResolve, Resolves
<1> QED
  BY <1>1, CatalogueInvariant, PTL

\* A soft-deleted entity holds no transaction and no snapshot a request wrote.
THEOREM DeletedEntitiesAreEmpty == Spec => []DeletedIsEmpty
<1>1. CatalogueInv => DeletedIsEmpty
  BY DEF CatalogueInv, Good, Settled, DeletedIsEmpty, Of
<1> QED
  BY <1>1, CatalogueInvariant, PTL

-----------------------------------------------------------------------------
(* Names and periods: what no two rows may share *)

\* The tables a uniqueness check of a service looks through.
Watched == {"profiles", "tax_definitions", "entities", "fiscal_periods"}
Watch(d) == {r \in d : r.key[1] \in Watched}

SameName(r, s) ==
  /\ r.key[1] = s.key[1] /\ r.key[1] # "fiscal_periods"
  /\ r.live /\ s.live /\ r.owner = s.owner /\ r.name = s.name /\ r.type = s.type
ShareDay(r, s) ==
  /\ r.key[1] = "fiscal_periods" /\ s.key[1] = "fiscal_periods" /\ r.owner = s.owner
  /\ \E d \in 1..Forever : r.span[1] <= d /\ d <= r.span[2] /\ s.span[1] <= d /\ d <= s.span[2]
Apart(r, s) == SameName(r, s) \/ ShareDay(r, s) => r = s

\* Only entities are soft-deleted, so that the check of a period sees them all.
Tidy(d) ==
  /\ \A r, s \in Watch(d) : Apart(r, s)
  /\ \A r \in d : r.key[1] = "fiscal_periods" => r.live

TidyInv == Tidy(db)

\* A step that leaves the watched rows alone, drops some of them, or writes one
\* row apart from those that stay.
LEMMA TidyLess == ASSUME NEW d, Tidy(d), NEW e, Watch(e) \subseteq Watch(d) PROVE Tidy(e)
  BY DEF Tidy, Watch, Watched

LEMMA TidyWrite ==
  ASSUME NEW d, Tidy(d), NEW gone, NEW s,
         s.key[1] = "fiscal_periods" => s.live,
         \A q \in Watch(d) \ gone : Apart(q, s)
  PROVE  Tidy((d \ gone) \cup {s})
<1>1. ASSUME NEW q, Apart(q, s) PROVE Apart(s, q)
  BY <1>1 DEF Apart, SameName, ShareDay
<1> QED
  BY <1>1 DEF Tidy, Watch, Apart

\* A span that overlaps no period a profile sees shares no day with one of its
\* periods, also when it ends before it starts.
LEMMA NoOverlap ==
  ASSUME CatalogueInv, Tidy(db), NEW p \in Profiles, NEW s \in Spans, NEW k,
         ~Overlaps(p, s, k),
         NEW r, r.key[1] = "fiscal_periods", r.owner = p, r.span = s,
         NEW q \in db, q.key # k
  PROVE  Apart(q, r)
<1> SUFFICES ASSUME ShareDay(q, r) PROVE FALSE
  BY DEF Apart, SameName
<1>1. q \in Seen(p, "fiscal_periods")
  BY DEF ShareDay, Seen, Of, Tidy
<1>2. q.span \in Spans \cup {NoSpan} /\ q.span[1] \in Int /\ q.span[2] \in Int
  <2>1. q.span \in Spans \cup {NoSpan}
    BY DEF CatalogueInv, TypeOK, Rows
  <2> QED
    BY <2>1, CatalogueAssumption DEF Spans, NoSpan, Forever
<1>3. s[1] \in Int /\ s[2] \in Int
  BY CatalogueAssumption DEF Spans, Forever
<1>4. PICK d \in 1..Forever : q.span[1] <= d /\ d <= q.span[2] /\ s[1] <= d /\ d <= s[2]
  BY DEF ShareDay
<1>5. d \in Int
  BY <1>4
<1>6. s[1] <= q.span[2] /\ q.span[1] <= s[2]
  BY <1>2, <1>3, <1>4, <1>5
<1> QED
  BY <1>1, <1>6 DEF Overlaps

\* The row of a request or a job that is not watched.
LEMMA TidyElsewhere ==
  ASSUME NEW d, Tidy(d), NEW gone, NEW s, s.key[1] \notin Watched
  PROVE  Tidy((d \ gone) \cup {s})
<1>1. Watch((d \ gone) \cup {s}) \subseteq Watch(d)
  BY DEF Watch
<1> QED
  BY <1>1, TidyLess

\* The record a write makes of a row.
LEMMA NameFacts ==
  ASSUME NEW r \in Rows, NEW n
  PROVE  /\ [r EXCEPT !.name = n].key = r.key /\ [r EXCEPT !.name = n].owner = r.owner
         /\ [r EXCEPT !.name = n].live = r.live /\ [r EXCEPT !.name = n].name = n
         /\ [r EXCEPT !.name = n].type = r.type
  BY DEF Rows

LEMMA EntityFacts ==
  ASSUME NEW r \in Rows, NEW n, NEW y
  PROVE  LET s == [r EXCEPT !.name = n, !.type = y]
         IN  /\ s.key = r.key /\ s.owner = r.owner /\ s.live = r.live
             /\ s.name = n /\ s.type = y
BY DEF Rows

LEMMA SpanFacts ==
  ASSUME NEW r \in Rows, NEW s
  PROVE  /\ [r EXCEPT !.span = s].key = r.key /\ [r EXCEPT !.span = s].owner = r.owner
         /\ [r EXCEPT !.span = s].live = r.live /\ [r EXCEPT !.span = s].span = s
  BY DEF Rows

LEMMA RefsFacts ==
  ASSUME NEW r \in Rows, NEW x, NEW l
  PROVE  [r EXCEPT !.refs = x].key = r.key /\ [r EXCEPT !.refs = x, !.loose = l].key = r.key
  BY DEF Rows

LEMMA LiveFacts ==
  ASSUME NEW r \in Rows, NEW l
  PROVE  [r EXCEPT !.live = l].key = r.key /\ [r EXCEPT !.live = l].live = l
  BY DEF Rows

LEMMA TidyInsert ==
  ASSUME CatalogueInv, Tidy(db), NEW t \in Tables \ Watched, NEW k \in Fresh(t, issued),
         NEW p \in Keys \cup {Shared}, NEW refs, Insert({[Row(k, p) EXCEPT !.refs = refs]})
  PROVE  Tidy(db')
<1> DEFINE r == [Row(k, p) EXCEPT !.refs = refs]
<1>1. k \in Keys /\ k[1] = t
  BY FreshRow
<1>2. r.key = k
  BY <1>1, RowFacts, RefsFacts
<1>3. db' = (db \ {}) \cup {r}
  BY DEF Insert
<1> HIDE DEF r
<1>4. r.key[1] \notin Watched
  BY <1>1, <1>2
<1> QED
  BY <1>3, <1>4, TidyElsewhere

LEMMA TidyShared == ASSUME CatalogueInv, Tidy(db), SharedNext PROVE Tidy(db')
<1>1. ASSUME NEW t \in {"profiles", "tax_definitions"}, NEW n \in Names,
             NEW k \in Fresh(t, issued), \A r \in Of(t) : r.name # n,
             Insert({[Row(k, Shared) EXCEPT !.name = n]})
      PROVE  Tidy(db')
  <2> DEFINE r == [Row(k, Shared) EXCEPT !.name = n]
  <2>1. k \in Keys /\ k[1] = t
    BY FreshRow DEF Tables
  <2>2. r.key = k /\ r.name = n
    BY <2>1, RowFacts, NameFacts
  <2>3. db' = (db \ {}) \cup {r}
    BY <1>1 DEF Insert
  <2> HIDE DEF r
  <2>4. \A q \in Watch(db) \ {} : Apart(q, r)
    BY <1>1, <2>1, <2>2 DEF Apart, SameName, ShareDay, Watch, Of
  <2>5. r.key[1] # "fiscal_periods"
    BY <2>1, <2>2
  <2> QED
    BY <2>3, <2>4, <2>5, TidyWrite
<1>2. ASSUME NEW t \in {"profiles", "tax_definitions"}, NEW n \in Names, NEW r \in Of(t),
             n = r.name \/ \A s \in Of(t) : s.name = n => s.key = r.key,
             Replace(r, [r EXCEPT !.name = n])
      PROVE  Tidy(db')
  <2> DEFINE s == [r EXCEPT !.name = n]
  <2>1. r \in db /\ r \in Rows /\ r.key[1] = t
    BY DEF Of, CatalogueInv, TypeOK
  <2>2. /\ s.key = r.key /\ s.name = n /\ s.live = r.live /\ s.owner = r.owner
        /\ s.type = r.type
    BY <2>1, NameFacts
  <2>3. db' = (db \ {r}) \cup {s}
    BY <1>2 DEF Replace
  <2> HIDE DEF s
  <2>4. ASSUME NEW q \in Watch(db) \ {r}, SameName(q, s) PROVE FALSE
    <3>1. q \in db /\ q \in Of(t) /\ r \in Watch(db)
      BY <2>1, <2>2, <2>4 DEF Watch, Of, SameName, Watched
    <3>2. CASE n = r.name
      <4>1. SameName(q, r)
        BY <2>2, <2>4, <3>2 DEF SameName
      <4> QED
        BY <2>4, <3>1, <4>1 DEF Tidy, Apart
    <3>3. CASE \A u \in Of(t) : u.name = n => u.key = r.key
      <4>1. q.key = r.key
        BY <2>2, <2>4, <3>1, <3>3 DEF SameName
      <4> QED
        BY <2>1, <2>4, <3>1, <4>1 DEF CatalogueInv, TypeOK
    <3> QED
      BY <1>2, <3>2, <3>3
  <2>5. s.key[1] # "fiscal_periods"
    BY <2>1, <2>2
  <2>6. \A q \in Watch(db) \ {r} : Apart(q, s)
    BY <2>4, <2>5 DEF Apart, ShareDay
  <2> QED
    BY <2>3, <2>5, <2>6, TidyWrite
<1>3. ASSUME NEW n \in Names, CreateProfile(n) PROVE Tidy(db')
  BY <1>1, <1>3 DEF CreateProfile
<1>4. ASSUME NEW n \in Names, CreateTaxDefinition(n) PROVE Tidy(db')
  BY <1>1, <1>4 DEF CreateTaxDefinition
<1>5. ASSUME NEW r \in db, NEW n \in Names, RenameProfile(r, n) PROVE Tidy(db')
  BY <1>2, <1>5 DEF RenameProfile
<1>6. ASSUME NEW r \in db, NEW n \in Names, UpdateTaxDefinition(r, n) PROVE Tidy(db')
  BY <1>2, <1>6 DEF UpdateTaxDefinition
<1>7. ASSUME NEW r \in db, DeleteProfile(r) \/ DeleteTaxDefinition(r) \/ DeleteFeeDefinition(r)
      PROVE  Tidy(db')
  <2>1. db' \subseteq db
    BY <1>7 DEF DeleteProfile, DeleteTaxDefinition, DeleteFeeDefinition, Remove
  <2> QED
    BY <2>1, TidyLess DEF Watch
<1>8. CASE CreateFeeDefinition
  <2>1. PICK k \in Fresh("broker_fee_definitions", issued) : Insert({Row(k, Shared)})
    BY <1>8 DEF CreateFeeDefinition
  <2>2. Row(k, Shared).key[1] \notin Watched
    BY FreshRow, RowFacts DEF Tables, Watched
  <2>3. db' = (db \ {}) \cup {Row(k, Shared)}
    BY <2>1 DEF Insert
  <2> QED
    BY <2>2, <2>3, TidyElsewhere
<1>9. ASSUME NEW c \in Codes, CreateMarketAsset(c) PROVE Tidy(db')
  <2>1. <<"market_assets", c>> \in Keys
    BY DEF Keys
  <2>2. Row(<<"market_assets", c>>, Shared).key[1] \notin Watched
    BY <2>1, RowFacts DEF Watched
  <2>3. db' = (db \ {}) \cup {Row(<<"market_assets", c>>, Shared)}
    BY <1>9 DEF CreateMarketAsset, Insert
  <2> QED
    BY <2>2, <2>3, TidyElsewhere
<1> QED
  BY <1>3, <1>4, <1>5, <1>6, <1>7, <1>8, <1>9 DEF SharedNext

LEMMA TidyHoldings ==
  ASSUME CatalogueInv, Tidy(db), NEW p \in Profiles, HoldingsNext(p) PROVE Tidy(db')
<1>0. p \in Keys /\ p # Shared
  BY ProfileFacts
<1>1. ASSUME NEW n \in Names, NEW y \in EntityTypes, CreateEntity(p, n, y) PROVE Tidy(db')
  <2>1. PICK k \in Fresh("entities", issued) : Insert({[Row(k, p) EXCEPT !.name = n, !.type = y]})
    BY <1>1 DEF CreateEntity
  <2> DEFINE r == [Row(k, p) EXCEPT !.name = n, !.type = y]
  <2>2. k \in Keys /\ k[1] = "entities"
    BY FreshRow DEF Tables
  <2>3. r.key = k /\ r.name = n /\ r.type = y /\ r.owner = p
    BY <1>0, <2>2, RowFacts, EntityFacts
  <2>4. db' = (db \ {}) \cup {r}
    BY <2>1 DEF Insert
  <2> HIDE DEF r
  <2>5. \A q \in Watch(db) \ {} : Apart(q, r)
    BY <1>1, <2>2, <2>3 DEF CreateEntity, EntityExists, Seen, Of, Apart, SameName, ShareDay, Watch
  <2>6. r.key[1] # "fiscal_periods"
    BY <2>2, <2>3
  <2> QED
    BY <2>4, <2>5, <2>6, TidyWrite
<1>2. ASSUME NEW e \in db, NEW n \in Names, NEW y \in EntityTypes, UpdateEntity(p, e, n, y)
      PROVE  Tidy(db')
  <2> DEFINE s == [e EXCEPT !.name = n, !.type = y]
  <2>1. e \in Rows /\ e.key[1] = "entities" /\ e.live /\ e.owner \in {p, Shared}
    BY <1>2 DEF UpdateEntity, Seen, Of, CatalogueInv, TypeOK
  <2>2. /\ s.key = e.key /\ s.name = n /\ s.type = y /\ s.live = e.live
        /\ s.owner = e.owner
    BY <2>1 DEF Rows
  <2>3. db' = (db \ {e}) \cup {s}
    BY <1>2 DEF UpdateEntity, Replace
  <2> HIDE DEF s
  <2>4. ASSUME NEW q \in Watch(db) \ {e}, SameName(q, s) PROVE FALSE
    <3>1. q \in Seen(p, "entities") /\ q.name = n /\ q.type = y
      BY <2>1, <2>2, <2>4 DEF SameName, Watch, Seen, Of
    <3>2. n = e.name /\ y = e.type
      BY <1>2, <3>1 DEF UpdateEntity, RenamesEntity, EntityExists
    <3>3. e \in Watch(db) /\ SameName(q, e)
      BY <2>1, <2>2, <2>4, <3>2 DEF SameName, Watch, Watched
    <3> QED
      BY <2>4, <3>3 DEF Tidy, Apart
  <2>5. s.key[1] # "fiscal_periods"
    BY <2>1, <2>2
  <2>6. \A q \in Watch(db) \ {e} : Apart(q, s)
    BY <2>4, <2>5 DEF Apart, ShareDay
  <2> QED
    BY <2>3, <2>5, <2>6, TidyWrite
<1>3. ASSUME NEW s \in Spans, CreatePeriod(p, s) PROVE Tidy(db')
  <2>1. PICK k \in Fresh("fiscal_periods", issued) :
          ~Overlaps(p, s, k) /\ Insert({[Row(k, p) EXCEPT !.span = s]})
    BY <1>3 DEF CreatePeriod
  <2> DEFINE r == [Row(k, p) EXCEPT !.span = s]
  <2>2. k \in Keys /\ k[1] = "fiscal_periods" /\ k \notin KeysOf(db)
    BY FreshRow DEF Tables
  <2>3. r.key = k /\ r.span = s /\ r.owner = p /\ r.live
    BY <1>0, <2>2, RowFacts, SpanFacts
  <2>4. db' = (db \ {}) \cup {r}
    BY <2>1 DEF Insert
  <2> HIDE DEF r
  <2>5. \A q \in Watch(db) \ {} : Apart(q, r)
    <3>1. \A q \in db : q.key # k
      BY <2>2 DEF KeysOf
    <3> QED
      BY <2>1, <2>2, <2>3, <3>1, NoOverlap DEF Watch
  <2> QED
    BY <2>3, <2>4, <2>5, TidyWrite
<1>4. ASSUME NEW s \in Spans, NEW r \in db, UpdatePeriod(p, r, s) PROVE Tidy(db')
  <2> DEFINE u == [r EXCEPT !.span = s]
  <2>1. r \in Rows /\ r.key[1] = "fiscal_periods" /\ r.live /\ r.owner \in {p, Shared} /\ Owned(r)
    BY <1>4 DEF UpdatePeriod, Seen, Of, CatalogueInv, TypeOK, Good
  <2>2. r.owner = p
    BY <2>1 DEF Owned, SharedTables
  <2>3. u.key = r.key /\ u.span = s /\ u.live = r.live /\ u.owner = r.owner
    BY <2>1, SpanFacts
  <2>4. db' = (db \ {r}) \cup {u}
    BY <1>4 DEF UpdatePeriod, Replace
  <2> HIDE DEF u
  <2>5. ~Overlaps(p, s, r.key)
    BY <1>4 DEF UpdatePeriod
  <2>6. \A q \in Watch(db) \ {r} : Apart(q, u)
    <3>1. \A q \in Watch(db) \ {r} : q \in db /\ q.key # r.key
      BY DEF Watch, CatalogueInv, TypeOK
    <3> QED
      BY <2>1, <2>2, <2>3, <2>5, <3>1, NoOverlap
  <2> QED
    BY <2>1, <2>3, <2>4, <2>6, TidyWrite
<1>5. ASSUME NEW e \in db, DeleteEntity(p, e) PROVE Tidy(db')
  <2> DEFINE s == [e EXCEPT !.live = FALSE]
  <2>1. e \in Rows /\ e.key[1] = "entities"
    BY <1>5 DEF DeleteEntity, Seen, Of, CatalogueInv, TypeOK
  <2>2. s.key = e.key /\ ~s.live
    BY <2>1, LiveFacts
  <2>3. db' = (db \ {e}) \cup {s}
    BY <1>5 DEF DeleteEntity, Replace
  <2> HIDE DEF s
  <2>4. \A q \in Watch(db) \ {e} : Apart(q, s)
    BY <2>1, <2>2 DEF Apart, SameName, ShareDay
  <2>5. s.key[1] # "fiscal_periods"
    BY <2>1, <2>2
  <2> QED
    BY <2>3, <2>4, <2>5, TidyWrite
<1>6. ASSUME NEW m \in KeysOf(db), CreatePrice(p, m) \/ CreatePortfolioAsset(p, m)
      PROVE  Tidy(db')
  <2>1. CASE CreatePrice(p, m)
    BY <1>0, <2>1, TidyInsert DEF CreatePrice, Tables, Watched
  <2>2. CASE CreatePortfolioAsset(p, m)
    BY <1>0, <2>2, TidyInsert DEF CreatePortfolioAsset, Tables, Watched
  <2> QED
    BY <1>6, <2>1, <2>2
<1>7. ASSUME NEW m \in KeysOf(db), NEW r \in db, UpdatePrice(p, r, m) PROVE Tidy(db')
  <2> DEFINE s == [r EXCEPT !.refs = {m}, !.loose = FALSE]
  <2>1. r \in Rows /\ r.key[1] = "prices" /\ db' = (db \ {r}) \cup {s}
    BY <1>7 DEF UpdatePrice, Replace, Seen, Of, CatalogueInv, TypeOK
  <2>2. s.key = r.key
    BY <2>1, RefsFacts
  <2> HIDE DEF s
  <2>3. s.key[1] \notin Watched
    BY <2>1, <2>2 DEF Watched
  <2> QED
    BY <2>1, <2>3, TidyElsewhere
<1>8. ASSUME NEW m \in KeysOf(db), NEW r \in db, UpdatePortfolioAsset(p, r, m) PROVE Tidy(db')
  <2> DEFINE s == [r EXCEPT !.refs = {m}]
  <2>1. r \in Rows /\ r.key[1] = "portfolio_assets" /\ db' = (db \ {r}) \cup {s}
    BY <1>8 DEF UpdatePortfolioAsset, Replace, Seen, Of, CatalogueInv, TypeOK
  <2>2. s.key = r.key
    BY <2>1, RefsFacts
  <2> HIDE DEF s
  <2>3. s.key[1] \notin Watched
    BY <2>1, <2>2 DEF Watched
  <2> QED
    BY <2>1, <2>3, TidyElsewhere
<1>9. CASE CreateExemption(p)
  <2>1. PICK k \in Fresh("fiscal_exemptions", issued) : Insert({Row(k, p)})
    BY <1>9 DEF CreateExemption
  <2>2. Row(k, p).key[1] \notin Watched
    BY <1>0, FreshRow, RowFacts DEF Tables, Watched
  <2>3. db' = (db \ {}) \cup {Row(k, p)}
    BY <2>1 DEF Insert
  <2> QED
    BY <2>2, <2>3, TidyElsewhere
<1>10. ASSUME NEW r \in db,
              \/ DeleteMarketAsset(p, r) \/ DeletePrice(p, r) \/ DeletePortfolioAsset(p, r)
              \/ DeleteExemption(p, r) \/ DeletePeriod(p, r)
       PROVE  Tidy(db')
  <2>1. db' \subseteq db
    BY <1>10 DEF DeleteMarketAsset, DeletePrice, DeletePortfolioAsset, DeleteExemption,
                DeletePeriod, Remove
  <2> QED
    BY <2>1, TidyLess DEF Watch
<1> QED
  BY <1>1, <1>2, <1>3, <1>4, <1>5, <1>6, <1>7, <1>8, <1>9, <1>10 DEF HoldingsNext

\* Movements and jobs write no watched row.
LEMMA TidyUnwatched ==
  ASSUME NEW d, Tidy(d), NEW e, \A r \in e : r \in d \/ r.key[1] \notin Watched
  PROVE  Tidy(e)
<1>1. Watch(e) \subseteq Watch(d)
  BY DEF Watch
<1> QED
  BY <1>1, TidyLess

LEMMA ChargeKey ==
  ASSUME NEW r \in Rows, NEW t, NEW def PROVE Charge(r, t, def).key = r.key
  BY DEF Charge, Rows

LEMMA TidyMovements ==
  ASSUME CatalogueInv, Tidy(db), NEW p \in Profiles, MovementsNext(p) PROVE Tidy(db')
<1>0. p \in Keys
  BY ProfileFacts
<1>1. ASSUME NEW t \in Tables, NEW used, NEW k \in Fresh(t, used), NEW refs
      PROVE  [Row(k, p) EXCEPT !.refs = refs].key[1] = t
  BY <1>0, <1>1, FreshFacts, RowFacts, RefsFacts
<1>2. ASSUME NEW t \in Tables, NEW r \in Seen(p, t) PROVE r \in db /\ r \in Rows /\ r.key[1] = t
  BY <1>2 DEF Seen, Of, CatalogueInv, TypeOK
<1>3. ASSUME NEW refs, CreateTransaction(p, refs) PROVE Tidy(db')
  BY <1>0, <1>3, TidyInsert DEF CreateTransaction, Tables, Watched
<1>4. ASSUME NEW refs, NEW r \in db, UpdateTransaction(p, r, refs) PROVE Tidy(db')
  <2> DEFINE s == [r EXCEPT !.refs = refs \cup {k \in r.refs : k[1] = "balance_snapshots"},
                            !.loose = FALSE]
  <2>1. r \in Rows /\ r.key[1] = "transactions" /\ db' = (db \ {r}) \cup {s}
    BY <1>2, <1>4 DEF UpdateTransaction, Replace, Tables
  <2>2. s.key = r.key
    <3>1. r \in Rows
      BY <2>1
    <3> QED
      BY <3>1, RefsFacts, Zenon
  <2> HIDE DEF s
  <2>3. s.key[1] \notin Watched
    BY <2>1, <2>2 DEF Watched
  <2> QED
    BY <2>1, <2>3, TidyElsewhere
<1>5. ASSUME NEW refs, NEW refs2, NEW withFee \in BOOLEAN, CreateTwo(p, refs, refs2, withFee)
      PROVE  Tidy(db')
  <2>1. PICK k1 \in Fresh("transactions", issued) :
        \E k2 \in Fresh("transactions", issued \cup {k1}) :
        \E f \in Fresh("transaction_fees", issued) :
          Insert({[Row(k1, p) EXCEPT !.refs = refs], [Row(k2, p) EXCEPT !.refs = refs2]}
                 \cup {r \in {[Row(f, p) EXCEPT !.refs = {k1}]} : withFee})
    BY <1>5 DEF CreateTwo
  <2>2. PICK k2 \in Fresh("transactions", issued \cup {k1}),
             f \in Fresh("transaction_fees", issued) :
          Insert({[Row(k1, p) EXCEPT !.refs = refs], [Row(k2, p) EXCEPT !.refs = refs2]}
                 \cup {r \in {[Row(f, p) EXCEPT !.refs = {k1}]} : withFee})
    BY <2>1
  <2> DEFINE r1 == [Row(k1, p) EXCEPT !.refs = refs]
             r2 == [Row(k2, p) EXCEPT !.refs = refs2]
             r3 == [Row(f, p) EXCEPT !.refs = {k1}]
  <2>3. r1.key[1] = "transactions" /\ r2.key[1] = "transactions" /\ r3.key[1] = "transaction_fees"
    BY <1>1 DEF Tables
  <2>4. db' = db \cup ({r1, r2} \cup {r \in {r3} : withFee})
    BY <2>2 DEF Insert
  <2> HIDE DEF r1, r2, r3
  <2> QED
    BY <2>3, <2>4, TidyUnwatched DEF Watched
<1>6. ASSUME NEW c \in Charges, NEW t, NEW def, CreateCharge(p, c, t, def) PROVE Tidy(db')
  <2>1. PICK k \in Fresh(c[1], issued) : Insert({Charge(Row(k, p), t, def)})
    BY <1>6 DEF CreateCharge
  <2> DEFINE s == Charge(Row(k, p), t, def)
  <2>2. c[1] \in Tables \ Watched
    BY <1>6 DEF Charges, Tables, Watched
  <2>3. s.key[1] = c[1]
    BY <1>0, <2>1, <2>2, FreshRow, RowFacts, ChargeKey
  <2>4. db' = (db \ {}) \cup {s}
    BY <2>1 DEF Insert
  <2> HIDE DEF s
  <2>5. s.key[1] \notin Watched
    BY <2>2, <2>3
  <2> QED
    BY <2>4, <2>5, TidyElsewhere
<1>7. ASSUME NEW c \in Charges, NEW r \in db, NEW t, NEW def, UpdateCharge(p, c, r, t, def)
      PROVE  Tidy(db')
  <2>1. c[1] \in Tables \ Watched
    BY <1>7 DEF Charges, Tables, Watched
  <2> DEFINE s == Charge(r, t, def)
  <2>2. r \in Rows /\ r.key[1] = c[1] /\ db' = (db \ {r}) \cup {s}
    BY <1>2, <1>7, <2>1 DEF UpdateCharge, Replace
  <2>3. s.key = r.key
    BY <2>2, ChargeKey
  <2> HIDE DEF s
  <2>4. s.key[1] \notin Watched
    BY <2>1, <2>2, <2>3
  <2> QED
    BY <2>2, <2>4, TidyElsewhere
<1>8. ASSUME NEW e, CreateSnapshot(p, e) PROVE Tidy(db')
  <2>1. PICK k \in Fresh("balance_snapshots", issued), a \in Fresh("transactions", issued) :
          Insert({[Row(k, p) EXCEPT !.refs = {e}], [Row(a, p) EXCEPT !.refs = {e, k}]})
    BY <1>8 DEF CreateSnapshot
  <2> DEFINE r1 == [Row(k, p) EXCEPT !.refs = {e}]
             r2 == [Row(a, p) EXCEPT !.refs = {e, k}]
  <2>2. r1.key[1] = "balance_snapshots" /\ r2.key[1] = "transactions"
    BY <1>1 DEF Tables
  <2>3. db' = db \cup {r1, r2}
    BY <2>1 DEF Insert
  <2> HIDE DEF r1, r2
  <2> QED
    BY <2>2, <2>3, TidyUnwatched DEF Watched
<1>9. ASSUME NEW r \in db, NEW e, NEW changed \in BOOLEAN, UpdateSnapshot(p, r, e, changed)
      PROVE  Tidy(db')
  <2> DEFINE old == UNION {Adjustments(p, f, r.key) : f \in r.refs}
             kept == IF changed THEN db \ old ELSE db
             new(a) == IF changed /\ Adjustments(p, e, r.key) \ old = {}
                       THEN {[Row(a, p) EXCEPT !.refs = {e, r.key}]} ELSE {}
             s == [r EXCEPT !.refs = {e}]
  <2>1. PICK a \in Fresh("transactions", issued) : db' = (kept \ {r}) \cup {s} \cup new(a)
    BY <1>9 DEF UpdateSnapshot
  <2>2. r \in Rows /\ r.key[1] = "balance_snapshots"
    BY <1>2, <1>9 DEF UpdateSnapshot, Tables
  <2>3. s.key = r.key
    BY <2>2, RefsFacts
  <2>4. kept \subseteq db
    OBVIOUS
  <2>5. \A q \in new(a) : q.key[1] = "transactions"
    <3>1. [Row(a, p) EXCEPT !.refs = {e, r.key}].key[1] = "transactions"
      BY <1>1 DEF Tables
    <3> HIDE DEF old
    <3> QED
      BY <3>1
  <2> HIDE DEF kept, new, s
  <2> QED
    BY <2>1, <2>2, <2>3, <2>4, <2>5, TidyUnwatched DEF Watched
<1>10. ASSUME NEW refs, CreateSchedule(p, refs) PROVE Tidy(db')
  BY <1>0, <1>10, TidyInsert DEF CreateSchedule, Tables, Watched
<1>11. ASSUME NEW refs, NEW r \in db, UpdateSchedule(p, r, refs) PROVE Tidy(db')
  <2> DEFINE s == [r EXCEPT !.refs = refs]
  <2>1. r \in Rows /\ r.key[1] = "schedules" /\ db' = (db \ {r}) \cup {s}
    BY <1>2, <1>11 DEF UpdateSchedule, Replace, Tables
  <2>2. s.key = r.key
    BY <2>1, RefsFacts
  <2> HIDE DEF s
  <2>3. s.key[1] \notin Watched
    BY <2>1, <2>2 DEF Watched
  <2> QED
    BY <2>1, <2>3, TidyElsewhere
<1>12. ASSUME NEW r \in db,
              \/ DeleteTransaction(p, r) \/ \E c \in Charges : DeleteCharge(p, c, r)
              \/ DeleteSnapshot(p, r) \/ DeleteSchedule(p, r)
       PROVE  Tidy(db')
  <2>1. db' \subseteq db
    BY <1>12 DEF DeleteTransaction, DeleteCharge, DeleteSnapshot, DeleteSchedule, Remove
  <2> QED
    BY <2>1, TidyUnwatched
<1> QED
  BY <1>3, <1>4, <1>5, <1>6, <1>7, <1>8, <1>9, <1>10, <1>11, <1>12 DEF MovementsNext

LEMMA TidyJobs == ASSUME CatalogueInv, Tidy(db), JobsNext PROVE Tidy(db')
<1>1. ASSUME db' = db PROVE Tidy(db')
  BY <1>1
<1>2. ASSUME NEW t \in Tables \ Watched, NEW k \in Fresh(t, issued),
             NEW p \in Keys \cup {Shared}, NEW refs,
             db' = db \cup {[Row(k, p) EXCEPT !.refs = refs, !.loose = TRUE]}
      PROVE  Tidy(db')
  <2> DEFINE s == [Row(k, p) EXCEPT !.refs = refs, !.loose = TRUE]
  <2>1. s.key[1] = t
    BY <1>2, FreshFacts, RowFacts, RefsFacts
  <2>2. db' = (db \ {}) \cup {s}
    BY <1>2
  <2> HIDE DEF s
  <2>3. s.key[1] \notin Watched
    BY <1>2, <2>1
  <2> QED
    BY <2>2, <2>3, TidyElsewhere
<1>3. ASSUME NEW r \in held, NEW k, FireSchedule(r, k) PROVE Tidy(db')
  <2>1. r.owner \in Keys \cup {Shared}
    BY <1>3 DEF CatalogueInv, TypeOK, Rows
  <2> QED
    BY <1>2, <1>3, <2>1 DEF FireSchedule, Tables, Watched
<1>4. ASSUME NEW m \in held, NEW k, StorePrice(m, k) PROVE Tidy(db')
  BY <1>2, <1>4 DEF StorePrice, Tables, Watched
<1> QED
  BY <1>1, <1>3, <1>4 DEF JobsNext, ReadSchedule, ReadTarget, DropJob

\* After every sequence of requests and jobs no two rows share a name or a day
\* that the uniqueness check of their service is there to keep apart.
THEOREM TidyInvariant == Spec => []TidyInv
<1>1. Init => TidyInv
  <2> SUFFICES ASSUME Init PROVE Tidy(db)
    BY DEF TidyInv
  <2>1. PICK r : db = {r} /\ r.key[1] # "fiscal_periods"
    <3> DEFINE new == Row(DefaultProfile, Shared)
               r == [new EXCEPT !.name = "Default"]
    <3>1. DefaultProfile \in Keys /\ DefaultProfile[1] = "profiles"
      BY CatalogueAssumption DEF DefaultProfile, Keys, Tables, Ids
    <3>2. r.key = DefaultProfile
      BY <3>1, RowFacts, NameFacts
    <3>3. db = {r}
      BY DEF Init, Seeds
    <3> HIDE DEF r
    <3> QED
      BY <3>1, <3>2, <3>3
  <2> QED
    BY <2>1 DEF Tidy, Watch, Apart
<1>2. ASSUME CatalogueInv, Tidy(db), [Next]_vars PROVE Tidy(db')
  <2>1. CASE UNCHANGED vars
    BY <1>2, <2>1 DEF vars
  <2>2. CASE SharedNext
    BY <1>2, <2>2, TidyShared
  <2>3. ASSUME NEW p \in Profiles, HoldingsNext(p) PROVE Tidy(db')
    BY <1>2, <2>3, TidyHoldings
  <2>4. ASSUME NEW p \in Profiles, MovementsNext(p) PROVE Tidy(db')
    BY <1>2, <2>4, TidyMovements
  <2>5. CASE JobsNext
    BY <1>2, <2>5, TidyJobs
  <2> QED
    BY <1>2, <2>1, <2>2, <2>3, <2>4, <2>5 DEF Next
<1>3. CatalogueInv /\ TidyInv /\ [Next]_vars => TidyInv'
  BY <1>2 DEF TidyInv
<1> QED
  BY <1>1, <1>3, CatalogueInvariant, PTL DEF Spec

\* The names of profiles and of tax definitions stay distinct, and the name and
\* type of the live entities of a profile together, whatever is renamed, retyped,
\* deleted or created again.
THEOREM NamesStayDistinct == Spec => []NamesDistinct
<1>1. TidyInv => NamesDistinct
  BY DEF TidyInv, Tidy, Watch, Watched, Apart, SameName, NamesDistinct, Of
<1> QED
  BY <1>1, TidyInvariant, PTL

\* Two periods of a profile never share a day, for any number of days.
THEOREM PeriodsStayDisjoint == Spec => []PeriodsDisjoint
<1>1. TidyInv => PeriodsDisjoint
  BY DEF TidyInv, Tidy, Watch, Watched, Apart, ShareDay, PeriodsDisjoint, Of
<1> QED
  BY <1>1, TidyInvariant, PTL

=============================================================================
