---------------------------- MODULE ConsoleProofs ----------------------------
(***************************************************************************)
(* The owners' side, for every number of slugs, creators, owners, requests *)
(* and faults.  ConfigInv says what a transaction may rely on: the row it  *)
(* locked is there, the slug it inserts is free, an id is used once.       *)
(* BrowserInv says where a client that pages, exports or replays stands.   *)
(***************************************************************************)
EXTENDS MCConsole, FiniteSetTheorems, SequenceTheorems, TLAPS

-----------------------------------------------------------------------------
(* The endpoints' rows.                                                    *)

(* An id is used once, and a row has a slug that creation accepts.         *)
RowsAreDistinct ==
    /\ \A s \in Slugs : endpoints[s].id <= lastId
    /\ \A s, t \in Slugs : Exists(s) /\ endpoints[s].id = endpoints[t].id => s = t
    /\ \A s \in Slugs : Exists(s) => s \in Acceptable

(* An open insert has a free slug, which no other inserts.                 *)
InsertsAreFree ==
    /\ \A c \in Creators : creator[c].pc \in {"inserted", "answered"}
         => creator[c].slug \in Acceptable /\ ~Exists(creator[c].slug)
    /\ \A c, d \in Creators :
         (creator[c].pc \in {"inserted", "answered"} /\ creator[d].pc \in {"inserted", "answered"}
            /\ creator[c].slug = creator[d].slug) => c = d

(* A PATCH past its UPDATE holds the row it read.                          *)
WritesAreLocked ==
    \A o \in Owners :
        /\ owner[o].pc # "idle" => owner[o].slug \in Slugs /\ owner[o].row.id # 0
        /\ owner[o].pc \in {"written", "answered"}
             => endpoints[owner[o].slug].id = owner[o].row.id

(* What the scan judged keeps its slug or is gone, and past the commit it  *)
(* is flagged or gone.                                                     *)
ScanKnowsItsRows ==
    /\ scan.pc # "idle" => \A s \in scan.todo \cup scan.done :
         /\ scan.rows[s].id \in 1 .. lastId
         /\ \A t \in Slugs : endpoints[t].id = scan.rows[s].id => t = s
    /\ scan.pc = "committed" => \A s \in scan.done :
         \/ scan.rows[s].id \in flags
         \/ \A t \in Slugs : endpoints[t].id # scan.rows[s].id

ConfigInv ==
    /\ ConfigTypeOK
    /\ RowsAreDistinct
    /\ InsertsAreFree
    /\ WritesAreLocked
    /\ ScanKnowsItsRows
    /\ alerts \subseteq 1 .. lastId
    /\ AlertedWasFlagged

(* The rows and messages of the model have their types.                    *)
LEMMA ConfigRecords ==
    /\ NoSettings \in Settings /\ NoRow \in Row /\ NoRow.id = 0
    /\ IdleOwner \in Owner /\ IdleOwner.pc = "idle"
    /\ IdleScan \in Scan /\ IdleScan.pc = "idle"
    /\ IdleScan.todo = {} /\ IdleScan.done = {}
<1>1. MaxIds \in Nat
  BY ConfigAssumption DEF ConfigAssumption
<1>2. NoSettings \in Settings /\ NoRow \in Row /\ NoRow.id = 0
  BY <1>1 DEF NoSettings, Settings, NoRow, Row, None
<1>3. IdleOwner \in Owner /\ IdleOwner.pc = "idle"
  BY <1>2 DEF IdleOwner, Owner
<1>4. [s \in Slugs |-> NoRow] \in [Slugs -> Row]
  BY <1>2
<1>5. IdleScan \in Scan
  BY <1>4 DEF IdleScan, Scan
<1>6. QED
  BY <1>2, <1>3, <1>5 DEF IdleScan

(* A PATCH leaves settings of the endpoint's sections.                     *)
LEMMA MergedType ==
    ASSUME NEW settings \in Settings, NEW patch \in Patches \cup {NoSettings}
    PROVE  Merged(settings, patch) \in Settings
<1>1. patch \in Settings
  BY ConfigRecords DEF Patches, Settings, None
<1>2. QED
  BY <1>1 DEF Merged, Settings

(* Who asks for a slug that creation accepts asks for one of the slugs.    *)
LEMMA AskedType ==
    ASSUME NEW asked \in Asked
    PROVE  asked.slug \in Slugs /\ (asked.fits => asked.slug \in Acceptable)
<1>1. PICK s \in Slugs, r \in Responses :
        asked = [slug |-> s, fits |-> s \in Acceptable /\ AcceptResponse(r)]
  BY DEF Asked
<1>2. asked.slug = s /\ (asked.fits <=> s \in Acceptable /\ AcceptResponse(r))
  BY <1>1, Zenon
<1>3. QED
  BY <1>2

(* The invariant holds of the empty table.                                 *)
LEMMA InitConfig == ConfigInit => ConfigInv
<1> SUFFICES ASSUME ConfigInit PROVE ConfigInv
  OBVIOUS
<1>1. /\ MinSuspiciousPosts \in Nat /\ MaxIds \in Nat /\ MaxChanges \in Nat
      /\ MaxConfigFaults \in Nat
  BY ConfigAssumption DEF ConfigAssumption
<1>2. ConfigTypeOK
  <2>1. creator \in [Creators -> Creator]
    BY DEF ConfigInit, Creator
  <2>2. traffic \in [Slugs -> [posts : 0 .. MinSuspiciousPosts, succeeded : BOOLEAN]]
    BY <1>1 DEF ConfigInit, NoTraffic
  <2>3. QED
    BY <1>1, <2>1, <2>2, ConfigRecords DEF ConfigInit, ConfigTypeOK
<1>3. \A s \in Slugs : endpoints[s].id = 0
  BY ConfigRecords DEF ConfigInit
<1>4. \A c \in Creators : creator[c].pc = "new"
  BY DEF ConfigInit
<1>5. \A o \in Owners : owner[o].pc = "idle"
  BY ConfigRecords DEF ConfigInit
<1>6. scan.pc = "idle" /\ alerts = {} /\ lastId = 0
  BY ConfigRecords DEF ConfigInit
<1>7. QED
  BY <1>2, <1>3, <1>4, <1>5, <1>6
     DEF ConfigInv, RowsAreDistinct, InsertsAreFree, WritesAreLocked, ScanKnowsItsRows,
         AlertedWasFlagged, Exists

(* What the requests of one creator or owner write, the tables apart.      *)
TablesStay == UNCHANGED <<endpoints, scan, flags, alerts, lastId>>

(* A creator that inserts, is answered or gives up.                        *)
LEMMA CreatorKeepsInv ==
    ASSUME ConfigInv, NEW c \in Creators,
           TablesStay, UNCHANGED <<owner, traffic, changes, configFaults>>,
           NEW made \in Creator, creator' = [creator EXCEPT ![c] = made],
           \/ made.pc \notin {"inserted", "answered"}
           \/ creator[c].pc \in {"inserted", "answered"} /\ made.slug = creator[c].slug
           \/ made.slug \in Acceptable /\ ~Exists(made.slug) /\ ~Inserting(made.slug)
    PROVE  ConfigInv'
<1> USE DEF TablesStay
<1>1. /\ creator \in [Creators -> Creator] /\ creator'[c] = made
      /\ \A d \in Creators \ {c} : creator'[d] = creator[d]
      /\ creator' \in [Creators -> Creator]
  BY DEF ConfigInv, ConfigTypeOK
<1>2. ConfigTypeOK'
  BY <1>1 DEF ConfigInv, ConfigTypeOK
<1>3. \A s : Exists(s)' = Exists(s)
  BY DEF Exists
<1>4. InsertsAreFree'
  <2>1. \A d \in Creators : creator'[d].pc \in {"inserted", "answered"}
          => creator'[d].slug \in Acceptable /\ ~Exists(creator'[d].slug)
    BY <1>1 DEF ConfigInv, InsertsAreFree
  <2>2. ASSUME NEW d \in Creators \ {c}, creator'[d].pc \in {"inserted", "answered"},
               made.pc \in {"inserted", "answered"}
        PROVE  creator'[d].slug # made.slug
    BY <1>1, <2>2 DEF ConfigInv, InsertsAreFree, Inserting
  <2>3. QED
    BY <1>1, <1>3, <2>1, <2>2 DEF ConfigInv, InsertsAreFree
<1>5. RowsAreDistinct' /\ WritesAreLocked' /\ ScanKnowsItsRows' /\ AlertedWasFlagged'
  BY <1>3 DEF ConfigInv, RowsAreDistinct, WritesAreLocked, ScanKnowsItsRows, AlertedWasFlagged
<1>6. QED
  BY <1>2, <1>4, <1>5 DEF ConfigInv

(* POST /api/endpoints, up to the commit.                                  *)
LEMMA CreatingKeepsInv ==
    ASSUME ConfigInv, NEW c \in Creators,
           \/ \E asked \in Asked : InsertEndpoint(c, asked)
           \/ AnswerCreated(c)
    PROVE  ConfigInv'
<1>1. creator[c] \in Creator
  BY DEF ConfigInv, ConfigTypeOK
<1>2. CASE AnswerCreated(c)
  <2>1. PICK made : made = [creator[c] EXCEPT !.pc = "answered", !.told = 201]
    OBVIOUS
  <2>2. made \in Creator /\ made.slug = creator[c].slug
    BY <1>1, <2>1 DEF Creator
  <2>3. /\ creator' = [creator EXCEPT ![c] = made] /\ creator[c].pc = "inserted"
        /\ TablesStay /\ UNCHANGED <<owner, traffic, changes, configFaults>>
    BY <1>2, <2>1 DEF AnswerCreated, TablesStay
  <2>4. QED
    BY <2>2, <2>3, CreatorKeepsInv
<1>3. ASSUME NEW asked \in Asked, InsertEndpoint(c, asked)
      PROVE  ConfigInv'
  <2>1. ASSUME NEW told \in {400, 409}, CreationOver(c, told)
        PROVE  ConfigInv'
    <3>0. [pc |-> "over", slug |-> NoSlug, told |-> told] \in Creator
      BY DEF Creator
    <3>1. PICK made \in Creator : made = [pc |-> "over", slug |-> NoSlug, told |-> told]
      BY <3>0
    <3>2. made.pc = "over" /\ creator' = [creator EXCEPT ![c] = made]
      BY <2>1, <3>1 DEF CreationOver
    <3>3. TablesStay /\ UNCHANGED <<owner, traffic, changes, configFaults>>
      BY <1>3 DEF InsertEndpoint, TablesStay
    <3>4. QED
      BY <3>2, <3>3, CreatorKeepsInv
  <2>2. ASSUME asked.fits, ~Inserting(asked.slug), ~Exists(asked.slug),
               creator' = [creator EXCEPT ![c] =
                             [pc |-> "inserted", slug |-> asked.slug, told |-> 0]]
        PROVE  ConfigInv'
    <3>1. /\ [pc |-> "inserted", slug |-> asked.slug, told |-> 0] \in Creator
          /\ asked.slug \in Acceptable
      BY <2>2, AskedType DEF Creator
    <3>2. QED
      BY <1>3, <2>2, <3>1, CreatorKeepsInv DEF InsertEndpoint, TablesStay
  <2>3. QED
    BY <1>3, <2>1, <2>2 DEF InsertEndpoint
<1>4. QED
  BY <1>2, <1>3

(* The commit of a new row, under an id of its own.                        *)
LEMMA CommitCreatedKeepsInv ==
    ASSUME ConfigInv, NEW c \in Creators, CommitCreated(c)
    PROVE  ConfigInv'
<1>1. PICK slug \in Slugs : /\ slug = creator[c].slug /\ slug \in Acceptable /\ ~Exists(slug)
                            /\ \A d \in Creators \ {c} :
                                 creator[d].pc \in {"inserted", "answered"}
                                    => creator[d].slug # slug
  BY DEF ConfigInv, InsertsAreFree, CommitCreated, Acceptable
<1>2. PICK id : id = lastId + 1
  OBVIOUS
<1>3. /\ lastId \in Nat /\ MaxIds \in Nat /\ id \in 1 .. MaxIds /\ lastId' = id
      /\ lastId < id
  BY <1>2, ConfigAssumption DEF ConfigInv, ConfigTypeOK, CommitCreated, ConfigAssumption
<1>4. PICK row : row = [NoRow EXCEPT !.id = id]
  OBVIOUS
<1>5. row \in Row /\ row.id = id
  <2>1. row = [id |-> id, version |-> 0, flagged |-> FALSE, settings |-> NoSettings]
    BY <1>4 DEF NoRow
  <2>2. id \in 0 .. MaxIds /\ NoSettings \in Settings
    BY <1>3, ConfigRecords
  <2>3. QED
    BY <2>1, <2>2 DEF Row
<1>6. /\ endpoints' \in [Slugs -> Row] /\ endpoints'[slug].id = id
      /\ \A s \in Slugs \ {slug} : endpoints'[s] = endpoints[s]
  BY <1>1, <1>2, <1>4, <1>5 DEF CommitCreated, ConfigInv, ConfigTypeOK
<1>7. /\ creator' \in [Creators -> Creator] /\ creator'[c].pc = "over"
      /\ \A d \in Creators \ {c} : creator'[d] = creator[d]
  BY DEF CommitCreated, CreationOver, ConfigInv, ConfigTypeOK, Creator
<1>8. UNCHANGED <<owner, scan, flags, alerts, changes, configFaults>>
  BY DEF CommitCreated
<1>9. \A s \in Slugs : endpoints[s].id \in Nat /\ endpoints[s].id < id
  BY <1>3 DEF ConfigInv, ConfigTypeOK, RowsAreDistinct, Row
<1>10. ConfigTypeOK'
  <2>1. NoTraffic \in [posts : 0 .. MinSuspiciousPosts, succeeded : BOOLEAN]
    BY ConfigAssumption DEF ConfigAssumption, NoTraffic
  <2>2. traffic' \in [Slugs -> [posts : 0 .. MinSuspiciousPosts, succeeded : BOOLEAN]]
    BY <2>1 DEF CommitCreated, ConfigInv, ConfigTypeOK
  <2>3. QED
    BY <1>3, <1>6, <1>7, <1>8, <2>2 DEF ConfigInv, ConfigTypeOK
<1>11. RowsAreDistinct'
  <2>1. \A s \in Slugs : endpoints'[s].id <= id
    BY <1>3, <1>6, <1>9
  <2>2. \A s, t \in Slugs : endpoints'[s].id # 0 /\ endpoints'[s].id = endpoints'[t].id => s = t
    BY <1>1, <1>3, <1>6, <1>9 DEF ConfigInv, RowsAreDistinct, Exists
  <2>3. \A s \in Slugs : endpoints'[s].id # 0 => s \in Acceptable
    BY <1>1, <1>6 DEF ConfigInv, RowsAreDistinct, Exists
  <2>4. QED
    BY <1>3, <2>1, <2>2, <2>3 DEF RowsAreDistinct, Exists
<1>12. InsertsAreFree'
  <2>1. ASSUME NEW d \in Creators, creator'[d].pc \in {"inserted", "answered"}
        PROVE  /\ d # c /\ creator'[d] = creator[d]
               /\ creator'[d].slug \in Acceptable /\ endpoints'[creator'[d].slug].id = 0
    BY <1>1, <1>6, <1>7, <2>1 DEF ConfigInv, InsertsAreFree, Exists, Acceptable
  <2>2. QED
    BY <2>1 DEF ConfigInv, InsertsAreFree, Exists
<1>13. WritesAreLocked'
  <2>1. ASSUME NEW o \in Owners, owner[o].pc \in {"written", "answered"}
        PROVE  owner[o].slug # slug
    BY <1>1, <2>1 DEF ConfigInv, WritesAreLocked, Exists
  <2>2. QED
    BY <1>6, <1>8, <2>1 DEF ConfigInv, WritesAreLocked
<1>14. ScanKnowsItsRows'
  <2>1. ASSUME scan.pc # "idle", NEW s \in scan.todo \cup scan.done
        PROVE  /\ scan.rows[s].id \in 1 .. id
               /\ \A t \in Slugs : endpoints'[t].id = scan.rows[s].id => t = s
    BY <1>3, <1>6, <2>1 DEF ConfigInv, ScanKnowsItsRows
  <2>2. ASSUME scan.pc = "committed", NEW s \in scan.done
        PROVE  \/ scan.rows[s].id \in flags
               \/ \A t \in Slugs : endpoints'[t].id # scan.rows[s].id
    <3>1. scan.rows[s].id \in 1 .. lastId
      BY <2>2 DEF ConfigInv, ScanKnowsItsRows
    <3>2. QED
      BY <1>3, <1>6, <2>2, <3>1 DEF ConfigInv, ScanKnowsItsRows
  <2>3. QED
    BY <1>3, <1>8, <2>1, <2>2 DEF ScanKnowsItsRows
<1>15. alerts' \subseteq 1 .. lastId' /\ AlertedWasFlagged'
  <2>1. alerts' = alerts /\ flags' = flags /\ alerts \subseteq 1 .. lastId
    BY <1>8 DEF ConfigInv
  <2>2. ASSUME NEW n \in alerts, n \notin flags, NEW s \in Slugs
        PROVE  endpoints'[s].id # n
    BY <1>3, <1>6, <2>1, <2>2 DEF ConfigInv, AlertedWasFlagged
  <2>3. alerts \subseteq 1 .. lastId'
    BY <1>3, <2>1
  <2>4. QED
    BY <2>1, <2>2, <2>3 DEF AlertedWasFlagged
<1>16. QED
  BY <1>10, <1>11, <1>12, <1>13, <1>14, <1>15 DEF ConfigInv

(* A PATCH that reads, writes, is answered or ends, its row untouched.     *)
LEMMA OwnerKeepsInv ==
    ASSUME ConfigInv, NEW o \in Owners,
           TablesStay, UNCHANGED <<creator, traffic, configFaults>>,
           changes' \in 0 .. MaxChanges,
           NEW made \in Owner, owner' = [owner EXCEPT ![o] = made],
           made.pc # "idle" => made.slug \in Slugs /\ made.row.id # 0,
           made.pc \in {"written", "answered"} => endpoints[made.slug].id = made.row.id
    PROVE  ConfigInv'
<1> USE DEF TablesStay
<1>1. /\ owner \in [Owners -> Owner] /\ owner'[o] = made
      /\ \A p \in Owners \ {o} : owner'[p] = owner[p]
      /\ owner' \in [Owners -> Owner]
  BY DEF ConfigInv, ConfigTypeOK
<1>2. ConfigTypeOK'
  BY <1>1 DEF ConfigInv, ConfigTypeOK
<1>3. WritesAreLocked'
  BY <1>1 DEF ConfigInv, WritesAreLocked
<1>4. RowsAreDistinct' /\ InsertsAreFree' /\ ScanKnowsItsRows' /\ AlertedWasFlagged'
  BY DEF ConfigInv, RowsAreDistinct, InsertsAreFree, ScanKnowsItsRows, AlertedWasFlagged, Exists
<1>5. QED
  BY <1>2, <1>3, <1>4 DEF ConfigInv

(* PATCH .../config, up to the commit.                                     *)
LEMMA ConfiguringKeepsInv ==
    ASSUME ConfigInv, NEW o \in Owners,
           \/ \E s \in Slugs, p \in Patches : ReadConfig(o, s, p)
           \/ WriteConfig(o) \/ AnswerConfig(o)
    PROVE  ConfigInv'
<1>1. owner[o] \in Owner /\ changes \in 0 .. MaxChanges /\ MaxChanges \in Nat
  BY ConfigAssumption DEF ConfigInv, ConfigTypeOK, ConfigAssumption
<1>2. ASSUME NEW told \in {204, 404, 500}
      PROVE  \E made \in Owner : made = [IdleOwner EXCEPT !.told = told] /\ made.pc = "idle"
  <2>1. [IdleOwner EXCEPT !.told = told] \in Owner
    BY ConfigRecords DEF Owner
  <2>2. [IdleOwner EXCEPT !.told = told].pc = "idle"
    BY DEF IdleOwner
  <2>3. QED
    BY <2>1, <2>2
<1>3. ASSUME NEW slug \in Slugs, NEW patch \in Patches, ReadConfig(o, slug, patch)
      PROVE  ConfigInv'
  <2>1. /\ TablesStay /\ UNCHANGED <<creator, traffic, configFaults>>
        /\ changes' \in 0 .. MaxChanges
    BY <1>1, <1>3 DEF ReadConfig, TablesStay
  <2>2. CASE Exists(slug)
    <3>1. PICK row \in Row : row = endpoints[slug] /\ row.id # 0
      BY <2>2 DEF ConfigInv, ConfigTypeOK, Exists
    <3>2. [pc |-> "read", slug |-> slug, patch |-> patch, row |-> row, told |-> 0] \in Owner
      BY DEF Owner
    <3>3. PICK made \in Owner :
            made = [pc |-> "read", slug |-> slug, patch |-> patch, row |-> row, told |-> 0]
      BY <3>2
    <3>4. owner' = [owner EXCEPT ![o] = made]
      BY <1>3, <2>2, <3>1, <3>3 DEF ReadConfig
    <3>5. made.pc = "read" /\ made.slug \in Slugs /\ made.row.id # 0
      BY <3>1, <3>3
    <3>6. QED
      BY <2>1, <3>4, <3>5, OwnerKeepsInv
  <2>3. CASE ~Exists(slug)
    <3>1. PICK made \in Owner : made = [IdleOwner EXCEPT !.told = 404] /\ made.pc = "idle"
      BY <1>2
    <3>2. owner' = [owner EXCEPT ![o] = made]
      BY <1>3, <2>3, <3>1 DEF ReadConfig
    <3>3. QED
      BY <2>1, <3>1, <3>2, OwnerKeepsInv
  <2>4. QED
    BY <2>2, <2>3
<1>4. CASE WriteConfig(o)
  <2>1. /\ TablesStay /\ UNCHANGED <<creator, traffic, configFaults>>
        /\ changes' \in 0 .. MaxChanges /\ owner[o].pc = "read"
        /\ owner[o].slug \in Slugs /\ owner[o].row.id # 0
    BY <1>1, <1>4 DEF WriteConfig, TablesStay, ConfigInv, WritesAreLocked
  <2>2. ASSUME NEW told \in {404, 500},
               owner' = [owner EXCEPT ![o] = [IdleOwner EXCEPT !.told = told]]
        PROVE  ConfigInv'
    <3>1. PICK made \in Owner : made = [IdleOwner EXCEPT !.told = told] /\ made.pc = "idle"
      BY <1>2
    <3>2. owner' = [owner EXCEPT ![o] = made]
      BY <2>2, <3>1
    <3>3. QED
      BY <2>1, <3>1, <3>2, OwnerKeepsInv
  <2>3. ASSUME endpoints[owner[o].slug].id = owner[o].row.id,
               owner' = [owner EXCEPT ![o] = [owner[o] EXCEPT !.pc = "written"]]
        PROVE  ConfigInv'
    <3>1. [owner[o] EXCEPT !.pc = "written"] \in Owner
      BY <1>1 DEF Owner
    <3>2. PICK made \in Owner : made = [owner[o] EXCEPT !.pc = "written"]
      BY <3>1
    <3>3. made.slug = owner[o].slug /\ made.row = owner[o].row
      BY <1>1, <3>2 DEF Owner
    <3>4. owner' = [owner EXCEPT ![o] = made]
      BY <2>3, <3>2
    <3>5. QED
      BY <2>1, <2>3, <3>3, <3>4, OwnerKeepsInv
  <2>4. QED
    BY <1>4, <2>2, <2>3 DEF WriteConfig
<1>5. CASE AnswerConfig(o)
  <2>1. /\ TablesStay /\ UNCHANGED <<creator, traffic, configFaults>>
        /\ changes' \in 0 .. MaxChanges
        /\ owner[o].slug \in Slugs /\ owner[o].row.id # 0
        /\ endpoints[owner[o].slug].id = owner[o].row.id
    BY <1>1, <1>5 DEF AnswerConfig, TablesStay, ConfigInv, WritesAreLocked
  <2>2. [owner[o] EXCEPT !.pc = "answered", !.told = 204] \in Owner
    <3>1. \A x \in Owner : [x EXCEPT !.pc = "answered"] \in Owner
      BY DEF Owner
    <3>2. \A x \in Owner : [x EXCEPT !.told = 204] \in Owner
      BY DEF Owner
    <3>3. QED
      BY <1>1, <3>1, <3>2
  <2>3. PICK made \in Owner : made = [owner[o] EXCEPT !.pc = "answered", !.told = 204]
    BY <2>2
  <2>4. made.slug = owner[o].slug /\ made.row = owner[o].row
    BY <1>1, <2>3 DEF Owner
  <2>5. owner' = [owner EXCEPT ![o] = made]
    BY <1>5, <2>3 DEF AnswerConfig
  <2>6. QED
    BY <2>1, <2>4, <2>5, OwnerKeepsInv
<1>6. QED
  BY <1>3, <1>4, <1>5

(* Rows that keep their ids, or go, take no slug and no id.                *)
LEMMA RowsOnlyGo ==
    ASSUME ConfigInv, UNCHANGED <<creator, lastId>>, flags \subseteq flags',
           \A s \in Slugs : endpoints'[s].id = endpoints[s].id \/ endpoints'[s].id = 0
    PROVE  /\ RowsAreDistinct' /\ InsertsAreFree'
           /\ UNCHANGED scan => ScanKnowsItsRows'
           /\ UNCHANGED alerts => alerts' \subseteq 1 .. lastId' /\ AlertedWasFlagged'
<1>1. /\ lastId \in Nat /\ alerts \subseteq 1 .. lastId
      /\ \A s \in Slugs : endpoints[s].id <= lastId
  BY DEF ConfigInv, ConfigTypeOK, RowsAreDistinct
<1>2. RowsAreDistinct'
  <2>1. \A s \in Slugs : endpoints'[s].id <= lastId
    BY <1>1
  <2>2. \A s, t \in Slugs : endpoints'[s].id # 0 /\ endpoints'[s].id = endpoints'[t].id => s = t
    BY DEF ConfigInv, RowsAreDistinct, Exists
  <2>3. QED
    BY <2>1, <2>2 DEF ConfigInv, RowsAreDistinct, Exists
<1>3. InsertsAreFree'
  <2>1. \A c \in Creators : creator[c].pc \in {"inserted", "answered"}
          => creator[c].slug \in Slugs /\ endpoints'[creator[c].slug].id = 0
    BY DEF ConfigInv, InsertsAreFree, Exists, Acceptable
  <2>2. QED
    BY <2>1 DEF ConfigInv, InsertsAreFree, Exists
<1>4. ASSUME UNCHANGED scan PROVE ScanKnowsItsRows'
  <2>1. ASSUME scan.pc # "idle", NEW s \in scan.todo \cup scan.done
        PROVE  /\ scan.rows[s].id \in 1 .. lastId
               /\ \A t \in Slugs : endpoints'[t].id = scan.rows[s].id => t = s
    BY <1>1, <2>1 DEF ConfigInv, ScanKnowsItsRows
  <2>2. ASSUME scan.pc = "committed", NEW s \in scan.done
        PROVE  \/ scan.rows[s].id \in flags'
               \/ \A t \in Slugs : endpoints'[t].id # scan.rows[s].id
    BY <2>1, <2>2 DEF ConfigInv, ScanKnowsItsRows
  <2>3. QED
    BY <1>4, <2>1, <2>2 DEF ScanKnowsItsRows
<1>5. ASSUME UNCHANGED alerts PROVE alerts' \subseteq 1 .. lastId' /\ AlertedWasFlagged'
  <2>1. ASSUME NEW n \in alerts
        PROVE  n \in flags' \/ \A s \in Slugs : endpoints'[s].id # n
    BY <1>1, <2>1 DEF ConfigInv, AlertedWasFlagged
  <2>2. QED
    BY <1>1, <1>5, <2>1 DEF AlertedWasFlagged
<1>6. QED
  BY <1>2, <1>3, <1>4, <1>5

(* The commit of a PATCH keeps the id of its row.                          *)
LEMMA CommitConfigKeepsInv ==
    ASSUME ConfigInv, NEW o \in Owners, CommitConfig(o)
    PROVE  ConfigInv'
<1>1. PICK slug \in Slugs : slug = owner[o].slug
  BY DEF ConfigInv, WritesAreLocked, CommitConfig
<1>2. PICK row \in Row :
        row = [id |-> endpoints[slug].id, version |-> endpoints[slug].version + 1,
               flagged |-> owner[o].row.flagged,
               settings |-> Merged(owner[o].row.settings, owner[o].patch)]
  <2>1. owner[o] \in Owner /\ endpoints[slug] \in Row
    BY DEF ConfigInv, ConfigTypeOK
  <2>2. owner[o].row \in Row /\ owner[o].patch \in Patches \cup {NoSettings}
    BY <2>1 DEF Owner
  <2>3. Merged(owner[o].row.settings, owner[o].patch) \in Settings
    BY <2>2, MergedType DEF Row
  <2>4. /\ endpoints[slug].id \in 0 .. MaxIds /\ endpoints[slug].version + 1 \in Nat
        /\ owner[o].row.flagged \in BOOLEAN
    BY <2>1, <2>2 DEF Row
  <2>5. [id |-> endpoints[slug].id, version |-> endpoints[slug].version + 1,
         flagged |-> owner[o].row.flagged,
         settings |-> Merged(owner[o].row.settings, owner[o].patch)] \in Row
    BY <2>3, <2>4 DEF Row
  <2>6. QED
    BY <2>5
<1>3. /\ endpoints' \in [Slugs -> Row]
      /\ \A s \in Slugs : endpoints'[s].id = endpoints[s].id
  BY <1>1, <1>2 DEF CommitConfig, ConfigInv, ConfigTypeOK
<1>4. /\ owner' \in [Owners -> Owner] /\ owner'[o].pc = "idle"
      /\ \A p \in Owners \ {o} : owner'[p] = owner[p]
  <2>1. [IdleOwner EXCEPT !.told = 204] \in Owner /\ [IdleOwner EXCEPT !.told = 204].pc = "idle"
    BY ConfigRecords DEF Owner
  <2>2. QED
    BY <2>1 DEF CommitConfig, ConfigInv, ConfigTypeOK
<1>5. UNCHANGED <<creator, scan, traffic, flags, alerts, lastId, changes, configFaults>>
  BY DEF CommitConfig
<1>6. ConfigTypeOK'
  BY <1>3, <1>4, <1>5 DEF ConfigInv, ConfigTypeOK
<1>7. WritesAreLocked'
  BY <1>3, <1>4 DEF ConfigInv, WritesAreLocked
<1>8. QED
  BY <1>3, <1>5, <1>6, <1>7, RowsOnlyGo DEF ConfigInv

(* The scan's steps before its commit: a judgement and its updates.        *)
LEMMA ScanningKeepsInv ==
    ASSUME ConfigInv, StartScan \/ \E s \in Slugs : FlagEndpoint(s)
    PROVE  ConfigInv'
<1>1. /\ UNCHANGED <<endpoints, creator, owner, traffic, flags, alerts, lastId, changes,
                     configFaults>>
  BY DEF StartScan, FlagEndpoint
<1>2. scan \in Scan /\ scan.todo \subseteq Slugs /\ scan.done \subseteq Slugs
  BY DEF ConfigInv, ConfigTypeOK, Scan
<1>3. scan' \in Scan /\ ScanKnowsItsRows'
  <2>1. CASE StartScan
    <3>1. endpoints \in [Slugs -> Row] /\ lastId \in Nat
      BY DEF ConfigInv, ConfigTypeOK
    <3>2. scan' \in Scan
      BY <2>1, <3>1 DEF StartScan, Scan
    <3>3. ASSUME NEW s \in scan'.todo \cup scan'.done
          PROVE  /\ s \in Slugs /\ Exists(s) /\ scan'.rows[s] = endpoints[s]
      BY <2>1, <3>3 DEF StartScan
    <3>4. ASSUME NEW s \in scan'.todo \cup scan'.done
          PROVE  /\ scan'.rows[s].id \in 1 .. lastId
                 /\ \A t \in Slugs : endpoints[t].id = scan'.rows[s].id => t = s
      <4>1. endpoints[s].id \in Nat /\ endpoints[s].id # 0 /\ endpoints[s].id <= lastId
        BY <3>1, <3>3, <3>4 DEF Row, Exists, ConfigInv, RowsAreDistinct
      <4>2. QED
        BY <3>1, <3>3, <3>4, <4>1 DEF ConfigInv, RowsAreDistinct
    <3>5. scan'.pc = "flagging"
      BY <2>1 DEF StartScan
    <3>6. QED
      BY <1>1, <3>2, <3>4, <3>5 DEF ScanKnowsItsRows
  <2>2. ASSUME NEW slug \in Slugs, FlagEndpoint(slug)
        PROVE  scan' \in Scan /\ ScanKnowsItsRows'
    <3>1. /\ scan.pc = "flagging" /\ slug \in scan.todo
          /\ scan' = [scan EXCEPT !.todo = scan.todo \ {slug}, !.done = scan.done \cup {slug}]
      BY <2>2 DEF FlagEndpoint
    <3>2. /\ scan' \in Scan /\ scan'.pc = "flagging" /\ scan'.rows = scan.rows
          /\ scan'.todo \cup scan'.done = scan.todo \cup scan.done
      BY <1>2, <3>1 DEF Scan
    <3>3. QED
      BY <1>1, <3>1, <3>2 DEF ConfigInv, ScanKnowsItsRows
  <2>3. QED
    BY <2>1, <2>2
<1>4. ConfigTypeOK'
  BY <1>1, <1>3 DEF ConfigInv, ConfigTypeOK
<1>5. WritesAreLocked'
  BY <1>1 DEF ConfigInv, WritesAreLocked
<1>6. QED
  BY <1>1, <1>3, <1>4, <1>5, RowsOnlyGo DEF ConfigInv

(* The commit of the scan flags what it judged, where that is still there. *)
LEMMA CommitScanKeepsInv ==
    ASSUME ConfigInv, CommitScan
    PROVE  ConfigInv'
<1>1. /\ UNCHANGED <<creator, owner, traffic, alerts, lastId, changes, configFaults>>
      /\ scan.pc = "flagging" /\ scan.todo = {}
      /\ flags' = flags \cup {endpoints[s].id : s \in Flagged}
  BY DEF CommitScan
<1>2. scan \in Scan /\ scan.done \subseteq Slugs
  BY DEF ConfigInv, ConfigTypeOK, Scan
<1>3. /\ scan' \in Scan /\ scan'.pc = "committed" /\ scan'.rows = scan.rows
      /\ scan'.todo = scan.todo /\ scan'.done = scan.done
  BY <1>2 DEF CommitScan, Scan
<1>4. ASSUME NEW s \in Slugs
      PROVE  endpoints'[s] \in Row /\ endpoints'[s].id = endpoints[s].id
  <2>1. endpoints[s] \in Row
    BY DEF ConfigInv, ConfigTypeOK
  <2>2. CASE s \in Flagged
    <3>1. endpoints'[s] = [endpoints[s] EXCEPT !.flagged = TRUE,
                                               !.version = endpoints[s].version + 1]
      BY <2>2 DEF CommitScan
    <3>2. endpoints'[s] = [id |-> endpoints[s].id, version |-> endpoints[s].version + 1,
                           flagged |-> TRUE, settings |-> endpoints[s].settings]
      BY <2>1, <3>1 DEF Row
    <3>3. /\ endpoints[s].id \in 0 .. MaxIds /\ endpoints[s].version + 1 \in Nat
          /\ endpoints[s].settings \in Settings
      BY <2>1 DEF Row
    <3>4. QED
      BY <3>2, <3>3 DEF Row
  <2>3. CASE s \notin Flagged
    BY <2>1, <2>3 DEF CommitScan
  <2>4. QED
    BY <2>2, <2>3
<1>5. ASSUME NEW s \in scan.done
      PROVE  /\ s \in Slugs /\ scan.rows[s].id \in 1 .. lastId
             /\ \A t \in Slugs : endpoints[t].id = scan.rows[s].id => t = s
  BY <1>1, <1>2 DEF ConfigInv, ScanKnowsItsRows
<1>6. flags' \subseteq 1 .. MaxIds
  <2>1. ASSUME NEW s \in Flagged PROVE endpoints[s].id \in 1 .. MaxIds
    <3>1. s \in scan.done /\ endpoints[s].id = scan.rows[s].id
      BY <2>1 DEF Flagged
    <3>2. lastId \in 0 .. MaxIds /\ MaxIds \in Nat
      BY ConfigAssumption DEF ConfigInv, ConfigTypeOK, ConfigAssumption
    <3>3. QED
      BY <1>5, <3>1, <3>2
  <2>2. QED
    BY <1>1, <2>1 DEF ConfigInv, ConfigTypeOK
<1>7. ConfigTypeOK'
  <2>1. endpoints' \in [Slugs -> Row]
    BY <1>4 DEF CommitScan
  <2>2. QED
    BY <1>1, <1>3, <1>6, <2>1 DEF ConfigInv, ConfigTypeOK
<1>8. WritesAreLocked'
  BY <1>1, <1>4 DEF ConfigInv, WritesAreLocked
<1>9. ScanKnowsItsRows'
  <2>1. ASSUME NEW s \in scan.done
        PROVE  \/ scan.rows[s].id \in flags'
               \/ \A t \in Slugs : endpoints'[t].id # scan.rows[s].id
    BY <1>1, <1>4, <1>5, <2>1 DEF Flagged
  <2>2. QED
    BY <1>1, <1>3, <1>4, <1>5, <2>1 DEF ScanKnowsItsRows
<1>10. QED
  BY <1>1, <1>4, <1>7, <1>8, <1>9, RowsOnlyGo DEF ConfigInv

(* The end of a scan: its alert, or its death.                             *)
LEMMA ScanOverKeepsInv ==
    ASSUME ConfigInv, PostAlert \/ ScanLost
    PROVE  ConfigInv'
<1>1. /\ UNCHANGED <<endpoints, creator, owner, traffic, flags, lastId, changes>>
      /\ scan' = IdleScan
  BY DEF PostAlert, ScanLost
<1>2. scan' \in Scan /\ ScanKnowsItsRows'
  BY <1>1, ConfigRecords DEF ScanKnowsItsRows
<1>3. configFaults' \in 0 .. MaxConfigFaults
  BY ConfigAssumption DEF ConfigInv, ConfigTypeOK, ConfigAssumption, PostAlert, ScanLost, ConfigFault
<1>4. /\ lastId \in 0 .. MaxIds /\ MaxIds \in Nat /\ alerts \subseteq 1 .. lastId
  BY ConfigAssumption DEF ConfigInv, ConfigTypeOK, ConfigAssumption
<1>5. alerts' \subseteq 1 .. lastId /\ AlertedWasFlagged'
  <2>1. CASE ScanLost
    BY <1>1, <2>1 DEF ScanLost, ConfigInv, AlertedWasFlagged
  <2>2. CASE PostAlert
    <3>1. /\ alerts' = alerts \cup {scan.rows[s].id : s \in scan.done}
          /\ scan.pc = "committed"
      BY <2>2 DEF PostAlert
    <3>2. ASSUME NEW s \in scan.done
          PROVE  /\ scan.rows[s].id \in 1 .. lastId
                 /\ \/ scan.rows[s].id \in flags
                    \/ \A t \in Slugs : endpoints[t].id # scan.rows[s].id
      BY <3>1, <3>2 DEF ConfigInv, ScanKnowsItsRows
    <3>3. QED
      BY <1>1, <3>1, <3>2 DEF ConfigInv, AlertedWasFlagged
  <2>3. QED
    BY <2>1, <2>2
<1>6. ConfigTypeOK'
  BY <1>1, <1>2, <1>3, <1>4, <1>5 DEF ConfigInv, ConfigTypeOK
<1>7. WritesAreLocked'
  BY <1>1 DEF ConfigInv, WritesAreLocked
<1>8. QED
  BY <1>1, <1>2, <1>5, <1>6, <1>7, RowsOnlyGo DEF ConfigInv

(* What is captured and forwarded changes the counts of the scan alone.    *)
LEMMA TrafficKeepsInv ==
    ASSUME ConfigInv, NEW slug \in Slugs, CapturePost(slug) \/ ForwardSucceeds(slug)
    PROVE  ConfigInv'
<1>1. UNCHANGED <<endpoints, creator, owner, scan, flags, alerts, lastId, changes, configFaults>>
  BY DEF CapturePost, ForwardSucceeds
<1>2. traffic' \in [Slugs -> [posts : 0 .. MinSuspiciousPosts, succeeded : BOOLEAN]]
  <2>1. /\ MinSuspiciousPosts \in Nat
        /\ traffic \in [Slugs -> [posts : 0 .. MinSuspiciousPosts, succeeded : BOOLEAN]]
    BY ConfigAssumption DEF ConfigInv, ConfigTypeOK, ConfigAssumption
  <2>2. CASE CapturePost(slug)
    <3>1. traffic' = [traffic EXCEPT ![slug] = [traffic[slug] EXCEPT !.posts = traffic[slug].posts + 1]]
      BY <2>2 DEF CapturePost
    <3>2. traffic[slug].posts + 1 \in 0 .. MinSuspiciousPosts
      BY <2>1, <2>2 DEF CapturePost
    <3>3. QED
      BY <2>1, <3>1, <3>2
  <2>3. CASE ForwardSucceeds(slug)
    <3>1. traffic' = [traffic EXCEPT ![slug] = [traffic[slug] EXCEPT !.succeeded = TRUE]]
      BY <2>3 DEF ForwardSucceeds
    <3>2. QED
      BY <2>1, <3>1
  <2>4. QED
    BY <2>2, <2>3
<1>3. ConfigTypeOK'
  BY <1>1, <1>2 DEF ConfigInv, ConfigTypeOK
<1>4. WritesAreLocked'
  BY <1>1 DEF ConfigInv, WritesAreLocked
<1>5. QED
  BY <1>1, <1>3, <1>4, RowsOnlyGo DEF ConfigInv

(* The cleaner takes a row that no transaction holds.                      *)
LEMMA DeleteExpiredKeepsInv ==
    ASSUME ConfigInv, NEW slug \in Slugs, DeleteExpiredEndpoint(slug)
    PROVE  ConfigInv'
<1>1. /\ UNCHANGED <<creator, owner, scan, traffic, flags, alerts, lastId, changes, configFaults>>
      /\ endpoints' = [endpoints EXCEPT ![slug] = NoRow]
      /\ ~Locked(slug, endpoints[slug].id)
  BY DEF DeleteExpiredEndpoint
<1>2. /\ endpoints' \in [Slugs -> Row] /\ endpoints'[slug].id = 0
      /\ \A s \in Slugs \ {slug} : endpoints'[s] = endpoints[s]
  BY <1>1, ConfigRecords DEF ConfigInv, ConfigTypeOK
<1>3. ConfigTypeOK'
  BY <1>1, <1>2 DEF ConfigInv, ConfigTypeOK
<1>4. WritesAreLocked'
  <2>1. ASSUME NEW o \in Owners, owner[o].pc \in {"written", "answered"}
        PROVE  owner[o].slug # slug
    BY <1>1, <2>1 DEF ConfigInv, WritesAreLocked, Locked
  <2>2. QED
    BY <1>1, <1>2, <2>1 DEF ConfigInv, WritesAreLocked
<1>5. QED
  BY <1>1, <1>2, <1>3, <1>4, RowsOnlyGo DEF ConfigInv

(* Transactions that are lost release what they held.                      *)
LEMMA RequestsLostKeepsInv ==
    ASSUME ConfigInv, RequestsLost
    PROVE  ConfigInv'
<1>1. UNCHANGED <<endpoints, scan, traffic, flags, alerts, lastId, changes>>
  BY DEF RequestsLost
<1>2. /\ owner' \in [Owners -> Owner] /\ \A o \in Owners : owner'[o].pc = "idle"
  BY ConfigRecords DEF RequestsLost
<1>3. /\ creator' \in [Creators -> Creator]
      /\ \A c \in Creators : creator'[c].pc \notin {"inserted", "answered"}
  <2>1. ASSUME NEW c \in Creators
        PROVE  creator'[c] \in Creator /\ creator'[c].pc \notin {"inserted", "answered"}
    <3>1. creator[c] \in Creator
      BY DEF ConfigInv, ConfigTypeOK
    <3>2. /\ \A x \in Creator : [x EXCEPT !.pc = "over"] \in Creator
          /\ \A x \in Creator : [x EXCEPT !.slug = NoSlug] \in Creator
      BY DEF Creator
    <3>3. [creator[c] EXCEPT !.pc = "over", !.slug = NoSlug] \in Creator
      BY <3>1, <3>2
    <3>4. CASE creator[c].pc \in {"inserted", "answered"}
      <4>1. creator'[c] = [creator[c] EXCEPT !.pc = "over", !.slug = NoSlug]
        BY <3>4 DEF RequestsLost
      <4>2. \A x \in Creator : [[x EXCEPT !.pc = "over"] EXCEPT !.slug = NoSlug].pc = "over"
        BY DEF Creator
      <4>3. QED
        BY <3>1, <3>3, <4>1, <4>2
    <3>5. CASE creator[c].pc \notin {"inserted", "answered"}
      BY <3>1, <3>5 DEF RequestsLost
    <3>6. QED
      BY <3>4, <3>5
  <2>2. QED
    BY <2>1 DEF RequestsLost
<1>4. configFaults' \in 0 .. MaxConfigFaults
  <2>1. MaxConfigFaults \in Nat /\ configFaults \in 0 .. MaxConfigFaults
    BY ConfigAssumption DEF ConfigInv, ConfigTypeOK, ConfigAssumption
  <2>2. ConfigFault
    BY DEF RequestsLost
  <2>3. QED
    BY <2>1, <2>2 DEF ConfigFault
<1>5. ConfigTypeOK'
  BY <1>1, <1>2, <1>3, <1>4 DEF ConfigInv, ConfigTypeOK
<1>6. InsertsAreFree' /\ WritesAreLocked'
  BY <1>2, <1>3 DEF InsertsAreFree, WritesAreLocked
<1>7. RowsAreDistinct' /\ ScanKnowsItsRows' /\ AlertedWasFlagged'
  BY <1>1 DEF ConfigInv, RowsAreDistinct, ScanKnowsItsRows, AlertedWasFlagged, Exists
<1>8. QED
  BY <1>1, <1>5, <1>6, <1>7 DEF ConfigInv

(* Every step of the owners' configuration keeps its invariant.            *)
LEMMA ConfigNextKeepsInv == ConfigInv /\ [ConfigNext]_configVars => ConfigInv'
<1> SUFFICES ASSUME ConfigInv, [ConfigNext]_configVars PROVE ConfigInv'
  OBVIOUS
<1>1. CASE ConfigNext
  BY <1>1, CreatingKeepsInv, CommitCreatedKeepsInv, ConfiguringKeepsInv, CommitConfigKeepsInv,
     ScanningKeepsInv, CommitScanKeepsInv, ScanOverKeepsInv, TrafficKeepsInv,
     DeleteExpiredKeepsInv, RequestsLostKeepsInv DEF ConfigNext
<1>2. CASE UNCHANGED configVars
  BY <1>2 DEF configVars, ConfigInv, ConfigTypeOK, RowsAreDistinct, InsertsAreFree,
              WritesAreLocked, ScanKnowsItsRows, AlertedWasFlagged, Exists
<1>3. QED
  BY <1>1, <1>2

(* What one step may do to a slug: only the cleaner empties it.            *)
LEMMA StepTakesNoSlug ==
    ASSUME ConfigInv, ConfigNext, NEW s \in Slugs, Exists(s),
           endpoints'[s].id # endpoints[s].id
    PROVE  endpoints'[s] = NoRow
<1>1. endpoints \in [Slugs -> Row]
  BY DEF ConfigInv, ConfigTypeOK
<1>2. ASSUME NEW c \in Creators PROVE ~CommitCreated(c)
  <2>1. SUFFICES ASSUME CommitCreated(c) PROVE FALSE
    OBVIOUS
  <2>2. creator[c].slug # s
    BY <2>1 DEF CommitCreated, ConfigInv, InsertsAreFree
  <2>3. endpoints'[s] = endpoints[s]
    BY <1>1, <2>1, <2>2 DEF CommitCreated
  <2>4. QED
    BY <2>3
<1>3. ASSUME NEW o \in Owners PROVE ~CommitConfig(o)
  BY <1>1 DEF CommitConfig
<1>4. ~CommitScan
  <2>1. SUFFICES ASSUME CommitScan PROVE FALSE
    OBVIOUS
  <2>2. endpoints'[s] = endpoints[s]
        \/ endpoints'[s] = [endpoints[s] EXCEPT !.flagged = TRUE,
                                                !.version = endpoints[s].version + 1]
    BY <2>1 DEF CommitScan
  <2>3. \A r \in Row : [[r EXCEPT !.flagged = TRUE] EXCEPT !.version = r.version + 1].id = r.id
    BY DEF Row
  <2>4. QED
    BY <1>1, <2>2, <2>3
<1>5. ASSUME endpoints' # endpoints
      PROVE  \E slug \in Slugs : DeleteExpiredEndpoint(slug)
  <2>1. \A c \in Creators : \A asked \in Asked : ~InsertEndpoint(c, asked)
    BY <1>5 DEF InsertEndpoint
  <2>2. \A c \in Creators : ~AnswerCreated(c)
    BY <1>5 DEF AnswerCreated
  <2>3. \A o \in Owners : /\ \A slug \in Slugs, p \in Patches : ~ReadConfig(o, slug, p)
                          /\ ~WriteConfig(o) /\ ~AnswerConfig(o)
    BY <1>5 DEF ReadConfig, WriteConfig, AnswerConfig
  <2>4. \A slug \in Slugs : ~FlagEndpoint(slug) /\ ~CapturePost(slug) /\ ~ForwardSucceeds(slug)
    BY <1>5 DEF FlagEndpoint, CapturePost, ForwardSucceeds
  <2>5. ~StartScan /\ ~PostAlert /\ ~RequestsLost /\ ~ScanLost
    BY <1>5 DEF StartScan, PostAlert, RequestsLost, ScanLost
  <2>6. QED
    BY <1>2, <1>3, <1>4, <2>1, <2>2, <2>3, <2>4, <2>5 DEF ConfigNext
<1>6. PICK slug \in Slugs : DeleteExpiredEndpoint(slug)
  BY <1>5
<1>7. QED
  BY <1>1, <1>6 DEF DeleteExpiredEndpoint

(* A PATCH that commits over the row it read keeps what it does not name.  *)
LEMMA CommitKeepsSettings ==
    ASSUME ConfigInv, NEW o \in Owners, CommitConfig(o),
           owner[o].row = endpoints[owner[o].slug]
    PROVE  LET slug == owner[o].slug
               patch == owner[o].patch
           IN /\ endpoints'[slug].flagged = endpoints[slug].flagged
              /\ patch.signature = None =>
                   endpoints'[slug].settings.signature = endpoints[slug].settings.signature
              /\ patch.forward = None =>
                   [endpoints'[slug].settings EXCEPT !.signature = None]
                     = [endpoints[slug].settings EXCEPT !.signature = None]
              /\ endpoints[slug].settings.forward_secret # None =>
                   endpoints'[slug].settings.forward_secret # None
<1>1. PICK slug \in Slugs : slug = owner[o].slug
  BY DEF ConfigInv, WritesAreLocked, CommitConfig
<1>2. PICK row \in Row : row = endpoints[slug] /\ row = owner[o].row
  BY <1>1 DEF ConfigInv, ConfigTypeOK
<1>3. PICK patch \in Patches \cup {NoSettings} : patch = owner[o].patch
  BY DEF ConfigInv, ConfigTypeOK, Owner
<1>4. endpoints'[slug] = [id |-> row.id, version |-> row.version + 1, flagged |-> row.flagged,
                          settings |-> Merged(row.settings, patch)]
  BY <1>1, <1>2, <1>3 DEF CommitConfig, ConfigInv, ConfigTypeOK
<1>5. PICK settings \in Settings : settings = row.settings
  BY <1>2 DEF Row
<1>6. PICK merged \in Settings : merged = Merged(settings, patch)
  BY MergedType
<1>7. /\ patch.signature = None => merged.signature = settings.signature
      /\ patch.forward = None => /\ merged.forward = settings.forward
                                 /\ merged.forward_headers = settings.forward_headers
                                 /\ merged.forward_secret = settings.forward_secret
      /\ settings.forward_secret # None => merged.forward_secret # None
  BY <1>6 DEF Merged
<1>8. patch.forward = None =>
        [merged EXCEPT !.signature = None] = [settings EXCEPT !.signature = None]
  BY <1>7 DEF Settings
<1>9. endpoints'[slug].flagged = row.flagged /\ endpoints'[slug].settings = merged
  BY <1>4, <1>5, <1>6
<1>10. QED
  BY <1>1, <1>2, <1>3, <1>5, <1>7, <1>8, <1>9

(* Only a PATCH that commits ends one and changes the table.               *)
LEMMA EndingCommits ==
    ASSUME ConfigInv, ConfigNext, NEW o \in Owners, owner[o].pc = "answered",
           owner'[o].pc = "idle", endpoints' # endpoints
    PROVE  CommitConfig(o)
<1>1. owner \in [Owners -> Owner] /\ owner' # owner
  BY DEF ConfigInv, ConfigTypeOK
<1>2. \A c \in Creators : /\ \A asked \in Asked : ~InsertEndpoint(c, asked)
                          /\ ~AnswerCreated(c) /\ ~CommitCreated(c)
  BY <1>1 DEF InsertEndpoint, AnswerCreated, CommitCreated
<1>3. \A p \in Owners : /\ \A slug \in Slugs, patch \in Patches : ~ReadConfig(p, slug, patch)
                        /\ ~WriteConfig(p) /\ ~AnswerConfig(p)
  BY DEF ReadConfig, WriteConfig, AnswerConfig
<1>4. \A slug \in Slugs : /\ ~FlagEndpoint(slug) /\ ~CapturePost(slug) /\ ~ForwardSucceeds(slug)
                          /\ ~DeleteExpiredEndpoint(slug)
  BY <1>1 DEF FlagEndpoint, CapturePost, ForwardSucceeds, DeleteExpiredEndpoint
<1>5. ~StartScan /\ ~CommitScan /\ ~PostAlert /\ ~RequestsLost /\ ~ScanLost
  BY <1>1 DEF StartScan, CommitScan, PostAlert, RequestsLost, ScanLost
<1>6. PICK p \in Owners : CommitConfig(p)
  BY <1>2, <1>3, <1>4, <1>5 DEF ConfigNext
<1>7. p = o
  BY <1>1, <1>6 DEF CommitConfig
<1>8. QED
  BY <1>6, <1>7

-----------------------------------------------------------------------------
(* Pages: what ORDER BY received_at DESC, id DESC ... LIMIT returns.       *)

(* Requests are in a strict order, by arrival and then by id.              *)
LEMMA BeforeIsAnOrder ==
    ASSUME requests \in [Ids -> Request]
    PROVE  /\ \A i \in Ids : ~Before(i, i)
           /\ \A i, j \in Ids : i = j \/ Before(i, j) \/ Before(j, i)
           /\ \A i, j, k \in Ids : Before(i, j) /\ Before(j, k) => Before(i, k)
<1>1. \A i \in Ids : i \in Int /\ requests[i].received_at \in Int
  BY DEF Ids, Request
<1>2. QED
  BY <1>1 DEF Before

(* The requests are finitely many, as are those of a statement.            *)
LEMMA IdsAreFinite ==
    ASSUME NEW ids \in SUBSET Ids
    PROVE  IsFiniteSet(ids) /\ Cardinality(ids) \in Nat
<1>1. IsFiniteSet(Ids)
  BY BrowserAssumption, FS_Interval DEF BrowserAssumption, Ids
<1>2. QED
  BY <1>1, FS_Subset, FS_CardinalityType

Newer(ids, i) == {j \in ids : Before(i, j)}

(* The number of its newer ones tells each row of a statement apart, and   *)
(* leaves no number out.                                                   *)
LEMMA NewerCounts ==
    ASSUME requests \in [Ids -> Request], NEW ids \in SUBSET Ids
    PROVE  /\ \A i \in ids : Cardinality(Newer(ids, i)) \in 0 .. (Cardinality(ids) - 1)
           /\ \A i, j \in ids : Before(i, j)
                => Cardinality(Newer(ids, j)) < Cardinality(Newer(ids, i))
           /\ \A n \in 0 .. (Cardinality(ids) - 1) :
                \E i \in ids : Cardinality(Newer(ids, i)) = n
<1>1. IsFiniteSet(ids) /\ Cardinality(ids) \in Nat
  BY IdsAreFinite
<1>2. ASSUME NEW i \in ids
      PROVE  /\ IsFiniteSet(Newer(ids, i)) /\ Cardinality(Newer(ids, i)) \in Nat
             /\ Cardinality(Newer(ids, i)) < Cardinality(ids)
  <2>1. Newer(ids, i) \in SUBSET ids /\ i \notin Newer(ids, i)
    BY BeforeIsAnOrder DEF Newer
  <2>2. /\ IsFiniteSet(Newer(ids, i)) /\ Cardinality(Newer(ids, i)) <= Cardinality(ids)
        /\ Cardinality(ids) = Cardinality(Newer(ids, i)) => ids = Newer(ids, i)
    BY <1>1, <2>1, FS_Subset
  <2>3. Cardinality(Newer(ids, i)) \in Nat
    BY <2>2, FS_CardinalityType
  <2>4. QED
    BY <1>1, <2>1, <2>2, <2>3
<1>3. ASSUME NEW i \in ids, NEW j \in ids, Before(i, j)
      PROVE  Cardinality(Newer(ids, j)) < Cardinality(Newer(ids, i))
  <2>1. Newer(ids, j) \in SUBSET Newer(ids, i)
    BY <1>3, BeforeIsAnOrder DEF Newer
  <2>2. j \in Newer(ids, i) /\ j \notin Newer(ids, j)
    BY <1>3, BeforeIsAnOrder DEF Newer
  <2>3. /\ Cardinality(Newer(ids, j)) <= Cardinality(Newer(ids, i))
        /\ Cardinality(Newer(ids, i)) = Cardinality(Newer(ids, j))
             => Newer(ids, i) = Newer(ids, j)
    BY <1>2, <2>1, FS_Subset
  <2>4. QED
    BY <1>2, <2>2, <2>3
<1>4. \A n \in 0 .. (Cardinality(ids) - 1) : \E i \in ids : Cardinality(Newer(ids, i)) = n
  <2> DEFINE ranks == 0 .. (Cardinality(ids) - 1)
             rank == [i \in ids |-> Cardinality(Newer(ids, i))]
  <2>1. rank \in [ids -> ranks]
    BY <1>1, <1>2
  <2>2. ASSUME NEW i \in ids, NEW j \in ids, rank[i] = rank[j] PROVE i = j
    BY <1>2, <1>3, <2>2, BeforeIsAnOrder
  <2>3. rank \in Injection(ids, ranks)
    BY <2>1, <2>2 DEF Injection, IsInjective
  <2>4. IsFiniteSet(ranks) /\ Cardinality(ranks) = Cardinality(ids)
    BY <1>1, FS_Interval
  <2>5. rank \in Surjection(ids, ranks)
    BY <2>3, <2>4, FS_Injection
  <2>6. QED
    BY <2>5 DEF Surjection
<1>5. QED
  BY <1>1, <1>2, <1>3, <1>4

PageLength(ids, most) == IF Cardinality(ids) < most THEN Cardinality(ids) ELSE most

(* A statement's rows are in order, each once, and what it leaves out is   *)
(* older than all of them.                                                 *)
LEMMA NewestFirstSorts ==
    ASSUME requests \in [Ids -> Request], NEW ids \in SUBSET Ids, NEW most \in Nat,
           NEW page, page = NewestFirst(ids, most)
    PROVE  /\ PageLength(ids, most) \in Nat
           /\ page \in Seq(ids) /\ Len(page) = PageLength(ids, most)
           /\ \A k, m \in 1 .. Len(page) : k < m => Before(page[m], page[k])
           /\ \A i \in ids : \/ i \in Range(page)
                             \/ Len(page) = most /\ \A k \in 1 .. Len(page) : Before(i, page[k])
<1> DEFINE n == PageLength(ids, most)
<1>1. Cardinality(ids) \in Nat /\ n \in Nat /\ n <= Cardinality(ids) /\ n <= most
  BY IdsAreFinite DEF PageLength
<1>2. page = [k \in 1 .. n |-> CHOOSE i \in ids : Cardinality(Newer(ids, i)) = k - 1]
  BY DEF NewestFirst, PageLength, Newer
<1>3. ASSUME NEW k \in 1 .. n
      PROVE  page[k] \in ids /\ Cardinality(Newer(ids, page[k])) = k - 1
  <2>1. k - 1 \in 0 .. (Cardinality(ids) - 1)
    BY <1>1
  <2>2. \E i \in ids : Cardinality(Newer(ids, i)) = k - 1
    BY <2>1, NewerCounts
  <2>3. page[k] = CHOOSE i \in ids : Cardinality(Newer(ids, i)) = k - 1
    BY <1>2
  <2>4. QED
    BY <2>2, <2>3
<1>4. page \in Seq(ids) /\ Len(page) = n /\ DOMAIN page = 1 .. n
  <2>1. page \in [1 .. n -> ids]
    BY <1>2, <1>3
  <2>2. QED
    BY <1>1, <2>1
<1>5. ASSUME NEW k \in 1 .. n, NEW m \in 1 .. n, k < m
      PROVE  Before(page[m], page[k])
  <2>1. page[k] \in Ids /\ page[m] \in Ids /\ page[k] # page[m]
    BY <1>3, <1>5
  <2>2. ~Before(page[k], page[m])
    BY <1>3, <1>5, NewerCounts
  <2>3. QED
    BY <2>1, <2>2, BeforeIsAnOrder
<1>6. ASSUME NEW i \in ids, i \notin Range(page)
      PROVE  n = most /\ \A k \in 1 .. n : Before(i, page[k])
  <2>1. Cardinality(Newer(ids, i)) \in 0 .. (Cardinality(ids) - 1)
    BY NewerCounts
  <2>2. \A k \in 1 .. n : page[k] \in ids /\ page[k] # i
    BY <1>3, <1>4, <1>6 DEF Range
  <2>3. ASSUME NEW k \in 1 .. n PROVE Cardinality(Newer(ids, i)) # k - 1
    <3>1. page[k] \in Ids /\ page[k] # i
      BY <2>2
    <3>2. Before(i, page[k]) \/ Before(page[k], i)
      BY <3>1, BeforeIsAnOrder
    <3>3. QED
      BY <1>3, <2>1, <2>2, <3>2, NewerCounts
  <2>4. Cardinality(Newer(ids, i)) >= n
    <3>1. SUFFICES ASSUME Cardinality(Newer(ids, i)) < n PROVE FALSE
      BY <1>1, <2>1
    <3>2. Cardinality(Newer(ids, i)) + 1 \in 1 .. n
      BY <1>1, <2>1, <3>1
    <3>3. QED
      BY <2>1, <2>3, <3>2
  <2>5. n = most
    BY <1>1, <2>1, <2>4 DEF PageLength
  <2>6. ASSUME NEW k \in 1 .. n PROVE Before(i, page[k])
    <3>1. page[k] \in ids /\ page[k] # i /\ Cardinality(Newer(ids, page[k])) < Cardinality(Newer(ids, i))
      BY <1>1, <1>3, <2>1, <2>2, <2>4
    <3>2. ~Before(page[k], i)
      BY <1>1, <1>3, <2>1, <3>1, NewerCounts
    <3>3. QED
      BY <3>1, <3>2, BeforeIsAnOrder
  <2>7. QED
    BY <2>5, <2>6
<1>7. QED
  BY <1>1, <1>4, <1>5, <1>6

-----------------------------------------------------------------------------
(* The browsing of requests.                                               *)

(* No row outlives its endpoint.                                           *)
RowsFollowTheEndpoint ==
    /\ ~live => \A i \in Ids : requests[i].state \notin {"open", "visible"}
    /\ live => \A i \in Ids : requests[i].state # "deleted"

Seen(i) == i \in Ids /\ requests[i].state \in {"visible", "deleted"}

InOrder == \A m, n \in DOMAIN listing.got : m < n => Before(listing.got[n], listing.got[m])

(* While a listing pages, what it still owes is older than its cursor, the *)
(* last row it got.                                                        *)
ListingStands ==
    /\ \A n \in DOMAIN listing.got : Seen(listing.got[n])
    /\ listing.pc = "idle" => listing.got = <<>> /\ listing.before_id = NoId
    /\ listing.pc = "paging" =>
         /\ listing.got # <<>> /\ listing.before_id = listing.got[Len(listing.got)]
         /\ live => \A i \in stable : /\ i \in Matching
                                      /\ \/ i \in Range(listing.got)
                                         \/ Before(i, listing.before_id)

(* What an export declares is there, until the endpoint is deleted; once   *)
(* selected, its rows are there in order, and it has sent some of them.    *)
ExportStands ==
    /\ \A n \in DOMAIN export.rows : Seen(export.rows[n])
    /\ \A m, n \in DOMAIN export.rows : m < n => Before(export.rows[n], export.rows[m])
    /\ export.sent <= Len(export.rows) /\ Len(export.rows) <= ExportMax
    /\ export.pc \in {"idle", "counted"} => export.rows = <<>>
    /\ export.pc = "counted" =>
         export.total <= ExportMax /\ (live => export.total <= Cardinality(Visible))
    /\ export.pc = "streaming" =>
         Len(export.rows) >= export.total \/ (~live /\ export.rows = <<>>)

(* A replay is of a captured request, not unfit once validated, and stored *)
(* before it is told.                                                      *)
ReplayStands ==
    /\ replay.id # NoId => Seen(replay.id)
    /\ replay.pc \in {"idle", "authorized", "validated"} => replay.outcome = "none" /\ ~replay.sent
    /\ replay.pc = "validated" => replay.target # "unfit"
    /\ replay.pc # "over" => replay.told = "none"
    /\ (replay.pc = "recorded" /\ replay.id \in Visible) => replay.id \in replays

BrowserInv ==
    /\ BrowserTypeOK
    /\ RowsFollowTheEndpoint
    /\ ListingStands /\ PagesComplete
    /\ ExportStands /\ ExportAsDeclared
    /\ ReplayStands /\ ToldReplayIsStored /\ OnlyFitIsSent

(* The invariant holds before the first capture.                           *)
LEMMA InitBrowser == BrowserInit => BrowserInv
<1> SUFFICES ASSUME BrowserInit PROVE BrowserInv
  OBVIOUS
<1>1. /\ MaxId \in Nat /\ MaxInstant \in Nat /\ MaxPages \in Nat /\ MaxBrowseFaults \in Nat
  BY BrowserAssumption DEF BrowserAssumption
<1>2. NoRequest \in Request /\ NoRequest.state = "none"
  BY <1>1 DEF NoRequest, Request, BodyClasses
<1>3. IdleReplay \in Replay /\ IdleReplay.pc = "idle" /\ IdleReplay.id = NoId
      /\ IdleReplay.outcome = "none" /\ ~IdleReplay.sent /\ IdleReplay.told = "none"
  BY DEF IdleReplay, Replay, Targets
<1>4. listing \in Listing /\ listing.pc = "idle" /\ listing.got = <<>> /\ listing.before_id = NoId
  <2>1. PICK kind \in {"requests", "forwards"} :
          listing = [pc |-> "idle", kind |-> kind, before_id |-> NoId, got |-> <<>>, gone |-> FALSE]
    BY DEF BrowserInit
  <2>2. <<>> \in Seq(Ids) /\ NoId \in Ids \cup {NoId}
    OBVIOUS
  <2>3. listing \in Listing
    BY <2>1, <2>2 DEF Listing
  <2>4. QED
    BY <2>1, <2>3
<1>5. export \in Export /\ export.pc = "idle" /\ export.rows = <<>> /\ export.sent = 0
  BY <1>1 DEF BrowserInit, Export
<1>6. requests \in [Ids -> Request]
      /\ \A i \in Ids : requests[i].state = "none"
  BY <1>2 DEF BrowserInit
<1>7. BrowserTypeOK
  BY <1>1, <1>3, <1>4, <1>5, <1>6 DEF BrowserInit, BrowserTypeOK
<1>8. RowsFollowTheEndpoint /\ ListingStands /\ PagesComplete
  BY <1>4, <1>6 DEF BrowserInit, RowsFollowTheEndpoint, ListingStands, PagesComplete
<1>9. ExportStands /\ ExportAsDeclared
  BY <1>5, BrowserAssumption DEF ExportStands, ExportAsDeclared, BrowserAssumption
<1>10. ReplayStands /\ ToldReplayIsStored /\ OnlyFitIsSent
  BY <1>3 DEF BrowserInit, ReplayStands, ToldReplayIsStored, OnlyFitIsSent
<1>11. QED
  BY <1>7, <1>8, <1>9, <1>10 DEF BrowserInv

(* What a step leaves of what a client has seen: a row keeps its place and,*)
(* while the endpoint is there, stays.                                     *)
RowsKeepTheirPlace ==
    /\ requests' \in [Ids -> Request]
    /\ \A i \in Ids : Seen(i) => Seen(i)' /\ requests'[i].received_at = requests[i].received_at
    /\ \A i \in Ids : requests[i].state = "deleted" => requests'[i].state = "deleted"
    /\ live' => live /\ Visible \subseteq Visible'
    /\ ~live' => Visible' = {}

(* The rows that a listing still owes keep matching.                       *)
LEMMA ListingIsKept ==
    ASSUME BrowserInv, RowsKeepTheirPlace, UNCHANGED listing, stable' \subseteq stable,
           live' => \A i \in stable' : i \in Matching => i \in Matching'
    PROVE  ListingStands' /\ PagesComplete'
<1>1. /\ listing' = listing /\ listing \in Listing
      /\ \A n \in DOMAIN listing.got : Seen(listing.got[n]) /\ Seen(listing.got[n])'
  BY DEF BrowserInv, BrowserTypeOK, ListingStands, RowsKeepTheirPlace, Seen
<1>2. ASSUME NEW i, NEW j, Seen(i), Seen(j), Before(i, j)
      PROVE  Before(i, j)'
  BY <1>2 DEF RowsKeepTheirPlace, Before, Seen
<1>3. PagesComplete'
  <2>1. \A m, n \in DOMAIN listing.got : m < n => Before(listing.got[n], listing.got[m])'
    BY <1>1, <1>2 DEF BrowserInv, PagesComplete
  <2>2. (listing.pc = "done" /\ ~listing.gone) => stable' \subseteq Range(listing.got)
    BY DEF BrowserInv, PagesComplete
  <2>3. QED
    BY <1>1, <2>1, <2>2 DEF PagesComplete
<1>4. ASSUME listing.pc = "paging", live', NEW i \in stable'
      PROVE  /\ i \in Matching'
             /\ i \in Range(listing.got) \/ Before(i, listing.before_id)'
  <2>1. /\ i \in Matching /\ listing.got # <<>> /\ listing.before_id = listing.got[Len(listing.got)]
        /\ i \in Range(listing.got) \/ Before(i, listing.before_id)
    BY <1>4 DEF BrowserInv, ListingStands, RowsKeepTheirPlace
  <2>2. listing.got \in Seq(Ids) /\ Len(listing.got) \in DOMAIN listing.got
    BY <1>1, <2>1 DEF Listing
  <2>3. Seen(i) /\ Seen(listing.before_id)
    BY <1>1, <2>1, <2>2 DEF Matching, Visible, Seen
  <2>4. QED
    BY <1>2, <1>4, <2>1, <2>3
<1>5. ListingStands'
  BY <1>1, <1>4 DEF ListingStands, BrowserInv
<1>6. QED
  BY <1>3, <1>5

(* More rows may come, and only the endpoint's deletion takes some away.   *)
LEMMA ExportIsKept ==
    ASSUME BrowserInv, RowsKeepTheirPlace, UNCHANGED export
    PROVE  ExportStands' /\ ExportAsDeclared'
<1>1. /\ export' = export /\ export.rows \in Seq(Ids) /\ export.sent \in Nat
      /\ export.total \in 0 .. MaxId /\ DOMAIN export.rows = 1 .. Len(export.rows)
      /\ Len(export.rows) \in Nat
  BY DEF BrowserInv, BrowserTypeOK, Export
<1>2. ASSUME live' PROVE live /\ Cardinality(Visible) <= Cardinality(Visible')
  <2>1. Visible \in SUBSET Visible' /\ Visible' \in SUBSET Ids /\ live
    BY <1>2 DEF RowsKeepTheirPlace, Visible
  <2>2. QED
    BY <2>1, IdsAreFinite, FS_Subset
<1>3. Cardinality(Visible) \in Nat /\ Cardinality(Visible') \in Nat
  <2>1. Visible \in SUBSET Ids /\ Visible' \in SUBSET Ids
    BY DEF Visible
  <2>2. QED
    BY <2>1, IdsAreFinite
<1>4. \A n \in DOMAIN export.rows : Seen(export.rows[n]) /\ Seen(export.rows[n])'
  BY DEF BrowserInv, ExportStands, RowsKeepTheirPlace, Seen
<1>5. ASSUME NEW i, NEW j, Seen(i), Seen(j), Before(i, j) PROVE Before(i, j)'
  BY <1>5 DEF RowsKeepTheirPlace, Before, Seen
<1>6. \A m, n \in DOMAIN export.rows : m < n => Before(export.rows[n], export.rows[m])'
  BY <1>1, <1>4, <1>5 DEF BrowserInv, ExportStands
<1>7. export.pc = "counted" =>
        export.total <= ExportMax /\ (live' => export.total <= Cardinality(Visible'))
  BY <1>1, <1>2, <1>3 DEF BrowserInv, ExportStands
<1>8. export.pc = "streaming" =>
        Len(export.rows) >= export.total \/ (~live' /\ export.rows = <<>>)
  BY <1>2 DEF BrowserInv, ExportStands
<1>9. export.sent <= Len(export.rows) /\ Len(export.rows) <= ExportMax
        /\ (export.pc \in {"idle", "counted"} => export.rows = <<>>)
  BY DEF BrowserInv, ExportStands
<1>10. ExportStands'
  BY <1>1, <1>4, <1>6, <1>7, <1>8, <1>9 DEF ExportStands
<1>11. /\ export.sent <= ExportMax
       /\ \A m, n \in 1 .. export.sent : m < n => Before(export.rows[n], export.rows[m])'
  BY <1>1, <1>6, <1>9, BrowserAssumption DEF BrowserAssumption
<1>12. export.pc = "done" => export.sent >= export.total \/ (~live' /\ export.sent = 0)
  BY <1>2 DEF BrowserInv, ExportAsDeclared
<1>13. ExportAsDeclared'
  BY <1>1, <1>11, <1>12 DEF ExportAsDeclared
<1>14. QED
  BY <1>10, <1>13

(* A stored replay stays as long as its request.                           *)
LEMMA ReplayIsKept ==
    ASSUME BrowserInv, RowsKeepTheirPlace, UNCHANGED replay,
           replay.id \in Visible' => replays \subseteq replays'
    PROVE  ReplayStands' /\ ToldReplayIsStored' /\ OnlyFitIsSent'
<1>1. Seen(replay.id) => Seen(replay.id)'
  BY DEF RowsKeepTheirPlace, Seen
<1>2. ASSUME replay.id \in Visible' PROVE replay.id \in Visible
  <2>1. replay.id \in Ids
    BY <1>2 DEF Visible
  <2>2. Seen(replay.id)
    BY <2>1 DEF BrowserInv, ReplayStands, Ids, NoId
  <2>3. QED
    BY <1>2, <2>1, <2>2 DEF Seen, Visible, RowsKeepTheirPlace
<1>3. QED
  BY <1>1, <1>2 DEF BrowserInv, ReplayStands, ToldReplayIsStored, OnlyFitIsSent

(* The steps that change rows under the owner.                             *)
LEMMA RowsMoveKeepsInv ==
    ASSUME BrowserInv, RowsKeepTheirPlace, RowsFollowTheEndpoint',
           UNCHANGED <<client, listing, export, replay, pages, browseFaults>>,
           now' \in 0 .. MaxInstant, live' \in BOOLEAN, stable' \subseteq stable,
           live' => \A i \in stable' : i \in Matching => i \in Matching',
           replays' \subseteq Ids, replay.id \in Visible' => replays \subseteq replays'
    PROVE  BrowserInv'
<1>1. BrowserTypeOK'
  BY DEF BrowserInv, BrowserTypeOK, RowsKeepTheirPlace
<1>2. QED
  BY <1>1, ListingIsKept, ExportIsKept, ReplayIsKept DEF BrowserInv

(* Time passes under the rows.                                             *)
LEMMA PassTimeKeepsInv ==
    ASSUME BrowserInv, PassTime
    PROVE  BrowserInv'
<1>1. UNCHANGED <<client, requests, live, listing, stable, export, replay, replays, pages, browseFaults>>
  BY DEF PassTime
<1>2. now' \in 0 .. MaxInstant
  BY BrowserAssumption DEF PassTime, BrowserInv, BrowserTypeOK, BrowserAssumption
<1>3. RowsFollowTheEndpoint' /\ Visible' = Visible /\ Matching' = Matching
  BY <1>1 DEF BrowserInv, RowsFollowTheEndpoint, Matching, Visible
<1>4. ~live => Visible = {}
  BY DEF BrowserInv, RowsFollowTheEndpoint, Visible
<1>5. RowsKeepTheirPlace
  BY <1>1, <1>3, <1>4 DEF RowsKeepTheirPlace, BrowserInv, BrowserTypeOK, Seen
<1>6. QED
  BY <1>1, <1>2, <1>3, <1>5, RowsMoveKeepsInv DEF BrowserInv, BrowserTypeOK

(* A step that makes one request, i, what it was not.                      *)
LEMMA OneRowKeepsInv ==
    ASSUME BrowserInv, NEW i \in Ids, NEW new \in Request,
           requests' = [requests EXCEPT ![i] = new],
           UNCHANGED <<client, now, live, listing, export, replay, replays, pages, browseFaults>>,
           ~live => new.state = requests[i].state,
           \/ requests[i].state = "none" /\ new.state = "open" /\ stable' = stable
           \/ requests[i].state = "open" /\ new.state = "visible" /\ stable' = stable
           \/ /\ requests[i].state = "visible" /\ new.state = "visible"
              /\ new.received_at = requests[i].received_at /\ stable' = stable \ {i}
    PROVE  BrowserInv'
<1>1. /\ requests' \in [Ids -> Request] /\ requests'[i] = new
      /\ \A j \in Ids \ {i} : requests'[j] = requests[j]
  BY DEF BrowserInv, BrowserTypeOK
<1>2. RowsFollowTheEndpoint'
  <2>1. ASSUME NEW j \in Ids
        PROVE  /\ ~live => requests'[j].state \notin {"open", "visible"}
               /\ live => requests'[j].state # "deleted"
    BY <1>1 DEF BrowserInv, RowsFollowTheEndpoint
  <2>2. QED
    BY <2>1 DEF RowsFollowTheEndpoint
<1>3. Visible \subseteq Visible'
  BY <1>1 DEF Visible
<1>4. ~live' => Visible' = {}
  BY <1>2 DEF RowsFollowTheEndpoint, Visible
<1>5. RowsKeepTheirPlace
  BY <1>1, <1>3, <1>4 DEF RowsKeepTheirPlace, Seen
<1>6. \A j \in stable' : j \in Matching => j \in Matching'
  BY <1>1 DEF Matching, Visible
<1>7. QED
  BY <1>2, <1>5, <1>6, RowsMoveKeepsInv DEF BrowserInv, BrowserTypeOK

(* A capture, visible once committed.                                      *)
LEMMA CaptureArrivesKeepsInv ==
    ASSUME BrowserInv, NEW i \in Ids, CaptureArrives(i)
    PROVE  BrowserInv'
<1>1. ASSUME NEW new \in Request, Arrive(i, new)
      PROVE  BrowserInv'
  <2>1. PICK row \in Request : row = [new EXCEPT !.state = "open", !.received_at = now]
    <3>1. now \in 0 .. MaxInstant
      BY DEF BrowserInv, BrowserTypeOK
    <3>2. /\ \A x \in Request : [x EXCEPT !.state = "open"] \in Request
          /\ \A x \in Request : [x EXCEPT !.received_at = now] \in Request
      BY <3>1 DEF Request
    <3>3. [new EXCEPT !.state = "open", !.received_at = now] \in Request
      BY <3>2
    <3>4. QED
      BY <3>3
  <2>2. row.state = "open"
    <3>1. \A x \in Request : LET y == [[x EXCEPT !.state = "open"] EXCEPT !.received_at = now]
                             IN y.state = "open"
      BY DEF Request
    <3>2. QED
      BY <2>1, <3>1
  <2>3. /\ requests' = [requests EXCEPT ![i] = row] /\ live /\ requests[i].state = "none"
        /\ UNCHANGED <<client, now, live, listing, stable, export, replay, replays, pages,
                       browseFaults>>
    BY <1>1, <2>1 DEF Arrive
  <2>4. QED
    BY <1>1, <2>2, <2>3, OneRowKeepsInv
<1>2. NoRequest \in Request
  BY BrowserAssumption DEF BrowserAssumption, NoRequest, Request, BodyClasses
<1>3. ASSUME NEW m \in BOOLEAN PROVE [NoRequest EXCEPT !.matches = m] \in Request
  BY <1>2 DEF Request
<1>4. ASSUME NEW b \in Bodies PROVE [NoRequest EXCEPT !.body = b] \in Request
  BY <1>2, BrowserAssumption DEF Request, BrowserAssumption
<1>5. QED
  BY <1>1, <1>2, <1>3, <1>4 DEF CaptureArrives

(* A capture commits, a forward changes.                                   *)
LEMMA OneRowChangesKeepsInv ==
    ASSUME BrowserInv, NEW i \in Ids, CaptureCommits(i) \/ ForwardChanges(i)
    PROVE  BrowserInv'
<1>1. /\ requests[i] \in Request
      /\ ~live => requests[i].state \notin {"open", "visible"}
  BY DEF BrowserInv, BrowserTypeOK, RowsFollowTheEndpoint
<1>2. CASE CaptureCommits(i)
  <2>1. [requests[i] EXCEPT !.state = "visible"] \in Request
    BY <1>1 DEF Request
  <2>2. PICK row \in Request : row = [requests[i] EXCEPT !.state = "visible"]
    BY <2>1
  <2>3. row.state = "visible"
    BY <1>1, <2>2 DEF Request
  <2>4. /\ requests' = [requests EXCEPT ![i] = row] /\ requests[i].state = "open"
        /\ UNCHANGED <<client, now, live, listing, stable, export, replay, replays, pages,
                       browseFaults>>
    BY <1>2, <2>2 DEF CaptureCommits
  <2>5. QED
    BY <1>1, <2>3, <2>4, OneRowKeepsInv
<1>3. CASE ForwardChanges(i)
  <2>1. [requests[i] EXCEPT !.matches = ~requests[i].matches] \in Request
    BY <1>1 DEF Request
  <2>2. PICK row \in Request : row = [requests[i] EXCEPT !.matches = ~requests[i].matches]
    BY <2>1
  <2>3. /\ row.state = requests[i].state
        /\ row.received_at = requests[i].received_at
    BY <1>1, <2>2 DEF Request
  <2>4. /\ requests' = [requests EXCEPT ![i] = row] /\ requests[i].state = "visible"
        /\ stable' = stable \ {i}
        /\ UNCHANGED <<client, now, live, listing, export, replay, replays, pages, browseFaults>>
    BY <1>3, <2>2 DEF ForwardChanges
  <2>5. QED
    BY <1>1, <2>3, <2>4, OneRowKeepsInv
<1>4. QED
  BY <1>2, <1>3

(* The deletion takes every row, and every replay of it.                   *)
LEMMA DeleteEndpointKeepsInv ==
    ASSUME BrowserInv, DeleteEndpoint
    PROVE  BrowserInv'
<1>1. /\ UNCHANGED <<client, now, listing, stable, export, replay, pages, browseFaults>>
      /\ ~live' /\ live /\ replays' = {} /\ live' \in BOOLEAN
      /\ \A i \in Ids : requests[i].state # "open"
  BY DEF DeleteEndpoint
<1>2. ASSUME NEW i \in Ids
      PROVE  /\ requests[i] \in Request /\ requests'[i] \in Request
             /\ requests'[i].received_at = requests[i].received_at
             /\ requests'[i].state = IF requests[i].state = "visible" THEN "deleted"
                                     ELSE requests[i].state
  <2>1. requests[i] \in Request
    BY DEF BrowserInv, BrowserTypeOK
  <2>2. requests'[i] = IF requests[i].state = "visible"
                       THEN [requests[i] EXCEPT !.state = "deleted"] ELSE requests[i]
    BY DEF DeleteEndpoint
  <2>3. QED
    BY <2>1, <2>2 DEF Request
<1>3. requests' \in [Ids -> Request]
  BY <1>2 DEF DeleteEndpoint
<1>4. RowsFollowTheEndpoint' /\ Visible' = {}
  BY <1>1, <1>2 DEF BrowserInv, RowsFollowTheEndpoint, Visible
<1>5. RowsKeepTheirPlace
  BY <1>1, <1>2, <1>3, <1>4 DEF RowsKeepTheirPlace, Seen
<1>6. QED
  BY <1>1, <1>4, <1>5, RowsMoveKeepsInv DEF BrowserInv, BrowserTypeOK

(* The rows after a cursor follow what the client got before.              *)
LEMMA PageFollows ==
    ASSUME requests \in [Ids -> Request], NEW got \in Seq(Ids), NEW items \in Seq(Ids),
           \A m, n \in DOMAIN got : m < n => Before(got[n], got[m]),
           \A m, n \in DOMAIN items : m < n => Before(items[n], items[m]),
           \A n \in DOMAIN items : got # <<>> => Before(items[n], got[Len(got)])
    PROVE  \A m, n \in DOMAIN (got \o items) :
             m < n => Before((got \o items)[n], (got \o items)[m])
<1>1. /\ Len(got) \in Nat /\ Len(items) \in Nat
      /\ DOMAIN got = 1 .. Len(got) /\ DOMAIN items = 1 .. Len(items)
      /\ DOMAIN (got \o items) = 1 .. (Len(got) + Len(items))
      /\ \A n \in 1 .. Len(got) : (got \o items)[n] = got[n] /\ got[n] \in Ids
      /\ \A n \in (Len(got) + 1) .. (Len(got) + Len(items)) :
           /\ (got \o items)[n] = items[n - Len(got)]
           /\ n - Len(got) \in 1 .. Len(items) /\ items[n - Len(got)] \in Ids
  OBVIOUS
<1>2. SUFFICES ASSUME NEW m \in 1 .. (Len(got) + Len(items)),
                      NEW n \in 1 .. (Len(got) + Len(items)), m < n
               PROVE  Before((got \o items)[n], (got \o items)[m])
  BY <1>1
<1>3. CASE n <= Len(got)
  <2>1. m \in 1 .. Len(got) /\ n \in 1 .. Len(got)
    BY <1>1, <1>2, <1>3
  <2>2. QED
    BY <1>1, <1>2, <2>1
<1>4. CASE m > Len(got)
  <2>1. /\ m \in (Len(got) + 1) .. (Len(got) + Len(items))
        /\ n \in (Len(got) + 1) .. (Len(got) + Len(items))
        /\ m - Len(got) < n - Len(got)
    BY <1>1, <1>2, <1>4
  <2>2. QED
    BY <1>1, <2>1
<1>5. CASE m <= Len(got) /\ n > Len(got)
  <2>1. /\ m \in 1 .. Len(got) /\ Len(got) \in 1 .. Len(got) /\ got # <<>>
        /\ n \in (Len(got) + 1) .. (Len(got) + Len(items))
    BY <1>1, <1>2, <1>5
  <2>2. PICK i \in Ids : i = (got \o items)[n] /\ Before(i, got[Len(got)])
    BY <1>1, <2>1
  <2>3. m = Len(got) \/ Before(got[Len(got)], got[m])
    <3>1. SUFFICES ASSUME m # Len(got) PROVE Before(got[Len(got)], got[m])
      OBVIOUS
    <3>2. m \in 1 .. Len(got) /\ Len(got) \in 1 .. Len(got) /\ Len(got) \in Nat
      BY <1>1, <2>1
    <3>3. m < Len(got)
      BY <3>1, <3>2
    <3>4. QED
      BY <1>1, <3>2, <3>3
  <2>4. got[m] \in Ids /\ got[Len(got)] \in Ids
    BY <1>1, <2>1
  <2>5. Before(i, got[m])
    BY <2>2, <2>3, <2>4, BeforeIsAnOrder
  <2>6. QED
    BY <1>1, <2>1, <2>2, <2>5
<1>6. QED
  BY <1>1, <1>2, <1>3, <1>4, <1>5

(* A table from one on is a sequence.                                      *)
LEMMA TableIsASeq ==
    ASSUME NEW S, NEW n \in Nat, NEW f, f = [k \in 1 .. n |-> f[k]],
           \A k \in 1 .. n : f[k] \in S
    PROVE  f \in Seq(S)
<1>1. f \in [1 .. n -> S]
  OBVIOUS
<1>2. QED
  BY <1>1

(* What a client has after a page, and what it then owes.                  *)
LEMMA ListPageKeepsInv ==
    ASSUME BrowserInv, ListPage
    PROVE  BrowserInv'
<1>1. /\ listing \in Listing /\ requests \in [Ids -> Request]
      /\ UNCHANGED <<client, now, requests, live, export, replay, replays, browseFaults>>
      /\ listing.pc \in {"idle", "paging"}
      /\ stable' = IF listing.pc = "idle" THEN Matching ELSE stable
  BY DEF BrowserInv, BrowserTypeOK, ListPage
<1>2. /\ Visible' = Visible /\ Matching' = Matching
      /\ \A i, j : Before(i, j)' = Before(i, j)
      /\ \A i : Seen(i)' = Seen(i)
  BY <1>1 DEF Visible, Matching, Before, Seen
<1>3. pages' \in 0 .. MaxPages /\ stable' \subseteq Ids
  <2>1. MaxPages \in Nat /\ pages \in 0 .. MaxPages /\ stable \subseteq Ids
    BY BrowserAssumption DEF BrowserInv, BrowserTypeOK, BrowserAssumption
  <2>2. Matching \subseteq Ids
    BY DEF Matching, Visible
  <2>3. QED
    BY <1>1, <2>1, <2>2 DEF ListPage
<1>4. ASSUME listing' \in Listing, ListingStands', PagesComplete'
      PROVE  BrowserInv'
  <2>1. BrowserTypeOK'
    BY <1>1, <1>3, <1>4 DEF BrowserInv, BrowserTypeOK
  <2>2. RowsFollowTheEndpoint' /\ ExportStands' /\ ExportAsDeclared'
    BY <1>1, <1>2 DEF BrowserInv, RowsFollowTheEndpoint, ExportStands, ExportAsDeclared
  <2>3. ReplayStands' /\ ToldReplayIsStored' /\ OnlyFitIsSent'
    BY <1>1, <1>2 DEF BrowserInv, ReplayStands, ToldReplayIsStored, OnlyFitIsSent
  <2>4. QED
    BY <1>4, <2>1, <2>2, <2>3 DEF BrowserInv
<1>5. CASE ~live
  <2>1. listing' = [listing EXCEPT !.pc = "done", !.gone = TRUE]
    BY <1>5 DEF ListPage
  <2>2. listing' = [pc |-> "done", kind |-> listing.kind, before_id |-> listing.before_id,
                    got |-> listing.got, gone |-> TRUE]
    BY <1>1, <2>1 DEF Listing
  <2>3. listing' \in Listing
    BY <1>1, <2>2 DEF Listing
  <2>4. listing'.pc = "done" /\ listing'.gone /\ listing'.got = listing.got
    BY <2>2
  <2>5. ListingStands' /\ PagesComplete'
    BY <1>2, <2>4 DEF BrowserInv, ListingStands, PagesComplete
  <2>6. QED
    BY <1>4, <2>3, <2>5
<1>6. CASE live
  <2> DEFINE ids == IF listing.before_id \in Visible
                    THEN {i \in Matching : Before(i, listing.before_id)} ELSE Matching
  <2>1. ids \in SUBSET Ids /\ ids \subseteq Matching /\ ids \subseteq Visible
    BY DEF Matching, Visible
  <2>2. PICK got \in Seq(Ids) : got = listing.got
    BY <1>1 DEF Listing
  <2>3. Limit \in Nat \ {0}
    BY BrowserAssumption DEF BrowserAssumption
  <2>4. PICK items : items = Page(listing.before_id)
    OBVIOUS
  <2>5. items = NewestFirst(ids, Limit)
    BY <2>4 DEF Page
  <2>6. /\ items \in Seq(ids) /\ Len(items) = PageLength(ids, Limit)
        /\ \A k, m \in 1 .. Len(items) : k < m => Before(items[m], items[k])
        /\ \A i \in ids : \/ i \in Range(items)
                          \/ Len(items) = Limit /\ \A k \in 1 .. Len(items) : Before(i, items[k])
    BY <1>1, <2>1, <2>3, <2>5, NewestFirstSorts
  <2>7. /\ items \in Seq(Ids) /\ Len(items) \in Nat /\ DOMAIN items = 1 .. Len(items)
        /\ \A n \in 1 .. Len(items) : items[n] \in ids
        /\ Len(got) \in Nat /\ DOMAIN got = 1 .. Len(got) /\ got \o items \in Seq(Ids)
    <3>1. /\ Len(items) \in Nat /\ DOMAIN items = 1 .. Len(items)
          /\ \A n \in 1 .. Len(items) : items[n] \in ids
      BY <2>6
    <3>2. items \in Seq(Ids)
      <4>1. items = [n \in 1 .. Len(items) |-> items[n]]
        BY <2>6
      <4>2. \A n \in 1 .. Len(items) : items[n] \in Ids
        BY <2>1, <3>1
      <4>3. QED
        BY <3>1, <4>1, <4>2, TableIsASeq
    <3>3. QED
      BY <2>2, <3>1, <3>2
  <2>8. got # <<>> => /\ listing.before_id = got[Len(got)] /\ listing.before_id \in Visible
                      /\ listing.pc = "paging"
    <3>1. SUFFICES ASSUME got # <<>>
                   PROVE  /\ listing.before_id = got[Len(got)] /\ listing.before_id \in Visible
                          /\ listing.pc = "paging"
      OBVIOUS
    <3>2. listing.pc = "paging" /\ listing.before_id = got[Len(got)]
      BY <1>1, <2>2, <3>1 DEF BrowserInv, ListingStands
    <3>3. Len(got) \in DOMAIN got
      BY <2>7, <3>1
    <3>4. Seen(got[Len(got)])
      BY <2>2, <3>3 DEF BrowserInv, ListingStands
    <3>5. QED
      BY <1>6, <3>2, <3>4 DEF Seen, Visible, BrowserInv, RowsFollowTheEndpoint
  <2>9. \A m, n \in DOMAIN (got \o items) :
          m < n => Before((got \o items)[n], (got \o items)[m])
    <3>1. \A m, n \in DOMAIN got : m < n => Before(got[n], got[m])
      BY <2>2 DEF BrowserInv, PagesComplete
    <3>2. \A n \in DOMAIN items : got # <<>> => Before(items[n], got[Len(got)])
      BY <2>7, <2>8
    <3>3. QED
      BY <1>1, <2>6, <2>7, <3>1, <3>2, PageFollows
  <2>10. \A n \in DOMAIN (got \o items) : Seen((got \o items)[n])
    <3>1. \A n \in DOMAIN got : Seen(got[n])
      BY <2>2 DEF BrowserInv, ListingStands
    <3>2. \A n \in DOMAIN items : Seen(items[n])
      BY <2>1, <2>7 DEF Seen, Visible
    <3>3. QED
      BY <2>7, <3>1, <3>2
  <2>11. Range(got \o items) = Range(got) \cup Range(items)
    <3>1. ASSUME NEW x \in Range(got) PROVE x \in Range(got \o items)
      BY <2>7, <3>1 DEF Range
    <3>2. ASSUME NEW x \in Range(items) PROVE x \in Range(got \o items)
      <4>1. PICK k \in 1 .. Len(items) : x = items[k]
        BY <2>7, <3>2 DEF Range
      <4>2. /\ Len(got) + k \in DOMAIN (got \o items) /\ (got \o items)[Len(got) + k] = x
        BY <2>7, <4>1
      <4>3. QED
        BY <4>2 DEF Range
    <3>3. ASSUME NEW x \in Range(got \o items) PROVE x \in Range(got) \cup Range(items)
      <4>1. PICK k \in DOMAIN (got \o items) : x = (got \o items)[k]
        BY <3>3 DEF Range
      <4>2. CASE k <= Len(got)
        <5>1. k \in DOMAIN got /\ x = got[k]
          BY <2>7, <4>1, <4>2
        <5>2. QED
          BY <5>1 DEF Range
      <4>3. CASE k > Len(got)
        <5>1. k - Len(got) \in DOMAIN items /\ x = items[k - Len(got)]
          BY <2>7, <4>1, <4>3
        <5>2. QED
          BY <5>1 DEF Range
      <4>4. QED
        BY <2>7, <4>1, <4>2, <4>3
    <3>4. QED
      BY <3>1, <3>2, <3>3
  <2>12. ASSUME NEW i \in stable'
         PROVE  i \in Matching /\ (i \in Range(got) \/ i \in ids)
    <3>1. CASE listing.pc = "idle"
      <4>1. listing.before_id \notin Visible
        BY <3>1 DEF BrowserInv, ListingStands, Visible, Ids, NoId
      <4>2. QED
        BY <1>1, <2>12, <3>1, <4>1
    <3>2. CASE listing.pc = "paging"
      <4>1. /\ i \in stable /\ listing.got # <<>>
        BY <1>1, <2>12, <3>2 DEF BrowserInv, ListingStands
      <4>2. listing.before_id \in Visible
        BY <2>2, <2>8, <4>1
      <4>3. QED
        BY <1>6, <2>2, <3>2, <4>1, <4>2 DEF BrowserInv, ListingStands
    <3>3. QED
      BY <1>1, <3>1, <3>2
  <2>13. listing' = [listing EXCEPT
                       !.got = listing.got \o items,
                       !.pc = IF Len(items) = Limit THEN "paging" ELSE "done",
                       !.before_id = IF Len(items) = Limit THEN Last(items) ELSE listing.before_id]
    BY <1>6, <2>4 DEF ListPage
  <2>14. listing' = [pc |-> IF Len(items) = Limit THEN "paging" ELSE "done",
                     kind |-> listing.kind,
                     before_id |-> IF Len(items) = Limit THEN Last(items) ELSE listing.before_id,
                     got |-> got \o items, gone |-> listing.gone]
    BY <1>1, <2>2, <2>13 DEF Listing
  <2>15. CASE Len(items) = Limit
    <3>1. PICK last \in Ids : last = items[Len(items)] /\ last = Last(items)
      BY <2>3, <2>7, <2>15 DEF Last
    <3>2. listing' = [pc |-> "paging", kind |-> listing.kind, before_id |-> last,
                      got |-> got \o items, gone |-> listing.gone]
      BY <2>14, <2>15, <3>1
    <3>3. listing' \in Listing
      BY <1>1, <2>7, <3>2 DEF Listing
    <3>4. /\ got \o items # <<>> /\ last = (got \o items)[Len(got \o items)]
      <4>1. /\ Len(items) \in 1 .. Len(items)
            /\ Len(got \o items) = Len(got) + Len(items) /\ Len(got \o items) > 0
        BY <2>2, <2>3, <2>7, <2>15
      <4>2. (got \o items)[Len(got) + Len(items)] = items[Len(items)]
        BY <2>2, <2>7, <4>1
      <4>3. QED
        BY <3>1, <4>1, <4>2
    <3>5. ASSUME NEW i \in stable' PROVE i \in Range(got \o items) \/ Before(i, last)
      <4>1. Len(items) \in 1 .. Len(items)
        BY <2>3, <2>15
      <4>2. CASE i \in ids
        <5>1. \/ i \in Range(items)
              \/ \A k \in 1 .. Len(items) : Before(i, items[k])
          BY <2>6, <4>2
        <5>2. QED
          BY <2>11, <3>1, <4>1, <5>1
      <4>3. QED
        BY <2>11, <2>12, <3>5, <4>2
    <3>6. ListingStands'
      BY <1>2, <2>10, <2>12, <3>2, <3>4, <3>5 DEF ListingStands
    <3>7. PagesComplete'
      BY <1>2, <2>9, <3>2 DEF PagesComplete
    <3>8. QED
      BY <1>4, <3>3, <3>6, <3>7
  <2>16. CASE Len(items) # Limit
    <3>1. listing' = [pc |-> "done", kind |-> listing.kind, before_id |-> listing.before_id,
                      got |-> got \o items, gone |-> listing.gone]
      BY <2>14, <2>16
    <3>2. listing' \in Listing
      BY <1>1, <2>7, <3>1 DEF Listing
    <3>3. stable' \subseteq Range(got \o items)
      BY <2>6, <2>11, <2>12, <2>16
    <3>4. ListingStands'
      BY <1>2, <2>10, <3>1 DEF ListingStands
    <3>5. PagesComplete'
      BY <1>2, <2>9, <3>1, <3>3 DEF PagesComplete
    <3>6. QED
      BY <1>4, <3>2, <3>4, <3>5
  <2>17. QED
    BY <2>15, <2>16
<1>7. QED
  BY <1>5, <1>6

-----------------------------------------------------------------------------
(* Exports and replays.                                                    *)

(* What stands when the rows stay as they are.                             *)
LEMMA RowsStay ==
    ASSUME BrowserInv, UNCHANGED <<requests, live>>
    PROVE  /\ Visible' = Visible /\ RowsFollowTheEndpoint'
           /\ UNCHANGED <<listing, stable>> => ListingStands' /\ PagesComplete'
           /\ UNCHANGED export => ExportStands' /\ ExportAsDeclared'
           /\ UNCHANGED <<replay, replays>>
                => ReplayStands' /\ ToldReplayIsStored' /\ OnlyFitIsSent'
<1>1. /\ Visible' = Visible /\ Matching' = Matching
      /\ \A i, j : Before(i, j)' = Before(i, j)
      /\ \A i : Seen(i)' = Seen(i)
  BY DEF Visible, Matching, Before, Seen
<1>2. RowsFollowTheEndpoint'
  BY DEF BrowserInv, RowsFollowTheEndpoint
<1>3. UNCHANGED <<listing, stable>> => ListingStands' /\ PagesComplete'
  BY <1>1 DEF BrowserInv, ListingStands, PagesComplete
<1>4. UNCHANGED export => ExportStands' /\ ExportAsDeclared'
  BY <1>1 DEF BrowserInv, ExportStands, ExportAsDeclared
<1>5. UNCHANGED <<replay, replays>> => ReplayStands' /\ ToldReplayIsStored' /\ OnlyFitIsSent'
  BY <1>1 DEF BrowserInv, ReplayStands, ToldReplayIsStored, OnlyFitIsSent
<1>6. QED
  BY <1>1, <1>2, <1>3, <1>4, <1>5

(* Visible requests can be counted.                                        *)
LEMMA VisibleCount ==
    Cardinality(Visible) \in 0 .. MaxId
<1>1. IsFiniteSet(Ids) /\ Cardinality(Ids) = MaxId /\ MaxId \in Nat
  BY BrowserAssumption, FS_Interval DEF BrowserAssumption, Ids
<1>2. Visible \in SUBSET Ids
  BY DEF Visible
<1>3. Cardinality(Visible) \in Nat /\ Cardinality(Visible) <= MaxId
  BY <1>1, <1>2, FS_Subset, IdsAreFinite
<1>4. QED
  BY <1>1, <1>3

(* What an export will have sent, of what it has selected, is as declared. *)
LEMMA ExportSends ==
    ASSUME BrowserTypeOK', ExportStands',
           (export.pc = "done" => export.sent >= export.total \/ (~live /\ export.sent = 0))'
    PROVE  ExportAsDeclared'
<1>1. /\ export'.rows \in Seq(Ids) /\ export'.sent \in Nat /\ Len(export'.rows) \in Nat
      /\ DOMAIN export'.rows = 1 .. Len(export'.rows)
      /\ ExportMax \in Nat /\ MaxId \in Nat
  BY BrowserAssumption DEF BrowserTypeOK, Export, BrowserAssumption
<1>2. export'.sent <= ExportMax
  BY <1>1 DEF ExportStands
<1>3. 1 .. export'.sent \subseteq DOMAIN export'.rows
  BY <1>1 DEF ExportStands
<1>4. QED
  BY <1>2, <1>3 DEF ExportStands, ExportAsDeclared

(* The count and the rows of an export, two statements, and the answer.    *)
LEMMA ExportKeepsInv ==
    ASSUME BrowserInv,
           CountForExport \/ SelectForExport \/ StreamRow \/ StreamEnds \/ StreamBreaks
    PROVE  BrowserInv'
<1>1. /\ UNCHANGED <<client, now, requests, live, listing, stable, replay, replays, pages>>
      /\ export \in Export /\ requests \in [Ids -> Request] /\ ExportStands
      /\ export.total \in 0 .. MaxId /\ export.sent \in Nat
      /\ export.rows \in Seq(Ids) /\ Len(export.rows) \in Nat
  BY DEF CountForExport, SelectForExport, StreamRow, StreamEnds, StreamBreaks, BrowserInv,
         BrowserTypeOK, Export
<1>2. MaxId \in Nat /\ ExportMax \in Nat \ {0} /\ Cardinality(Visible) \in 0 .. MaxId
  BY BrowserAssumption, VisibleCount DEF BrowserAssumption
<1>3. browseFaults' \in 0 .. MaxBrowseFaults
  <2>1. browseFaults \in 0 .. MaxBrowseFaults /\ MaxBrowseFaults \in Nat
    BY BrowserAssumption DEF BrowserInv, BrowserTypeOK, BrowserAssumption
  <2>2. browseFaults' = browseFaults \/ BrowseFault
    BY DEF CountForExport, SelectForExport, StreamRow, StreamEnds, StreamBreaks
  <2>3. QED
    BY <2>1, <2>2 DEF BrowseFault
<1>4. /\ Visible' = Visible /\ live' = live
      /\ \A i : Seen(i)' = Seen(i)
      /\ \A i, j : Before(i, j)' = Before(i, j)
  BY <1>1 DEF Visible, Seen, Before
<1>5. ASSUME export' \in Export, ExportStands',
             export'.pc = "done" => export'.sent >= export'.total \/ (~live /\ export'.sent = 0)
      PROVE  BrowserInv'
  <2>1. BrowserTypeOK'
    BY <1>1, <1>3, <1>5 DEF BrowserInv, BrowserTypeOK
  <2>2. ExportAsDeclared'
    BY <1>4, <1>5, <2>1, ExportSends
  <2>3. QED
    BY <1>1, <1>5, <2>1, <2>2, RowsStay DEF BrowserInv
<1>6. ASSUME NEW pc \in {"idle", "counted", "streaming", "done", "broken", "refused"},
             NEW total \in 0 .. MaxId, NEW rows \in Seq(Ids), NEW sent \in Nat,
             export' = [pc |-> pc, total |-> total, rows |-> rows, sent |-> sent]
      PROVE  /\ export' \in Export /\ export'.pc = pc /\ export'.total = total
             /\ export'.rows = rows /\ export'.sent = sent
  BY <1>6 DEF Export
<1>7. CASE CountForExport
  <2>1. PICK total \in 0 .. MaxId : total = Cardinality(Visible)
    BY <1>2
  <2>2. export.pc = "idle"
    BY <1>7 DEF CountForExport
  <2>3. CASE ExportRefused
    <3>1. export' = [pc |-> "refused", total |-> export.total, rows |-> export.rows,
                     sent |-> export.sent]
      BY <1>1, <1>7, <2>3 DEF CountForExport, Export
    <3>2. /\ export' \in Export /\ export'.pc = "refused"
          /\ export'.rows = export.rows /\ export'.sent = export.sent
      BY <1>1, <1>6, <3>1
    <3>3. QED
      BY <1>1, <1>4, <1>5, <3>2 DEF ExportStands
  <2>4. CASE ~ExportRefused
    <3>1. export' = [pc |-> "counted", total |-> total, rows |-> export.rows,
                     sent |-> export.sent]
      BY <1>1, <1>7, <2>1, <2>4 DEF CountForExport, CountByEndpoint, Export
    <3>2. /\ export' \in Export /\ export'.pc = "counted" /\ export'.total = total
          /\ export'.rows = export.rows /\ export'.sent = export.sent
      BY <1>1, <1>6, <3>1
    <3>3. total <= ExportMax
      BY <1>2, <2>1, <2>4 DEF ExportRefused, CountByEndpoint
    <3>4. ExportStands'
      BY <1>1, <1>2, <1>4, <2>1, <2>2, <3>2, <3>3 DEF ExportStands
    <3>5. QED
      BY <1>5, <3>2, <3>4
  <2>5. QED
    BY <2>3, <2>4
<1>8. CASE SelectForExport
  <2>1. PICK rows : rows = NewestFirst(Visible, ExportMax)
    OBVIOUS
  <2>2. Visible \in SUBSET Ids
    BY DEF Visible
  <2>3. /\ rows \in Seq(Visible) /\ Len(rows) = PageLength(Visible, ExportMax)
        /\ \A k, m \in 1 .. Len(rows) : k < m => Before(rows[m], rows[k])
    BY <1>1, <1>2, <2>1, <2>2, NewestFirstSorts
  <2>4. /\ rows \in Seq(Ids) /\ Len(rows) \in Nat /\ DOMAIN rows = 1 .. Len(rows)
        /\ \A k \in 1 .. Len(rows) : Seen(rows[k])
    <3>1. /\ rows = [k \in 1 .. Len(rows) |-> rows[k]] /\ Len(rows) \in Nat
          /\ \A k \in 1 .. Len(rows) : rows[k] \in Visible
      BY <2>3
    <3>2. \A k \in 1 .. Len(rows) : rows[k] \in Ids /\ Seen(rows[k])
      BY <2>2, <3>1 DEF Seen, Visible
    <3>3. QED
      BY <2>3, <3>1, <3>2, TableIsASeq
  <2>5. export.pc = "counted" /\ export.rows = <<>> /\ export.sent = 0
    BY <1>1, <1>8 DEF SelectForExport, ExportStands
  <2>6. export' = [pc |-> "streaming", total |-> export.total, rows |-> rows, sent |-> 0]
    BY <1>1, <1>8, <2>1, <2>5 DEF SelectForExport, StreamForExport, Export
  <2>7. /\ export' \in Export /\ export'.pc = "streaming" /\ export'.total = export.total
        /\ export'.rows = rows /\ export'.sent = 0
    BY <1>1, <1>2, <1>6, <2>4, <2>6
  <2>8. export.total <= ExportMax /\ (live => export.total <= Cardinality(Visible))
    BY <1>1, <2>5 DEF ExportStands
  <2>9. Len(rows) <= ExportMax
    BY <1>2, <2>3 DEF PageLength
  <2>10. live => Len(rows) >= export.total
    BY <1>1, <1>2, <2>3, <2>8 DEF PageLength
  <2>11. ~live => rows = <<>>
    <3>1. SUFFICES ASSUME ~live PROVE rows = <<>>
      OBVIOUS
    <3>2. Visible = {}
      BY <3>1 DEF BrowserInv, RowsFollowTheEndpoint, Visible
    <3>3. QED
      BY <2>3, <3>2
  <2>12. ExportStands'
    BY <1>4, <2>3, <2>4, <2>7, <2>9, <2>10, <2>11 DEF ExportStands
  <2>13. QED
    BY <1>5, <2>7, <2>12
<1>9. CASE StreamRow
  <2>1. /\ export.pc = "streaming" /\ export.sent < Len(export.rows)
        /\ export' = [pc |-> "streaming", total |-> export.total, rows |-> export.rows,
                      sent |-> export.sent + 1]
    BY <1>1, <1>9 DEF StreamRow, Export
  <2>2. export.sent + 1 \in Nat
    BY <1>1
  <2>3. /\ export' \in Export /\ export'.pc = "streaming" /\ export'.total = export.total
        /\ export'.rows = export.rows /\ export'.sent = export.sent + 1
    BY <1>1, <1>2, <1>6, <2>1, <2>2
  <2>4. ExportStands'
    BY <1>1, <1>4, <2>1, <2>3 DEF ExportStands
  <2>5. QED
    BY <1>5, <2>3, <2>4
<1>10. CASE StreamEnds \/ StreamBreaks
  <2>1. PICK pc \in {"done", "broken"} :
          /\ export' = [export EXCEPT !.pc = pc]
          /\ pc = "done" => export.pc = "streaming" /\ export.sent = Len(export.rows)
    BY <1>10 DEF StreamEnds, StreamBreaks
  <2>2. export' = [pc |-> pc, total |-> export.total, rows |-> export.rows,
                   sent |-> export.sent]
    BY <1>1, <2>1 DEF Export
  <2>3. /\ export' \in Export /\ export'.pc = pc /\ export'.total = export.total
        /\ export'.rows = export.rows /\ export'.sent = export.sent
    BY <1>1, <1>6, <2>2
  <2>4. ExportStands'
    BY <1>1, <1>4, <2>3 DEF ExportStands
  <2>5. pc = "done" => export.sent >= export.total \/ (~live /\ export.sent = 0)
    BY <1>1, <2>1 DEF ExportStands
  <2>6. QED
    BY <1>5, <2>3, <2>4, <2>5
<1>11. QED
  BY <1>7, <1>8, <1>9, <1>10

Words == {"app", "example", "hooktrace", "io", "nothooktrace", "org"}

(* Reverse is a sequence of the same length, backwards.                    *)
LEMMA ReverseBackwards ==
    ASSUME NEW S, NEW seq \in Seq(S)
    PROVE  /\ Len(seq) \in Nat /\ Len(Reverse(seq)) = Len(seq) /\ Reverse(seq) \in Seq(S)
           /\ \A i \in 1 .. Len(seq) : Reverse(seq)[i] = seq[(Len(seq) - i) + 1]
BY DEF Reverse

(* A name is the system's own if it ends in its labels, whatever precedes. *)
LEMMA SuffixOfOwn ==
    ASSUME NEW labels \in Seq(Words)
    PROVE  IsSuffix(OwnDomain, labels) <=>
             Len(labels) >= 2 /\ labels[Len(labels)] = "io" /\ labels[Len(labels) - 1] = "hooktrace"
<1> DEFINE mirrored == Reverse(labels)
           own == Reverse(OwnDomain)
<1>1. /\ Len(labels) \in Nat /\ Len(mirrored) = Len(labels) /\ mirrored \in Seq(Words)
      /\ \A i \in 1 .. Len(labels) : mirrored[i] = labels[(Len(labels) - i) + 1]
  BY ReverseBackwards
<1>2. /\ OwnDomain \in Seq(Words) /\ Len(OwnDomain) = 2
      /\ OwnDomain[1] = "hooktrace" /\ OwnDomain[2] = "io"
  BY DEF OwnDomain, Words
<1>3. own \in Seq(Words) /\ Len(own) = 2 /\ own[1] = "io" /\ own[2] = "hooktrace"
  <2>1. /\ own \in Seq(Words) /\ Len(own) = Len(OwnDomain)
        /\ \A i \in 1 .. Len(OwnDomain) : own[i] = OwnDomain[(Len(OwnDomain) - i) + 1]
    BY <1>2, ReverseBackwards
  <2>2. own[1] = OwnDomain[(2 - 1) + 1] /\ own[2] = OwnDomain[(2 - 2) + 1]
    BY <1>2, <2>1
  <2>3. QED
    BY <1>2, <2>1, <2>2
<1>4. /\ SubSeq(own, 1, 2) \in Seq(Words) /\ Len(SubSeq(own, 1, 2)) = 2
      /\ SubSeq(own, 1, 2)[1] = "io" /\ SubSeq(own, 1, 2)[2] = "hooktrace"
  <2>1. \A i \in 1 .. 2 : own[i] \in Words
    BY <1>3
  <2>2. /\ SubSeq(own, 1, 2) \in Seq(Words) /\ Len(SubSeq(own, 1, 2)) = 2
        /\ \A i \in 1 .. 2 : SubSeq(own, 1, 2)[i] = own[i]
    BY <2>1, SubSeqProperties
  <2>3. QED
    BY <1>3, <2>2
<1>5. ASSUME Len(labels) >= 2
      PROVE  /\ SubSeq(mirrored, 1, 2) \in Seq(Words) /\ Len(SubSeq(mirrored, 1, 2)) = 2
             /\ SubSeq(mirrored, 1, 2)[1] = labels[Len(labels)]
             /\ SubSeq(mirrored, 1, 2)[2] = labels[Len(labels) - 1]
  <2>1. \A i \in 1 .. 2 : mirrored[i] \in Words
    BY <1>1, <1>5
  <2>2. /\ SubSeq(mirrored, 1, 2) \in Seq(Words) /\ Len(SubSeq(mirrored, 1, 2)) = 2
        /\ \A i \in 1 .. 2 : SubSeq(mirrored, 1, 2)[i] = mirrored[i]
    BY <2>1, SubSeqProperties
  <2>3. mirrored[1] = labels[Len(labels)] /\ mirrored[2] = labels[Len(labels) - 1]
    BY <1>1, <1>5
  <2>4. QED
    BY <2>2, <2>3
<1>6. IsSuffix(OwnDomain, labels) <=>
        Len(labels) >= 2 /\ SubSeq(own, 1, 2) = SubSeq(mirrored, 1, 2)
  BY <1>1, <1>3 DEF IsSuffix, IsPrefix
<1>7. ASSUME Len(labels) >= 2, labels[Len(labels)] = "io", labels[Len(labels) - 1] = "hooktrace"
      PROVE  SubSeq(own, 1, 2) = SubSeq(mirrored, 1, 2)
  <2>1. \A i \in 1 .. 2 : SubSeq(own, 1, 2)[i] = SubSeq(mirrored, 1, 2)[i]
    BY <1>4, <1>5, <1>7
  <2>2. QED
    BY <1>4, <1>5, <1>7, <2>1, SeqEqual
<1>8. QED
  BY <1>4, <1>5, <1>6, <1>7

(* A host is the system's own under any spelling (safe_replay_target.py:   *)
(* 60-80).                                                                 *)
LEMMA OwnHosts ==
    ASSUME NEW host \in Hosts
    PROVE  OwnHost(host) <=> host.labels \in {OwnDomain, <<"app">> \o OwnDomain}
<1>1. /\ OwnDomain \in Seq(Words) /\ Len(OwnDomain) = 2
      /\ OwnDomain[1] = "hooktrace" /\ OwnDomain[2] = "io"
  BY DEF OwnDomain, Words
<1>2. PICK app \in Seq(Words) : app = <<"app">> \o OwnDomain /\ Len(app) = 3
                                 /\ app[2] = "hooktrace" /\ app[3] = "io"
  <2>1. <<"app">> \in Seq(Words) /\ Len(<<"app">>) = 1
    BY DEF Words
  <2>2. /\ <<"app">> \o OwnDomain \in Seq(Words) /\ Len(<<"app">> \o OwnDomain) = 3
        /\ \A i \in 1 .. 3 : (<<"app">> \o OwnDomain)[i] =
                              IF i <= 1 THEN <<"app">>[i] ELSE OwnDomain[i - 1]
    <3>1. /\ <<"app">> \o OwnDomain \in Seq(Words)
          /\ Len(<<"app">> \o OwnDomain) = Len(<<"app">>) + Len(OwnDomain)
          /\ \A i \in 1 .. Len(<<"app">>) + Len(OwnDomain) : (<<"app">> \o OwnDomain)[i] =
               IF i <= Len(<<"app">>) THEN <<"app">>[i] ELSE OwnDomain[i - Len(<<"app">>)]
      BY ONLY <1>1, <2>1, ConcatProperties
    <3>2. Len(<<"app">>) + Len(OwnDomain) = 3
      BY <1>1, <2>1
    <3>3. QED
      BY <2>1, <3>1, <3>2
  <2>3. (<<"app">> \o OwnDomain)[2] = "hooktrace" /\ (<<"app">> \o OwnDomain)[3] = "io"
    BY <1>1, <2>2
  <2>4. QED
    BY <2>2, <2>3
<1>3. host.labels \in {<<>>, <<"example", "org">>, <<"nothooktrace", "io">>, OwnDomain, app}
  BY <1>2 DEF Hosts, Labels
<1>4. ~IsSuffix(OwnDomain, <<>>) /\ <<>> \notin {OwnDomain, app}
  <2>1. <<>> \in Seq(Words) /\ Len(<<>>) = 0
    OBVIOUS
  <2>2. ~IsSuffix(OwnDomain, <<>>)
    <3>1. IsSuffix(OwnDomain, <<>>) => Len(<<>>) >= 2
      BY <2>1, SuffixOfOwn, Zenon
    <3>2. ~(Len(<<>>) >= 2)
      BY <2>1
    <3>3. QED
      BY <3>1, <3>2, Zenon
  <2>3. <<>> # OwnDomain /\ <<>> # app
    BY <1>1, <1>2, <2>1
  <2>4. QED
    BY <2>2, <2>3
<1>5. ASSUME NEW first \in {"example", "nothooktrace"}, NEW second \in {"org", "io"}
      PROVE  /\ ~IsSuffix(OwnDomain, <<first, second>>)
             /\ <<first, second>> \notin {OwnDomain, app}
  <2>1. /\ <<first, second>> \in Seq(Words) /\ Len(<<first, second>>) = 2
        /\ <<first, second>>[1] # "hooktrace"
    <3>1. first \in Words /\ second \in Words /\ first # "hooktrace"
      BY DEF Words
    <3>2. QED
      BY <3>1
  <2>2. ~IsSuffix(OwnDomain, <<first, second>>)
    <3>1. <<first, second>>[Len(<<first, second>>) - 1] # "hooktrace"
      BY <2>1
    <3>2. QED
      BY <2>1, <3>1, SuffixOfOwn
  <2>3. <<first, second>> # OwnDomain
    BY <1>1, <2>1
  <2>4. <<first, second>> # app
    BY <1>2, <2>1
  <2>5. QED
    BY <2>2, <2>3, <2>4
<1>6. IsSuffix(OwnDomain, OwnDomain) /\ IsSuffix(OwnDomain, app)
  <2>1. OwnDomain[Len(OwnDomain) - 1] = "hooktrace" /\ app[Len(app) - 1] = "hooktrace"
    BY <1>1, <1>2
  <2>2. IsSuffix(OwnDomain, OwnDomain)
    <3>1. Len(OwnDomain) >= 2 /\ OwnDomain[Len(OwnDomain)] = "io"
      BY <1>1
    <3>2. QED
      BY <1>1, <2>1, <3>1, SuffixOfOwn, Zenon
  <2>3. IsSuffix(OwnDomain, app)
    <3>1. Len(app) >= 2 /\ app[Len(app)] = "io"
      BY <1>2
    <3>2. QED
      BY <1>2, <2>1, <3>1, SuffixOfOwn, Zenon
  <2>4. QED
    BY <2>2, <2>3
<1>7. OwnHost(host) <=> IsSuffix(OwnDomain, host.labels)
  BY DEF OwnHost, InOwnDomain
<1>8. QED
  BY <1>2, <1>3, <1>4, <1>5, <1>6, <1>7

(* A verdict tells the targets that README.md refuses, but for shared      *)
(* address space, unless the resolver raises.                              *)
LEMMA VerdictIsRight ==
    ASSUME NEW v \in Validations
    PROVE  /\ v.verdict \in {"valid", "blocked", "raises"} /\ v.target \in Targets
           /\ v.verdict = "valid" => v.target # "unfit"
           /\ v.verdict = "blocked" => v.target = "unfit"
<1>1. PICK url \in Urls, resolution \in Resolutions :
        v = [verdict |-> Validate(url, resolution), target |-> TargetOf(url, resolution)]
  BY DEF Validations
<1>2. url.host \in Hosts /\ url.port \in {80, 443, 8080} /\ url.userinfo \in BOOLEAN
      /\ url.host.literal \in Addresses \cup {"none"}
  <2>1. url.host \in Hosts /\ url.port \in {80, 443, 8080} /\ url.userinfo \in BOOLEAN
    BY DEF Urls
  <2>2. \A host \in Hosts : host.literal \in Addresses \cup {"none"}
    BY DEF Hosts
  <2>3. QED
    BY <2>1, <2>2
<1>3. OwnHost(url.host) <=> url.host.labels \in {OwnDomain, <<"app">> \o OwnDomain}
  BY <1>2, OwnHosts
<1>4. /\ resolution.answer \in {"addresses", "timeout", "unknown"}
      /\ resolution.answer # "addresses" => resolution.ips = {}
      /\ resolution.answer = "addresses" =>
           \E a \in Addresses : resolution.ips = {a} \/ resolution.ips = {"public", a}
  BY DEF Resolutions
<1> DEFINE Public(ips) == ips \subseteq {"public", "shared"} /\ ips # {}
<1>5. /\ Resolve(resolution) \in {"valid", "blocked", "raises"}
      /\ Resolve(resolution) = "valid" => Public(resolution.ips)
      /\ Resolve(resolution) = "blocked" => ~Public(resolution.ips)
  <2>1. CASE resolution.answer = "addresses"
    BY <1>4, <2>1 DEF Resolve, IsPrivateOrReserved, Addresses
  <2>2. CASE resolution.answer # "addresses"
    BY <1>4, <2>2 DEF Resolve
  <2>3. QED
    BY <2>1, <2>2
<1>6. TargetOf(url, resolution) \in Targets
  BY DEF TargetOf, Targets
<1>7. TargetOf(url, resolution) # "unfit" <=>
        /\ ~url.userinfo /\ url.port \in {80, 443} /\ ~OwnHost(url.host)
        /\ Public(Reached(url, resolution))
  BY <1>2, <1>3 DEF TargetOf
<1>8. CASE url.host.literal = "none"
  <2>1. Reached(url, resolution) = resolution.ips
    BY <1>8 DEF Reached
  <2> HIDE DEF Public
  <2>2. /\ Validate(url, resolution) \in {"valid", "blocked", "raises"}
        /\ Validate(url, resolution) = "valid" => TargetOf(url, resolution) # "unfit"
        /\ Validate(url, resolution) = "blocked" => TargetOf(url, resolution) = "unfit"
    BY <1>2, <1>5, <1>7, <1>8, <2>1 DEF Validate
  <2>3. QED
    BY <1>1, <1>6, <2>2
<1>9. CASE url.host.literal # "none"
  <2>1. /\ Reached(url, resolution) = {url.host.literal}
        /\ url.host.literal \in Addresses
    BY <1>2, <1>9 DEF Reached
  <2>2. IsPrivateOrReserved(url.host.literal) <=> ~Public({url.host.literal})
    BY <2>1 DEF IsPrivateOrReserved, Addresses
  <2> HIDE DEF Public
  <2>3. /\ Validate(url, resolution) \in {"valid", "blocked"}
        /\ Validate(url, resolution) = "valid" => TargetOf(url, resolution) # "unfit"
        /\ Validate(url, resolution) = "blocked" => TargetOf(url, resolution) = "unfit"
    BY <1>2, <1>7, <1>9, <2>1, <2>2 DEF Validate
  <2>4. QED
    BY <1>1, <1>6, <2>3
<1>10. QED
  BY <1>8, <1>9

(* What a step of the client that replays has to show of its record.       *)
RecordStands(r, stored) ==
    /\ r \in Replay
    /\ r.id # NoId => Seen(r.id)
    /\ r.pc \in {"idle", "authorized", "validated"} => r.outcome = "none" /\ ~r.sent
    /\ r.pc = "validated" => r.target # "unfit"
    /\ r.pc # "over" => r.told = "none"
    /\ (r.pc = "recorded" \/ r.told = "replay") /\ r.id \in Visible => r.id \in stored
    /\ r.sent => r.target # "unfit"
    /\ r.outcome = "blocked" => r.target = "unfit"

(* The steps of a replay change its record, and the table.                 *)
LEMMA ReplayMovesKeepsInv ==
    ASSUME BrowserInv,
           UNCHANGED <<client, now, requests, live, listing, stable, export, pages>>,
           browseFaults' \in 0 .. MaxBrowseFaults, replays' \subseteq Ids,
           RecordStands(replay', replays')
    PROVE  BrowserInv'
<1>1. BrowserTypeOK'
  BY DEF BrowserInv, BrowserTypeOK, RecordStands
<1>2. Visible' = Visible /\ \A i : Seen(i)' = Seen(i)
  BY DEF Visible, Seen
<1>3. replay' \in Replay /\ replay'.target \in {"fit", "shared", "unfit"}
  BY DEF RecordStands, Replay, Targets
<1>4. ReplayStands' /\ ToldReplayIsStored' /\ OnlyFitIsSent'
  BY <1>2, <1>3 DEF RecordStands, ReplayStands, ToldReplayIsStored, OnlyFitIsSent
<1>5. QED
  BY <1>1, <1>4, RowsStay DEF BrowserInv

(* The record as it is stands.                                             *)
LEMMA RecordNow == ASSUME BrowserInv PROVE RecordStands(replay, replays)
BY DEF BrowserInv, BrowserTypeOK, ReplayStands, ToldReplayIsStored, OnlyFitIsSent, RecordStands

(* An answer of any kind ends the replay; only what was recorded is told.  *)
LEMMA ReplayOverStands ==
    ASSUME NEW r, NEW stored, RecordStands(r, stored),
           NEW told \in {"none", "replay", "404", "413", "500"},
           told = "replay" => r.pc = "recorded"
    PROVE  RecordStands([r EXCEPT !.pc = "over", !.told = told], stored)
<1>1. r \in Replay
  BY DEF RecordStands
<1>2. PICK q \in Replay : q = [r EXCEPT !.pc = "over"]
  <2>1. [r EXCEPT !.pc = "over"] \in Replay
    BY <1>1 DEF Replay
  <2>2. QED
    BY <2>1
<1>3. PICK o \in Replay : o = [q EXCEPT !.told = told]
  <2>1. [q EXCEPT !.told = told] \in Replay
    BY DEF Replay
  <2>2. QED
    BY <2>1
<1>4. [r EXCEPT !.pc = "over", !.told = told] = o
  BY <1>2, <1>3
<1>5. /\ q.pc = "over" /\ q.id = r.id /\ q.target = r.target /\ q.outcome = r.outcome
      /\ q.sent = r.sent
  BY <1>1, <1>2 DEF Replay
<1>6. /\ o.pc = "over" /\ o.id = r.id /\ o.target = r.target /\ o.outcome = r.outcome
      /\ o.told = told /\ o.sent = r.sent
  BY <1>3, <1>5 DEF Replay
<1>7. RecordStands(o, stored)
  BY <1>3, <1>6 DEF RecordStands
<1>8. QED
  BY <1>4, <1>7

(* The steps of a replay that end it unrecorded or told.                   *)
LEMMA ReplayEndsKeepsInv ==
    ASSUME BrowserInv,
           \/ \E i \in Ids : BlobUnread(i)
           \/ AnswerReplay \/ ReplayLost
    PROVE  BrowserInv'
<1>1. /\ UNCHANGED <<client, now, requests, live, listing, stable, export, replays, pages>>
      /\ browseFaults' = browseFaults \/ BrowseFault
      /\ \E told \in {"none", "replay", "500"} :
           ReplayOver(told) /\ (told = "replay" => replay.pc = "recorded")
  BY DEF BlobUnread, AnswerReplay, ReplayLost
<1>2. browseFaults' \in 0 .. MaxBrowseFaults
  <2>1. browseFaults \in 0 .. MaxBrowseFaults /\ MaxBrowseFaults \in Nat
    BY BrowserAssumption DEF BrowserInv, BrowserTypeOK, BrowserAssumption
  <2>2. QED
    BY <1>1, <2>1 DEF BrowseFault
<1>3. PICK told \in {"none", "replay", "500"} :
        ReplayOver(told) /\ (told = "replay" => replay.pc = "recorded")
  BY <1>1
<1>4. replay' = [replay EXCEPT !.pc = "over", !.told = told]
  BY <1>3 DEF ReplayOver
<1>5. RecordStands(replay', replays)
  BY <1>3, <1>4, RecordNow, ReplayOverStands
<1>6. replays' = replays /\ replays \subseteq Ids
  BY <1>1 DEF BrowserInv, BrowserTypeOK
<1>7. QED
  BY <1>1, <1>2, <1>5, <1>6, ReplayMovesKeepsInv

(* The first transaction of a replay: 404, 413, or the row and its body.   *)
LEMMA AuthorizeReplayKeepsInv ==
    ASSUME BrowserInv, NEW i \in Ids, NEW include_body \in BOOLEAN,
           AuthorizeReplay(i, include_body)
    PROVE  BrowserInv'
<1>1. /\ UNCHANGED <<client, now, requests, live, listing, stable, export, replays, pages,
                     browseFaults>>
      /\ browseFaults \in 0 .. MaxBrowseFaults /\ replays \subseteq Ids
      /\ replay.pc = "idle"
  BY DEF AuthorizeReplay, BrowserInv, BrowserTypeOK
<1>2. RecordStands(replay, replays) /\ replay \in Replay
  BY RecordNow DEF RecordStands
<1>3. ASSUME NEW told \in {"404", "413"}, ReplayOver(told) PROVE BrowserInv'
  <2>1. replay' = [replay EXCEPT !.pc = "over", !.told = told]
    BY <1>3 DEF ReplayOver
  <2>2. RecordStands(replay', replays)
    BY <1>2, <2>1, ReplayOverStands
  <2>3. QED
    BY <1>1, <2>2, ReplayMovesKeepsInv
<1>4. ASSUME i \in Visible, NEW sent_body \in {"empty", "inline", "blob"},
             replay' = [replay EXCEPT !.pc = "authorized", !.id = i, !.body = sent_body]
      PROVE  BrowserInv'
  <2> DEFINE authorized ==
        [pc |-> "authorized", id |-> i, body |-> sent_body, target |-> replay.target,
         outcome |-> replay.outcome, told |-> replay.told, sent |-> replay.sent]
  <2>1. authorized \in Replay
    BY <1>2 DEF Replay
  <2>2. replay' = authorized
    BY <1>2, <1>4 DEF Replay
  <2>3. PICK a \in Replay : a = authorized
    BY <2>1
  <2>4. /\ a.pc = "authorized" /\ a.id = i /\ a.target = replay.target /\ a.outcome = replay.outcome
        /\ a.told = replay.told /\ a.sent = replay.sent
    BY <2>3
  <2>5. Seen(i)
    BY <1>4 DEF Seen, Visible
  <2>6. RecordStands(a, replays)
    BY <1>1, <1>2, <2>3, <2>4, <2>5 DEF RecordStands
  <2>7. QED
    BY <1>1, <2>2, <2>3, <2>6, ReplayMovesKeepsInv
<1>5. requests[i].body \in BodyClasses
  BY DEF BrowserInv, BrowserTypeOK, Request
<1>6. PICK body \in {"empty", "inline", "blob", "large"} : body = BodyToSend(requests[i].body)
  BY <1>5 DEF BodyToSend, BodyClasses
<1>7. CASE ~live \/ i \notin Visible
  BY <1>3, <1>7 DEF AuthorizeReplay
<1>8. CASE live /\ i \in Visible /\ include_body /\ body = "large"
  BY <1>3, <1>6, <1>8 DEF AuthorizeReplay
<1>9. CASE live /\ i \in Visible /\ ~(include_body /\ body = "large")
  <2>1. PICK sent_body \in {"empty", "inline", "blob"} :
          sent_body = IF include_body THEN body ELSE "empty"
    BY <1>9
  <2>2. replay' = [replay EXCEPT !.pc = "authorized", !.id = i, !.body = sent_body]
    BY <1>6, <1>9, <2>1 DEF AuthorizeReplay
  <2>3. QED
    BY <1>4, <1>9, <2>2
<1>10. QED
  BY <1>7, <1>8, <1>9

(* The verdict on the target, then the request.                            *)
LEMMA ReplaySendsKeepsInv ==
    ASSUME BrowserInv, ValidateReplay \/ SendReplay
    PROVE  BrowserInv'
<1>1. /\ UNCHANGED <<client, now, requests, live, listing, stable, export, replays, pages,
                     browseFaults>>
      /\ browseFaults \in 0 .. MaxBrowseFaults /\ replays \subseteq Ids
  BY DEF ValidateReplay, SendReplay, BrowserInv, BrowserTypeOK
<1>2. RecordStands(replay, replays) /\ replay \in Replay
  BY RecordNow DEF RecordStands
<1>3. ASSUME NEW pc \in {"validated", "sent", "over"}, NEW target \in Targets, NEW sent \in BOOLEAN,
             NEW outcome \in {"none", "answered", "answered_nul", "blocked", "network_error"},
             NEW told \in {"none", "500"},
             replay' = [pc |-> pc, id |-> replay.id, body |-> replay.body, target |-> target,
                        outcome |-> outcome, told |-> told, sent |-> sent],
             pc = "validated" => outcome = "none" /\ ~sent /\ target # "unfit",
             pc # "over" => told = "none", sent => target # "unfit",
             outcome = "blocked" => target = "unfit"
      PROVE  BrowserInv'
  <2>1. replay' \in Replay
    BY <1>2, <1>3 DEF Replay
  <2>2. /\ replay'.pc = pc /\ replay'.id = replay.id /\ replay'.target = target
        /\ replay'.outcome = outcome /\ replay'.told = told /\ replay'.sent = sent
    BY <1>3
  <2>3. RecordStands(replay', replays)
    BY <1>2, <1>3, <2>1, <2>2 DEF RecordStands
  <2>4. QED
    BY <1>1, <2>3, ReplayMovesKeepsInv
<1>4. CASE ValidateReplay
  <2>1. /\ replay.pc = "authorized" /\ replay.outcome = "none" /\ replay.sent = FALSE
        /\ replay.told = "none"
    BY <1>2, <1>4 DEF ValidateReplay, RecordStands, Replay
  <2>2. PICK v \in Validations :
          replay' = CASE v.verdict = "valid" -> [replay EXCEPT !.pc = "validated", !.target = v.target]
                      [] v.verdict = "blocked" ->
                           [replay EXCEPT !.pc = "sent", !.outcome = "blocked", !.target = v.target]
                      [] v.verdict = "raises" ->
                           [replay EXCEPT !.pc = "over", !.told = "500", !.target = v.target]
    BY <1>4 DEF ValidateReplay
  <2>3. /\ v.verdict \in {"valid", "blocked", "raises"} /\ v.target \in Targets
        /\ v.verdict = "valid" => v.target # "unfit"
        /\ v.verdict = "blocked" => v.target = "unfit"
    BY VerdictIsRight
  <2>4. CASE v.verdict = "valid"
    <3>1. replay' = [replay EXCEPT !.pc = "validated", !.target = v.target]
      BY <2>2, <2>4
    <3>2. replay' = [pc |-> "validated", id |-> replay.id, body |-> replay.body, target |-> v.target,
                     outcome |-> "none", told |-> "none", sent |-> FALSE]
      BY <1>2, <2>1, <3>1 DEF Replay
    <3>3. QED
      BY <1>3, <2>3, <2>4, <3>2
  <2>5. CASE v.verdict = "blocked"
    <3>1. replay' = [replay EXCEPT !.pc = "sent", !.outcome = "blocked", !.target = v.target]
      BY <2>2, <2>5
    <3>2. replay' = [pc |-> "sent", id |-> replay.id, body |-> replay.body, target |-> v.target,
                     outcome |-> "blocked", told |-> "none", sent |-> FALSE]
      BY <1>2, <2>1, <3>1 DEF Replay
    <3>3. QED
      BY <1>3, <2>3, <2>5, <3>2
  <2>6. CASE v.verdict = "raises"
    <3>1. replay' = [replay EXCEPT !.pc = "over", !.told = "500", !.target = v.target]
      BY <2>2, <2>6
    <3>2. replay' = [pc |-> "over", id |-> replay.id, body |-> replay.body, target |-> v.target,
                     outcome |-> "none", told |-> "500", sent |-> FALSE]
      BY <1>2, <2>1, <3>1 DEF Replay
    <3>3. QED
      BY <1>3, <2>3, <2>6, <3>2
  <2>7. QED
    BY <2>3, <2>4, <2>5, <2>6
<1>5. CASE SendReplay
  <2>1. replay.pc = "validated" /\ replay.target # "unfit" /\ replay.told = "none"
    BY <1>2, <1>5 DEF SendReplay, RecordStands, Replay
  <2>2. PICK outcome \in Answers :
          replay' = [replay EXCEPT !.pc = "sent", !.outcome = outcome, !.sent = TRUE]
    BY <1>5 DEF SendReplay
  <2>3. replay' = [pc |-> "sent", id |-> replay.id, body |-> replay.body, target |-> replay.target,
                   outcome |-> outcome, told |-> "none", sent |-> TRUE]
    BY <1>2, <2>1, <2>2 DEF Replay
  <2>4. replay.target \in Targets
    BY <1>2 DEF Replay
  <2>5. outcome \in {"answered", "answered_nul", "network_error"}
    BY <2>2 DEF Answers
  <2>6. QED
    BY <1>3, <2>1, <2>3, <2>4, <2>5
<1>6. QED
  BY <1>4, <1>5

(* The second transaction of a replay stores it, or answers 500.           *)
LEMMA RecordReplayKeepsInv ==
    ASSUME BrowserInv, RecordReplay
    PROVE  BrowserInv'
<1>1. /\ UNCHANGED <<client, now, requests, live, listing, stable, export, pages, browseFaults>>
      /\ browseFaults \in 0 .. MaxBrowseFaults /\ replays \subseteq Ids
      /\ replay.pc = "sent"
  BY DEF RecordReplay, BrowserInv, BrowserTypeOK
<1>2. RecordStands(replay, replays) /\ replay \in Replay
  BY RecordNow DEF RecordStands
<1>3. CASE CanSave
  <2>1. /\ replays' = replays \cup {replay.id} /\ replay' = [replay EXCEPT !.pc = "recorded"]
        /\ replay.id \in Visible
    BY <1>3 DEF RecordReplay, CanSave
  <2>2. replays' \subseteq Ids
    BY <1>1, <2>1 DEF Visible
  <2>3. replay' = [pc |-> "recorded", id |-> replay.id, body |-> replay.body, target |-> replay.target,
                   outcome |-> replay.outcome, told |-> replay.told, sent |-> replay.sent]
    BY <1>2, <2>1 DEF Replay
  <2>4. replay' \in Replay
    BY <1>2, <2>3 DEF Replay
  <2>5. /\ replay'.pc = "recorded" /\ replay'.id = replay.id /\ replay'.target = replay.target
        /\ replay'.outcome = replay.outcome /\ replay'.told = replay.told
        /\ replay'.sent = replay.sent
    BY <2>3
  <2>6. RecordStands(replay', replays')
    BY <1>1, <1>2, <2>1, <2>4, <2>5 DEF RecordStands
  <2>7. QED
    BY <1>1, <2>2, <2>6, ReplayMovesKeepsInv
<1>4. CASE ~CanSave
  <2>1. replays' = replays /\ replay' = [replay EXCEPT !.pc = "over", !.told = "500"]
    BY <1>4 DEF RecordReplay, ReplayOver
  <2>2. RecordStands(replay', replays)
    BY <1>2, <2>1, ReplayOverStands
  <2>3. QED
    BY <1>1, <2>1, <2>2, ReplayMovesKeepsInv
<1>5. QED
  BY <1>3, <1>4

(* Every step of the client and of what changes under it.                  *)
LEMMA BrowseNextKeepsInv == BrowserInv /\ [BrowseNext]_browseVars => BrowserInv'
<1> SUFFICES ASSUME BrowserInv, [BrowseNext]_browseVars PROVE BrowserInv'
  OBVIOUS
<1>1. CASE BrowseNext
  <2>1. CASE ListRequests \/ ListForwards
    BY <2>1, ListPageKeepsInv DEF ListRequests, ListForwards
  <2>2. CASE ~(ListRequests \/ ListForwards)
    BY <1>1, <2>2, PassTimeKeepsInv, CaptureArrivesKeepsInv, OneRowChangesKeepsInv,
       DeleteEndpointKeepsInv, ExportKeepsInv, ReplayEndsKeepsInv, AuthorizeReplayKeepsInv,
       ReplaySendsKeepsInv, RecordReplayKeepsInv DEF BrowseNext
  <2>3. QED
    BY <2>1, <2>2
<1>2. CASE UNCHANGED browseVars
  <2>1. BrowserTypeOK'
    BY <1>2 DEF browseVars, BrowserInv, BrowserTypeOK
  <2>2. QED
    BY <1>2, <2>1, RowsStay DEF browseVars, BrowserInv
<1>3. QED
  BY <1>1, <1>2

-----------------------------------------------------------------------------
(* The two scenes together.                                                *)

ConsoleInv == ConfigInv /\ BrowserInv

(* A step is one of a scene, and leaves the other's state alone.           *)
LEMMA StepsOfScenes ==
    ASSUME [Next]_vars
    PROVE  /\ ConfigNext \/ UNCHANGED configVars
           /\ BrowseNext \/ UNCHANGED browseVars
BY DEF Next, vars, configVars, browseVars

(* models.py:9-104 and the handlers of the web process: what each row, and *)
(* each client half way through its request, relies on.                    *)
THEOREM ConsoleInvariant == Spec => []ConsoleInv
<1>1. Init => ConsoleInv
  BY InitConfig, InitBrowser DEF Init, ConsoleInv
<1>2. ConsoleInv /\ [Next]_vars => ConsoleInv'
  <2> SUFFICES ASSUME ConsoleInv, [Next]_vars PROVE ConsoleInv'
    OBVIOUS
  <2>1. ConfigInv'
    BY StepsOfScenes, ConfigNextKeepsInv DEF ConsoleInv
  <2>2. BrowserInv'
    BY StepsOfScenes, BrowseNextKeepsInv DEF ConsoleInv
  <2>3. QED
    BY <2>1, <2>2 DEF ConsoleInv
<1>3. QED
  BY <1>1, <1>2, PTL DEF Spec

(* The rows keep the shape that models.py:9-104 gives them.                *)
THEOREM ConsoleWellTyped == Spec => []TypeOK
<1>1. ConsoleInv => TypeOK
  BY DEF ConsoleInv, ConfigInv, BrowserInv, TypeOK
<1>2. QED
  BY <1>1, ConsoleInvariant, PTL

(* abuse_scan.py:90-115: an alert names endpoints whose flag is committed, *)
(* or which the cleaner deleted under the scan.                            *)
THEOREM AlertsNameFlaggedEndpoints == Spec => []AlertedWasFlagged
<1>1. ConsoleInv => AlertedWasFlagged
  BY DEF ConsoleInv, ConfigInv
<1>2. QED
  BY <1>1, ConsoleInvariant, PTL

(* endpoint_repository.py:18-43: a row leaves its slug only by deletion,   *)
(* whoever creates under it meanwhile.                                     *)
THEOREM NoSlugIsTakenOver == Spec => NeverTakenOver
<1>1. ConsoleInv /\ [Next]_vars
        => [\A s \in Slugs : (Exists(s) /\ endpoints'[s].id # endpoints[s].id)
                               => endpoints'[s] = NoRow]_configVars
  <2> SUFFICES ASSUME ConsoleInv, [Next]_vars, NEW s \in Slugs, ~UNCHANGED configVars,
                      Exists(s), endpoints'[s].id # endpoints[s].id
               PROVE  endpoints'[s] = NoRow
    OBVIOUS
  <2>1. QED
    BY StepsOfScenes, StepTakesNoSlug DEF ConsoleInv
<1>2. QED
  BY <1>1, ConsoleInvariant, PTL DEF Spec, NeverTakenOver

(* update_endpoint_config.py:23-42: what a PATCH does not name survives    *)
(* it, when it writes over the row that it read.                           *)
THEOREM UnnamedSettingsSurvive == Spec => SettingsSurvive
<1> DEFINE Keeps(o) ==
      LET slug == owner[o].slug
          patch == owner[o].patch
      IN (owner[o].pc = "answered" /\ owner'[o].pc = "idle"
          /\ endpoints' # endpoints
          /\ owner[o].row = endpoints[slug]) =>
         /\ endpoints'[slug].flagged = endpoints[slug].flagged
         /\ patch.signature = None =>
              endpoints'[slug].settings.signature = endpoints[slug].settings.signature
         /\ patch.forward = None =>
              [endpoints'[slug].settings EXCEPT !.signature = None]
                = [endpoints[slug].settings EXCEPT !.signature = None]
         /\ endpoints[slug].settings.forward_secret # None =>
              endpoints'[slug].settings.forward_secret # None
<1>1. ConsoleInv /\ [Next]_vars => [\A o \in Owners : Keeps(o)]_configVars
  <2> SUFFICES ASSUME ConsoleInv, [Next]_vars, NEW o \in Owners, ~UNCHANGED configVars
               PROVE  Keeps(o)
    OBVIOUS
  <2>1. ConfigInv /\ ConfigNext
    BY StepsOfScenes DEF ConsoleInv
  <2>2. CASE owner[o].pc = "answered" /\ owner'[o].pc = "idle" /\ endpoints' # endpoints
             /\ owner[o].row = endpoints[owner[o].slug]
    <3>1. CommitConfig(o)
      BY <2>1, <2>2, EndingCommits
    <3>2. QED
      BY <2>1, <2>2, <3>1, CommitKeepsSettings
  <2>3. QED
    BY <2>2
<1>2. QED
  BY <1>1, ConsoleInvariant, PTL DEF Spec, SettingsSurvive

(* request_repository.py:52-87 and forward_repository.py:116-150: the      *)
(* pages of a listing make up what matched all along, once each, newest    *)
(* first.                                                                  *)
THEOREM ListingsAreComplete == Spec => []PagesComplete
<1>1. ConsoleInv => PagesComplete
  BY DEF ConsoleInv, BrowserInv
<1>2. QED
  BY <1>1, ConsoleInvariant, PTL

(* export_requests.py:33-77: an export sends the newest requests first, up *)
(* to the cap; one that does not break off has at least the rows its       *)
(* header declares, unless the endpoint was deleted in between.            *)
THEOREM ExportsAreAsDeclared == Spec => []ExportAsDeclared
<1>1. ConsoleInv => ExportAsDeclared
  BY DEF ConsoleInv, BrowserInv
<1>2. QED
  BY <1>1, ConsoleInvariant, PTL

(* replay_request.py:106-156: a replay that is told is stored.             *)
THEOREM ToldReplaysAreStored == Spec => []ToldReplayIsStored
<1>1. ConsoleInv => ToldReplayIsStored
  BY DEF ConsoleInv, BrowserInv
<1>2. QED
  BY <1>1, ConsoleInvariant, PTL

(* safe_replay_target.py:82-114: nothing is sent where README.md:198 says  *)
(* a replay is refused, but to shared address space (100.64.0.0/10), which *)
(* the guard lets pass; and only what is unfit is refused.                 *)
THEOREM ReplaysGoToFitTargets == Spec => []OnlyFitIsSent
<1>1. ConsoleInv => OnlyFitIsSent
  BY DEF ConsoleInv, BrowserInv
<1>2. QED
  BY <1>1, ConsoleInvariant, PTL
==============================================================================
