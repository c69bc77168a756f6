-------------------------- MODULE CopyRegistry_proofs --------------------------
(***************************************************************************)
(* Proofs about CopyRegistry, for any requests, exchanges and edits.        *)
(***************************************************************************)
EXTENDS CopyRegistry, TLAPS

-----------------------------------------------------------------------------
(* Types.                                                                   *)

Verdict == [Columns -> {"PENDING", "VERIFIED", "FAILED"}]
Row == [state : {"there", "deleted"}, status : {"ACTIVE", "PAUSED"},
        exchange : AllExchanges, env : {"testnet", "live"}, margin : {1, 2}, key : {"good", "bad"},
        passphrase : BOOLEAN, scope : BOOLEAN, verdict : Verdict]
Route == [state : {"there"}, enabled : BOOLEAN, status : {"ACTIVE", "PAUSED"},
          mode : Modes, verdict : {"VERIFIED", "FAILED"}]
Validation == [state : {"validating"}, kind : Kinds, loaded : Verdict,
               exchange : AllExchanges, key : {"good", "bad"}, passphrase : BOOLEAN]
Creation == [state : {"creating"}, new : Route]
Update == [state : {"updating"}, loaded : Route, new : Route,
           reports : [Modes -> {"VERIFIED", "FAILED"}]]

RegistryTypes ==
    /\ row \in [Kinds -> Row \cup {None}]
    /\ route \in Route \cup {None}
    /\ session \in [Sessions -> Validation \cup Creation \cup Update \cup {None}]
    /\ judged \subseteq {"VERIFIED", "FAILED"}
    /\ edits \in Nat

(* The columns of a verdict that agree, in every row and in what every      *)
(* request has loaded: a request writes the columns in which two such        *)
(* verdicts differ, so columns that agree in both are written together.     *)

Agrees(k, v) ==
    /\ v["ready"] = v["validation"] /\ v["credential"] = v["validation"]
    /\ v["connectivity"] = v["permission"]
    /\ "OKX" \notin ExchangesOf(k) => v["permission"] = v["validation"]

VerdictsAgree ==
    /\ \A k \in Kinds : There(row[k]) =>
          Agrees(k, row[k].verdict) /\ row[k].exchange \in ExchangesOf(k)
    /\ \A w \in Sessions : session[w].state = "validating" =>
          /\ Agrees(session[w].kind, session[w].loaded)
          /\ session[w].exchange \in ExchangesOf(session[w].kind)

(* An account that was only ever refused reads FAILED, and a request that    *)
(* loaded its row before or since can only write FAILED again.              *)

RefusalsStay ==
    /\ row["follower"].state = "none" => judged = {}
    /\ There(row["follower"]) =>
          /\ judged = {} => row["follower"].verdict["validation"] = "PENDING"
          /\ judged = {"FAILED"} => row["follower"].verdict["validation"] = "FAILED"
    /\ \A w \in Sessions :
          session[w].state = "validating" /\ session[w].kind = "follower" =>
             /\ judged = {} => session[w].loaded["validation"] = "PENDING"
             /\ judged = {"FAILED"} => session[w].loaded["validation"] \in {"PENDING", "FAILED"}
    /\ listed.state = "listed" =>
          /\ listed = [state |-> listed.state, there |-> listed.there, scope |-> listed.scope,
                       status |-> listed.status, validation |-> listed.validation,
                       judged |-> listed.judged]
          /\ listed.there /\ listed.judged = {"FAILED"} => listed.validation = "FAILED"
    /\ RefusedAccountsRest

(* While no row is edited, every report a request has made or will write is  *)
(* the one of its mode.                                                     *)

Report(m) == ValidateCopyTrade(m, row["source"], row["follower"])
ReportsHold ==
    edits = 0 =>
        /\ There(route) => route.verdict = Report(route.mode)
        /\ \A w \in Sessions :
              /\ session[w].state = "creating" =>
                    session[w].new.verdict = Report(session[w].new.mode)
              /\ session[w].state = "updating" =>
                    \A m \in Modes : session[w].reports[m] = Report(m)
        /\ There(route) \/ (\E w \in Sessions : session[w].state \in {"creating", "updating"}) =>
              \A k \in Kinds : row[k].state # "none"

RegistryInv == RegistryTypes /\ VerdictsAgree /\ RefusalsStay /\ ReportsHold

-----------------------------------------------------------------------------
(* What the types say of a row, a route and a request.                      *)

LEMMA RowTypes ==
    ASSUME RegistryTypes, NEW k \in Kinds
    PROVE  /\ row[k] = None \/ row[k] \in Row
           /\ row[k].state \in {"none", "there", "deleted"}
           /\ There(row[k]) => row[k] \in Row
           /\ row[k].state # "none" => row[k] \in Row
  BY DEF RegistryTypes, Row, None, There

LEMMA SessionTypes ==
    ASSUME RegistryTypes, NEW w \in Sessions
    PROVE  /\ session[w].state \in {"none", "validating", "creating", "updating"}
           /\ session[w].state = "validating" => session[w] \in Validation
           /\ session[w].state = "creating" => session[w] \in Creation
           /\ session[w].state = "updating" => session[w] \in Update
<1>1. session[w] \in Validation \cup Creation \cup Update \cup {None}
  BY DEF RegistryTypes
<1> QED
  BY <1>1 DEF Validation, Creation, Update, None

LEMMA ReportTypes ==
    ASSUME NEW m \in Modes PROVE Report(m) \in {"VERIFIED", "FAILED"}
  BY DEF Report, ValidateCopyTrade

LEMMA ExchangesAreKnown ==
    ASSUME NEW k \in Kinds PROVE ExchangeOf[k] \in ExchangesOf(k) /\ ExchangesOf(k) \subseteq AllExchanges
  BY ExchangesKnown DEF ExchangesKnown, ExchangesOf, Kinds

LEMMA NewRowIsRow ==
    ASSUME NEW k \in Kinds
    PROVE  /\ NewRow(k) \in Row /\ Agrees(k, NewRow(k).verdict)
           /\ NewRow(k).exchange \in ExchangesOf(k)
<1>1. All("PENDING") \in Verdict /\ \A c \in Columns : All("PENDING")[c] = "PENDING"
  BY DEF All, Verdict
<1>2. NewRow(k).verdict = All("PENDING") /\ NewRow(k).exchange = ExchangeOf[k]
  BY DEF NewRow
<1> QED
  BY <1>1, <1>2, ExchangesAreKnown DEF NewRow, Row, Agrees, Columns

\* What a validation concludes is one verdict, and never an open one.
LEMMA VerdictsAreOne ==
    ASSUME NEW s \in Validation, s.exchange \in ExchangesOf(s.kind), NEW v \in Verdicts(s)
    PROVE  v \in Verdict /\ Agrees(s.kind, v) /\ v["validation"] \in {"VERIFIED", "FAILED"}
<1>1. CASE s.exchange = "OKX" /\ ~ s.passphrase
  <2>1. v = [c \in Columns |-> IF c \in {"permission", "connectivity"} THEN "PENDING" ELSE "FAILED"]
    BY <1>1 DEF Verdicts
  <2> QED
    BY <1>1, <2>1 DEF Verdict, Agrees, Columns
<1>2. CASE ~ (s.exchange = "OKX" /\ ~ s.passphrase)
  <2>1. PICK a : v = All(IF Validates(s.exchange, a) THEN "VERIFIED" ELSE "FAILED")
    BY <1>2 DEF Verdicts
  <2>2. v = All("VERIFIED") \/ v = All("FAILED")
    BY <2>1
  <2> QED
    BY <2>2 DEF All, Verdict, Agrees, Columns
<1> QED
  BY <1>1, <1>2

\* Columns that agree in the row, in what was loaded and in the new verdict agree in
\* the row that is written: a column is written when its two verdicts differ.
LEMMA WrittenAgrees ==
    ASSUME NEW k \in Kinds, NEW now \in Verdict, NEW loaded \in Verdict, NEW new \in Verdict,
           Agrees(k, now), Agrees(k, loaded), Agrees(k, new)
    PROVE  /\ Written(now, loaded, new) \in Verdict
           /\ Agrees(k, Written(now, loaded, new))
           /\ Written(now, loaded, new)["validation"] =
                 IF new["validation"] # loaded["validation"] THEN new["validation"]
                 ELSE now["validation"]
<1>1. DOMAIN now = Columns
  BY DEF Verdict
<1>2. /\ Written(now, loaded, new) \in Verdict
      /\ \A c \in Columns : Written(now, loaded, new)[c] =
                               IF new[c] # loaded[c] THEN new[c] ELSE now[c]
  BY <1>1 DEF Written, Verdict
<1> QED
  BY <1>2 DEF Agrees, Columns

-----------------------------------------------------------------------------
(* The invariant holds at the start and is kept by every step.              *)

LEMMA RegistryInitHolds == RegistryInit => RegistryInv
<1> SUFFICES ASSUME RegistryInit PROVE RegistryInv
  OBVIOUS
<1>1. /\ row = [k \in Kinds |-> None] /\ route = None /\ session = [v \in Sessions |-> None]
      /\ listed = None /\ edits = 0 /\ judged = {}
  BY DEF RegistryInit
<1>2. None.state = "none"
  BY DEF None
<1>3. \A k \in Kinds : row[k].state = "none"
  BY <1>1, <1>2
<1>4. \A w \in Sessions : session[w].state = "none"
  BY <1>1, <1>2
<1> QED
  BY <1>1, <1>2, <1>3, <1>4 DEF RegistryInv, RegistryTypes, VerdictsAgree, RefusalsStay,
     RefusedAccountsRest, ReportsHold, There, Kinds

LEMMA CreateKeeps ==
    ASSUME RegistryInv, NEW k \in Kinds, Create(k) PROVE RegistryInv'
<1>1. PICK f \in Fields :
         row' = [row EXCEPT ![k] = [NewRow(k) EXCEPT !.env = f.env, !.margin = f.margin, !.key = f.key]]
  BY DEF Create
<1> DEFINE r == [NewRow(k) EXCEPT !.env = f.env, !.margin = f.margin, !.key = f.key]
<1>2. /\ r \in Row /\ r.state = "there" /\ r.verdict = NewRow(k).verdict
      /\ r.exchange = NewRow(k).exchange
  BY NewRowIsRow DEF Row, Fields, NewRow
<1>3. /\ row[k].state = "none" /\ UNCHANGED <<route, session, listed, edits, judged>>
      /\ RegistryTypes /\ VerdictsAgree /\ RefusalsStay /\ ReportsHold
  BY DEF Create, RegistryInv
<1> HIDE DEF r
<1>4. row'[k] = r /\ \A q \in Kinds \ {k} : row'[q] = row[q]
  BY <1>1, <1>3 DEF RegistryTypes, r
<1>5. RegistryTypes'
  BY <1>1, <1>2, <1>3 DEF RegistryTypes, r
<1>6. VerdictsAgree'
  BY <1>2, <1>3, <1>4, NewRowIsRow DEF VerdictsAgree, Agrees
<1>7. RefusalsStay'
  <2>1. NewRow(k).verdict["validation"] = "PENDING"
    BY DEF NewRow, All, Columns
  <2>2. CASE k = "follower"
    BY <1>2, <1>3, <1>4, <2>1, <2>2 DEF RefusalsStay, RefusedAccountsRest, There
  <2>3. CASE k # "follower"
    BY <1>3, <1>4, <2>3 DEF RefusalsStay, RefusedAccountsRest, There, Kinds
  <2> QED
    BY <2>2, <2>3
<1>8. ReportsHold'
  <2> SUFFICES ASSUME edits' = 0 PROVE ReportsHold'
    BY DEF ReportsHold
  <2>1. ~ There(route) /\ \A w \in Sessions : session[w].state \notin {"creating", "updating"}
    BY <1>3 DEF ReportsHold
  <2> QED
    BY <1>3, <2>1 DEF ReportsHold
<1> QED
  BY <1>5, <1>6, <1>7, <1>8 DEF RegistryInv

\* A step that changes columns of a row other than those the invariant speaks of.
LEMMA RowChangeKeeps ==
    ASSUME RegistryInv, NEW k \in Kinds, There(row[k]), NEW r \in Row,
           row' = [row EXCEPT ![k] = r], r.verdict = row[k].verdict, r.exchange \in ExchangesOf(k),
           edits' \in Nat, edits' = 0 => edits = 0 /\ r.env = row[k].env /\ r.margin = row[k].margin,
           UNCHANGED <<route, session, listed, judged>>
    PROVE  RegistryInv'
<1>1. RegistryTypes /\ VerdictsAgree /\ RefusalsStay /\ ReportsHold
  BY DEF RegistryInv
<1>2. row'[k] = r /\ \A q \in Kinds \ {k} : row'[q] = row[q]
  BY <1>1 DEF RegistryTypes
<1>3. \A q \in Kinds : /\ There(row'[q]) => There(row[q])
                       /\ row'[q].state = "none" <=> row[q].state = "none"
                       /\ row[q].state # "none" => row'[q].verdict = row[q].verdict
  BY <1>1, <1>2 DEF There, Row
<1>4. RegistryTypes'
  BY <1>1 DEF RegistryTypes
<1>5. VerdictsAgree'
  BY <1>1, <1>2, <1>3 DEF VerdictsAgree, There, Agrees
<1>6. RefusalsStay'
  BY <1>1, <1>3 DEF RefusalsStay, RefusedAccountsRest, There, Kinds
<1>7. ReportsHold'
  <2> SUFFICES ASSUME edits' = 0 PROVE ReportsHold'
    BY DEF ReportsHold
  <2>1. \A q \in Kinds : row'[q].env = row[q].env /\ row'[q].margin = row[q].margin
    BY <1>2
  <2>2. \A m \in Modes : Report(m)' = Report(m)
    BY <2>1 DEF Report, ValidateCopyTrade, Kinds
  <2>3. There(route) => route.mode \in Modes
    BY <1>1 DEF RegistryTypes, Route, None, There
  <2>4. \A w \in Sessions : session[w].state = "creating" => session[w].new.mode \in Modes
    BY <1>1, SessionTypes DEF Creation, Route
  <2> QED
    BY <1>1, <1>3, <2>2, <2>3, <2>4 DEF ReportsHold, There
<1> QED
  BY <1>4, <1>5, <1>6, <1>7 DEF RegistryInv

LEMMA EditKeeps ==
    ASSUME RegistryInv, NEW k \in Kinds, Edit(k) PROVE RegistryInv'
<1>1. PICK f \in Fields :
         /\ row' = [row EXCEPT ![k] =
                       [x \in DOMAIN row[k] |-> IF x \in DOMAIN f THEN f[x] ELSE row[k][x]]]
         /\ f.exchange \in ExchangesOf(k)
  BY DEF Edit
<1> DEFINE r == [x \in DOMAIN row[k] |-> IF x \in DOMAIN f THEN f[x] ELSE row[k][x]]
<1>2. /\ There(row[k]) /\ row[k] \in Row /\ edits \in Nat
      /\ edits' = edits + 1 /\ UNCHANGED <<route, session, listed, judged>>
  BY RowTypes DEF Edit, RegistryInv, RegistryTypes
<1>3. r \in Row /\ r.verdict = row[k].verdict /\ r.exchange = f.exchange
  BY <1>2, ExchangesAreKnown DEF Row, Fields, Kinds
<1> HIDE DEF r
<1>4. edits' \in Nat /\ edits' # 0
  BY <1>2
<1> QED
  BY <1>1, <1>2, <1>3, <1>4, RowChangeKeeps DEF r

LEMMA SetStatusKeeps ==
    ASSUME RegistryInv, NEW status \in {"ACTIVE", "PAUSED"}, SetStatus(status) PROVE RegistryInv'
<1> DEFINE r == [row["follower"] EXCEPT !.status = status]
<1>1. /\ There(row["follower"]) /\ row["follower"] \in Row /\ edits \in Nat /\ "follower" \in Kinds
      /\ row' = [row EXCEPT !["follower"] = r]
      /\ edits' = edits /\ UNCHANGED <<route, session, listed, judged>>
  BY RowTypes DEF SetStatus, RegistryInv, RegistryTypes, Kinds
<1>2. /\ r \in Row /\ r.verdict = row["follower"].verdict
      /\ r.env = row["follower"].env /\ r.margin = row["follower"].margin
      /\ r.exchange \in ExchangesOf("follower")
  BY <1>1 DEF Row, RegistryInv, VerdictsAgree
<1> HIDE DEF r
<1> QED
  BY <1>1, <1>2, RowChangeKeeps

LEMMA DeleteKeeps ==
    ASSUME RegistryInv, NEW k \in Kinds, Delete(k) PROVE RegistryInv'
<1> DEFINE r == [row[k] EXCEPT !.state = "deleted"]
<1>1. /\ There(row[k]) /\ row[k] \in Row /\ edits \in Nat
      /\ row' = [row EXCEPT ![k] = r]
      /\ edits' = edits /\ UNCHANGED <<route, session, listed, judged>>
  BY RowTypes DEF Delete, RegistryInv, RegistryTypes
<1>2. /\ r \in Row /\ r.verdict = row[k].verdict /\ r.env = row[k].env /\ r.margin = row[k].margin
      /\ r.exchange \in ExchangesOf(k)
  BY <1>1 DEF Row, RegistryInv, VerdictsAgree
<1> HIDE DEF r
<1> QED
  BY <1>1, <1>2, RowChangeKeeps

\* A request that begins, or ends without writing, with what it loaded.
LEMMA SessionChangeKeeps ==
    ASSUME RegistryInv, NEW v \in Sessions,
           NEW s \in Validation \cup Creation \cup Update \cup {None},
           session' = [session EXCEPT ![v] = s],
           UNCHANGED <<row, route, listed, edits, judged>>,
           s.state = "validating" =>
              /\ Agrees(s.kind, s.loaded) /\ s.exchange \in ExchangesOf(s.kind)
              /\ s.kind = "follower" /\ judged = {} => s.loaded["validation"] = "PENDING"
              /\ s.kind = "follower" /\ judged = {"FAILED"} =>
                    s.loaded["validation"] \in {"PENDING", "FAILED"},
           edits = 0 => /\ s.state = "creating" => s.new.verdict = Report(s.new.mode)
                        /\ s.state = "updating" => \A m \in Modes : s.reports[m] = Report(m)
                        /\ s.state \in {"creating", "updating"} =>
                              \A k \in Kinds : row[k].state # "none"
    PROVE  RegistryInv'
<1>1. RegistryTypes /\ VerdictsAgree /\ RefusalsStay /\ ReportsHold
  BY DEF RegistryInv
<1>2. session'[v] = s /\ \A w \in Sessions \ {v} : session'[w] = session[w]
  BY <1>1 DEF RegistryTypes
<1>3. RegistryTypes'
  BY <1>1 DEF RegistryTypes
<1>4. VerdictsAgree'
  BY <1>1, <1>2 DEF VerdictsAgree, Agrees
<1>5. RefusalsStay'
  BY <1>1, <1>2 DEF RefusalsStay, RefusedAccountsRest
<1>6. ReportsHold'
  <2> SUFFICES ASSUME edits' = 0 PROVE ReportsHold'
    BY DEF ReportsHold
  <2>1. \A m : Report(m)' = Report(m)
    BY DEF Report, ValidateCopyTrade
  <2> QED
    BY <1>1, <1>2, <2>1 DEF ReportsHold
<1> QED
  BY <1>3, <1>4, <1>5, <1>6 DEF RegistryInv

LEMMA BeginValidationKeeps ==
    ASSUME RegistryInv, NEW v \in Sessions, NEW k \in Kinds, BeginValidation(v, k)
    PROVE  RegistryInv'
<1> DEFINE s == [state |-> "validating", kind |-> k, loaded |-> row[k].verdict,
                 exchange |-> row[k].exchange, key |-> row[k].key, passphrase |-> row[k].passphrase]
<1>1. /\ There(row[k]) /\ row[k] \in Row
      /\ session' = [session EXCEPT ![v] = s]
      /\ UNCHANGED <<row, route, listed, edits, judged>>
  BY RowTypes DEF BeginValidation, rowVars, RegistryInv
<1>2. /\ s \in Validation /\ s.kind = k /\ s.loaded = row[k].verdict /\ s.state = "validating"
      /\ s.exchange = row[k].exchange
  BY <1>1 DEF Validation, Row
<1>3. /\ Agrees(k, row[k].verdict) /\ row[k].exchange \in ExchangesOf(k)
      /\ k = "follower" /\ judged = {} => row[k].verdict["validation"] = "PENDING"
      /\ k = "follower" /\ judged = {"FAILED"} => row[k].verdict["validation"] = "FAILED"
  BY <1>1 DEF RegistryInv, VerdictsAgree, RefusalsStay
<1> HIDE DEF s
<1> QED
  BY <1>1, <1>2, <1>3, SessionChangeKeeps

LEMMA BeginRouteKeeps ==
    ASSUME RegistryInv, NEW v \in Sessions, NEW mode \in Modes, NEW enabled \in BOOLEAN,
           BeginRoute(v, mode, enabled)
    PROVE  RegistryInv'
<1> DEFINE s == [state |-> "creating",
                 new |-> [state |-> "there", enabled |-> enabled,
                          status |-> IF enabled THEN "ACTIVE" ELSE "PAUSED",
                          mode |-> mode, verdict |-> Reports[mode]]]
<1>1. /\ There(row["source"]) /\ There(row["follower"])
      /\ session' = [session EXCEPT ![v] = s]
      /\ UNCHANGED <<row, route, listed, edits, judged>>
  BY DEF BeginRoute, rowVars
<1>2. Reports[mode] = Report(mode)
  BY DEF Reports, Report
<1>3. /\ s \in Creation /\ s.new.verdict = Report(mode) /\ s.new.mode = mode
      /\ s.state = "creating"
  BY <1>2, ReportTypes DEF Creation, Route
<1>4. \A k \in Kinds : row[k].state # "none"
  BY <1>1 DEF Kinds, There
<1> HIDE DEF s
<1> QED
  BY <1>1, <1>3, <1>4, SessionChangeKeeps

LEMMA BeginUpdateRouteKeeps ==
    ASSUME RegistryInv, NEW v \in Sessions, NEW field \in DOMAIN RouteValues,
           NEW value \in RouteValues[field], BeginUpdateRoute(v, field, value)
    PROVE  RegistryInv'
<1> DEFINE s == [state |-> "updating", loaded |-> route, reports |-> Reports,
                 new |-> [route EXCEPT ![field] = value]]
<1>1. /\ There(route) /\ route \in Route
      /\ session' = [session EXCEPT ![v] = s]
      /\ UNCHANGED <<row, route, listed, edits, judged>>
  BY DEF BeginUpdateRoute, rowVars, RegistryInv, RegistryTypes, There, None
<1>2. Reports \in [Modes -> {"VERIFIED", "FAILED"}] /\ \A m \in Modes : Reports[m] = Report(m)
  BY ReportTypes DEF Reports, Report
<1>3. [route EXCEPT ![field] = value] \in Route
  <2>1. CASE field = "enabled"
    BY <1>1, <2>1 DEF Route, RouteValues
  <2>2. CASE field = "mode"
    BY <1>1, <2>2 DEF Route, RouteValues
  <2>3. CASE field = "status"
    BY <1>1, <2>3 DEF Route, RouteValues
  <2> QED
    BY <2>1, <2>2, <2>3 DEF RouteValues
<1>4. s \in Update /\ s.state = "updating" /\ s.reports = Reports
  BY <1>1, <1>2, <1>3 DEF Update
<1>5. edits = 0 => \A k \in Kinds : row[k].state # "none"
  BY <1>1 DEF RegistryInv, ReportsHold
<1> HIDE DEF s
<1> QED
  BY <1>1, <1>2, <1>4, <1>5, SessionChangeKeeps

\* The verdict is written into the row as it is now: the columns that agree go on
\* agreeing, and where there was only a refusal a refusal stays.
LEMMA CommitValidationKeeps ==
    ASSUME RegistryInv, NEW v \in Sessions, CommitValidation(v) PROVE RegistryInv'
<1> DEFINE s == session[v]
           k == s.kind
<1>1. /\ RegistryTypes /\ VerdictsAgree /\ RefusalsStay /\ ReportsHold
      /\ s \in Validation /\ s.state = "validating" /\ k \in Kinds /\ Agrees(k, s.loaded)
      /\ s.exchange \in ExchangesOf(k)
      /\ session' = [session EXCEPT ![v] = None]
      /\ UNCHANGED <<route, listed, edits>>
  BY SessionTypes DEF RegistryInv, CommitValidation, Finish, Validation, VerdictsAgree
<1>2. None.state = "none" /\ None \in Validation \cup Creation \cup Update \cup {None}
  BY DEF None
<1>3. CASE ~ There(row[k])
  <2>1. UNCHANGED <<row, judged>>
    BY <1>3 DEF CommitValidation
  <2> QED
    BY <1>1, <1>2, <2>1, SessionChangeKeeps
<1>4. CASE There(row[k])
  <2>1. PICK new \in Verdicts(s) :
           /\ row' = UpdateValidation(k, s.loaded, new)
           /\ judged' = IF k = "follower" THEN judged \cup {new["validation"]} ELSE judged
    BY <1>4 DEF CommitValidation
  <2> DEFINE w == Written(row[k].verdict, s.loaded, new)
             r == [row[k] EXCEPT !.verdict = w]
  <2>2. /\ new \in Verdict /\ Agrees(k, new) /\ new["validation"] \in {"VERIFIED", "FAILED"}
    BY <1>1, VerdictsAreOne
  <2>3. row[k] \in Row /\ row[k].verdict \in Verdict /\ s.loaded \in Verdict
        /\ Agrees(k, row[k].verdict) /\ row[k].exchange \in ExchangesOf(k)
    BY <1>1, <1>4, RowTypes DEF Row, Validation, VerdictsAgree
  <2>4. /\ w \in Verdict /\ Agrees(k, w)
        /\ w["validation"] = IF new["validation"] # s.loaded["validation"] THEN new["validation"]
                             ELSE row[k].verdict["validation"]
    BY <1>1, <2>2, <2>3, WrittenAgrees
  <2>5. row' = [row EXCEPT ![k] = r]
    BY <2>1 DEF UpdateValidation
  <2> HIDE DEF w
  <2>6. /\ r \in Row /\ r.verdict = w /\ r.state = "there"
        /\ r.env = row[k].env /\ r.margin = row[k].margin /\ r.exchange \in ExchangesOf(k)
    BY <1>4, <2>3, <2>4 DEF Row, There
  <2> HIDE DEF r
  <2>7. row'[k] = r /\ \A q \in Kinds \ {k} : row'[q] = row[q]
    BY <1>1, <2>5 DEF RegistryTypes
  <2>8. session'[v] = None /\ \A u \in Sessions \ {v} : session'[u] = session[u]
    BY <1>1 DEF RegistryTypes
  <2>9. RegistryTypes'
    BY <1>1, <2>1, <2>2, <2>5, <2>6 DEF RegistryTypes
  <2>10. VerdictsAgree'
    BY <1>1, <1>2, <2>4, <2>6, <2>7, <2>8 DEF VerdictsAgree, Agrees
  <2>11. RefusalsStay'
    <3>1. CASE k # "follower"
      <4>1. judged' = judged /\ row'["follower"] = row["follower"]
        BY <2>1, <2>7, <3>1 DEF Kinds
      <4> QED
        BY <1>1, <1>2, <2>8, <4>1 DEF RefusalsStay, RefusedAccountsRest
    <3>2. CASE k = "follower"
      <4>1. /\ judged' = judged \cup {new["validation"]} /\ judged' # {}
            /\ row'["follower"] = r
        BY <2>1, <2>7, <3>2
      <4>2. judged' = {"FAILED"} => new["validation"] = "FAILED" /\ judged \in {{}, {"FAILED"}}
        BY <4>1
      <4>3. judged' = {"FAILED"} => w["validation"] = "FAILED"
        BY <1>1, <1>4, <2>4, <3>2, <4>2 DEF RefusalsStay
      <4>4. \A u \in Sessions : judged' = {"FAILED"} /\ session[u].state = "validating"
               /\ session[u].kind = "follower" => session[u].loaded["validation"] \in {"PENDING", "FAILED"}
        BY <1>1, <4>2 DEF RefusalsStay
      <4>5. row'["follower"].state # "none"
        BY <2>6, <4>1
      <4> QED
        BY <1>1, <1>2, <2>6, <2>8, <4>1, <4>3, <4>4, <4>5 DEF RefusalsStay, RefusedAccountsRest
    <3> QED
      BY <3>1, <3>2
  <2>12. ReportsHold'
    <3> SUFFICES ASSUME edits' = 0 PROVE ReportsHold'
      BY DEF ReportsHold
    <3>1. \A q \in Kinds : /\ row'[q].env = row[q].env /\ row'[q].margin = row[q].margin
                           /\ row[q].state # "none" => row'[q].state # "none"
      BY <2>6, <2>7
    <3>2. \A m : Report(m)' = Report(m)
      BY <3>1 DEF Report, ValidateCopyTrade, Kinds
    <3> QED
      BY <1>1, <1>2, <2>8, <3>1, <3>2 DEF ReportsHold
  <2> QED
    BY <2>9, <2>10, <2>11, <2>12 DEF RegistryInv
<1> QED
  BY <1>3, <1>4

\* A step that ends a request and perhaps writes the route: its report is of its mode.
LEMMA RouteChangeKeeps ==
    ASSUME RegistryInv, NEW ended \in SUBSET Sessions,
           session' = [w \in Sessions |-> IF w \in ended THEN None ELSE session[w]],
           UNCHANGED <<row, listed, edits, judged>>,
           route' \in Route \cup {None},
           edits = 0 /\ There(route') =>
              /\ route'.verdict = Report(route'.mode)
              /\ \A k \in Kinds : row[k].state # "none"
    PROVE  RegistryInv'
<1>1. RegistryTypes /\ VerdictsAgree /\ RefusalsStay /\ ReportsHold
  BY DEF RegistryInv
<1>2. /\ None.state = "none"
      /\ \A w \in Sessions : session'[w] = None \/ session'[w] = session[w]
  BY DEF None
<1>3. RegistryTypes'
  BY <1>1 DEF RegistryTypes
<1>4. VerdictsAgree'
  BY <1>1, <1>2 DEF VerdictsAgree, Agrees
<1>5. RefusalsStay'
  BY <1>1, <1>2 DEF RefusalsStay, RefusedAccountsRest
<1>6. ReportsHold'
  <2> SUFFICES ASSUME edits' = 0 PROVE ReportsHold'
    BY DEF ReportsHold
  <2>1. \A m : Report(m)' = Report(m)
    BY DEF Report, ValidateCopyTrade
  <2> QED
    BY <1>1, <1>2, <2>1 DEF ReportsHold, There
<1> QED
  BY <1>3, <1>4, <1>5, <1>6 DEF RegistryInv

LEMMA CommitRouteKeeps ==
    ASSUME RegistryInv, NEW v \in Sessions, CommitRoute(v) PROVE RegistryInv'
<1>1. /\ session[v] \in Creation /\ session[v].state = "creating"
      /\ session' = [w \in Sessions |-> IF w \in {v} THEN None ELSE session[w]]
      /\ route' \in {route, session[v].new}
      /\ route \in Route \cup {None}
      /\ UNCHANGED <<row, listed, edits, judged>>
  BY SessionTypes DEF RegistryInv, RegistryTypes, CommitRoute, Finish
<1>2. route' \in Route \cup {None}
  BY <1>1 DEF Creation
<1>3. edits = 0 /\ There(route') => /\ route'.verdict = Report(route'.mode)
                                    /\ \A k \in Kinds : row[k].state # "none"
  BY <1>1 DEF RegistryInv, ReportsHold
<1> QED
  BY <1>1, <1>2, <1>3, RouteChangeKeeps

\* Whatever was written in between, the row written and its report are of one mode.
LEMMA CommitUpdateRouteKeeps ==
    ASSUME RegistryInv, NEW v \in Sessions, CommitUpdateRoute(v) PROVE RegistryInv'
<1> DEFINE s == session[v]
           now == Written(route, s.loaded, s.new)
<1>1. /\ s \in Update /\ s.state = "updating"
      /\ session' = [w \in Sessions |-> IF w \in {v} THEN None ELSE session[w]]
      /\ route' = IF There(route) THEN Reported(now, s) ELSE route
      /\ route \in Route \cup {None}
      /\ UNCHANGED <<row, listed, edits, judged>>
  BY SessionTypes DEF RegistryInv, RegistryTypes, CommitUpdateRoute, Finish
<1>2. edits = 0 => /\ \A m \in Modes : s.reports[m] = Report(m)
                   /\ \A k \in Kinds : row[k].state # "none"
  BY <1>1 DEF RegistryInv, ReportsHold
<1>3. CASE ~ There(route)
  BY <1>1, <1>3, RouteChangeKeeps
<1>4. CASE There(route)
  <2>1. route \in Route /\ s.loaded \in Route /\ s.new \in Route
        /\ s.reports \in [Modes -> {"VERIFIED", "FAILED"}]
    BY <1>1, <1>4 DEF Update, There, None
  <2>2. now \in Route
    <3>1. DOMAIN route = {"state", "enabled", "status", "mode", "verdict"}
      BY <2>1 DEF Route
    <3>2. now = [state |-> IF s.new.state # s.loaded.state THEN s.new.state ELSE route.state,
                 enabled |-> IF s.new.enabled # s.loaded.enabled THEN s.new.enabled ELSE route.enabled,
                 status |-> IF s.new.status # s.loaded.status THEN s.new.status ELSE route.status,
                 mode |-> IF s.new.mode # s.loaded.mode THEN s.new.mode ELSE route.mode,
                 verdict |-> IF s.new.verdict # s.loaded.verdict THEN s.new.verdict ELSE route.verdict]
      BY <3>1 DEF Written
    <3> HIDE DEF now, s
    <3> QED
      BY <2>1, <3>2 DEF Route
  <2> HIDE DEF now
  <2>3. /\ Reported(now, s) \in Route
        /\ Reported(now, s).mode \in Modes
        /\ Reported(now, s).verdict = s.reports[Reported(now, s).mode]
    BY <2>1, <2>2 DEF Reported, Route
  <2> QED
    BY <1>1, <1>2, <1>4, <2>3, RouteChangeKeeps
<1> QED
  BY <1>3, <1>4

LEMMA DeleteRouteKeeps ==
    ASSUME RegistryInv, DeleteRoute PROVE RegistryInv'
<1>1. session' = [w \in Sessions |-> IF w \in {} THEN None ELSE session[w]]
  <2>1. session = [w \in Sessions |-> session[w]]
    BY DEF RegistryInv, RegistryTypes
  <2> QED
    BY <2>1 DEF DeleteRoute
<1>2. /\ route' \in Route \cup {None} /\ ~ There(route')
      /\ UNCHANGED <<row, listed, edits, judged>>
  BY DEF DeleteRoute, There, None
<1>3. {} \in SUBSET Sessions
  OBVIOUS
<1> QED
  BY <1>1, <1>2, <1>3, RouteChangeKeeps

\* A step that changes what a delivery goes on with, and nothing else.
LEMMA ListChangeKeeps ==
    ASSUME RegistryInv, UNCHANGED <<row, route, session, edits, judged>>,
           listed'.state = "listed" =>
              /\ listed' = [state |-> listed'.state, there |-> listed'.there,
                            scope |-> listed'.scope, status |-> listed'.status,
                            validation |-> listed'.validation, judged |-> listed'.judged]
              /\ listed'.there /\ listed'.judged = {"FAILED"} => listed'.validation = "FAILED",
           RefusedAccountsRest'
    PROVE  RegistryInv'
<1>1. RegistryTypes /\ VerdictsAgree /\ RefusalsStay /\ ReportsHold
  BY DEF RegistryInv
<1>2. RegistryTypes'
  BY <1>1 DEF RegistryTypes
<1>3. VerdictsAgree'
  BY <1>1 DEF VerdictsAgree, Agrees
<1>4. RefusalsStay'
  BY <1>1 DEF RefusalsStay
<1>5. ReportsHold'
  BY <1>1 DEF ReportsHold, Report, ValidateCopyTrade
<1> QED
  BY <1>2, <1>3, <1>4, <1>5 DEF RegistryInv

LEMMA ListRoutesKeeps ==
    ASSUME RegistryInv, ListRoutes PROVE RegistryInv'
<1> DEFINE l == [state |-> "listed", there |-> There(row["follower"]),
                 scope |-> row["source"].scope /\ row["follower"].scope,
                 status |-> row["follower"].status,
                 validation |-> row["follower"].verdict["validation"], judged |-> judged]
<1>1. listed' = l /\ UNCHANGED <<row, route, session, edits, judged>>
  BY DEF ListRoutes, rowVars
<1>2. There(row["follower"]) /\ judged = {"FAILED"}
         => row["follower"].verdict["validation"] = "FAILED"
  BY DEF RegistryInv, RefusalsStay
<1> QED
  BY <1>1, <1>2, ListChangeKeeps DEF RefusedAccountsRest

LEMMA PlanTaskKeeps ==
    ASSUME RegistryInv, PlanTask PROVE RegistryInv'
<1>1. /\ listed.state = "listed" /\ UNCHANGED <<row, route, session, edits, judged>>
      /\ listed' = IF Eligible(listed) THEN [listed EXCEPT !.state = "planned"] ELSE None
  BY DEF PlanTask, rowVars
<1>2. /\ listed = [state |-> listed.state, there |-> listed.there, scope |-> listed.scope,
                   status |-> listed.status, validation |-> listed.validation,
                   judged |-> listed.judged]
      /\ listed.there /\ listed.judged = {"FAILED"} => listed.validation = "FAILED"
  BY <1>1 DEF RegistryInv, RefusalsStay
<1>3. CASE Eligible(listed)
  <2>1. listed'.state = "planned" /\ listed'.judged = listed.judged
    BY <1>1, <1>2, <1>3
  <2>2. listed.judged # {"FAILED"}
    BY <1>2, <1>3 DEF Eligible
  <2> QED
    BY <1>1, <2>1, <2>2, ListChangeKeeps DEF RefusedAccountsRest
<1>4. CASE ~ Eligible(listed)
  <2>1. listed' = None /\ None.state = "none"
    BY <1>1, <1>4 DEF None
  <2> QED
    BY <1>1, <2>1, ListChangeKeeps DEF RefusedAccountsRest
<1> QED
  BY <1>3, <1>4

LEMMA RegistryStep == RegistryInv /\ [RegistryNext]_registryVars => RegistryInv'
<1> SUFFICES ASSUME RegistryInv, [RegistryNext]_registryVars PROVE RegistryInv'
  OBVIOUS
<1>1. CASE \E k \in Kinds : Create(k) \/ Edit(k) \/ Delete(k)
  BY <1>1, CreateKeeps, EditKeeps, DeleteKeeps
<1>2. CASE \E status \in {"ACTIVE", "PAUSED"} : SetStatus(status)
  BY <1>2, SetStatusKeeps
<1>3. CASE \E v \in Sessions :
              (\E k \in Kinds : BeginValidation(v, k)) \/ CommitValidation(v)
  BY <1>3, BeginValidationKeeps, CommitValidationKeeps
<1>4. CASE \E v \in Sessions :
              (\E mode \in Modes, enabled \in BOOLEAN : BeginRoute(v, mode, enabled))
                 \/ CommitRoute(v)
  BY <1>4, BeginRouteKeeps, CommitRouteKeeps
<1>5. CASE \E v \in Sessions :
              (\E field \in DOMAIN RouteValues :
                  \E value \in RouteValues[field] : BeginUpdateRoute(v, field, value))
                 \/ CommitUpdateRoute(v)
  BY <1>5, BeginUpdateRouteKeeps, CommitUpdateRouteKeeps
<1>6. CASE DeleteRoute
  BY <1>6, DeleteRouteKeeps
<1>7. CASE ListRoutes
  BY <1>7, ListRoutesKeeps
<1>8. CASE PlanTask
  BY <1>8, PlanTaskKeeps
<1>9. CASE UNCHANGED registryVars
  <2>1. UNCHANGED <<row, route, session, edits, judged>> /\ listed' = listed
    BY <1>9 DEF registryVars
  <2> QED
    BY <2>1, ListChangeKeeps DEF RegistryInv, RefusalsStay, RefusedAccountsRest
<1> QED
  BY <1>1, <1>2, <1>3, <1>4, <1>5, <1>6, <1>7, <1>8, <1>9 DEF RegistryNext

\* RegistryInv holds in every state the registry reaches, whatever the requests do.
THEOREM RegistryHolds == RegistrySpec => []RegistryInv
<1> QED
  BY RegistryInitHolds, RegistryStep, PTL DEF RegistrySpec

-----------------------------------------------------------------------------
(* What follows.                                                            *)

\* However many validations overlap, and whatever the exchanges answer, the columns
\* of an account's verdict never mix two verdicts.
THEOREM OneVerdictEver == RegistrySpec => []OneVerdict
<1>1. RegistryInv => OneVerdict
  BY DEF RegistryInv, VerdictsAgree, Agrees, OneVerdict
<1> QED
  BY <1>1, RegistryHolds, PTL

\* An account that was judged and only ever refused gets no task from the routes of a
\* later delivery, whatever requests edited or validated it in between.
THEOREM RefusedRest == RegistrySpec => []RefusedAccountsRest
<1>1. RegistryInv => RefusedAccountsRest
  BY DEF RegistryInv, RefusalsStay
<1> QED
  BY <1>1, RegistryHolds, PTL

\* While no account is edited, a route's report is that of the mode it has, however
\* many creations and updates of the route overlap.
THEOREM ReportsTrue == RegistrySpec => []RouteReportHolds
<1>1. RegistryInv => RouteReportHolds
  BY DEF RegistryInv, ReportsHold, RouteReportHolds, Report
<1> QED
  BY <1>1, RegistryHolds, PTL

-----------------------------------------------------------------------------
(* Keys. While no row is edited, a request that validates asks about the    *)
(* keys the row has, and what it loaded is no better than they are.         *)

Unverified(v) == \A c \in Columns : v[c] # "VERIFIED"

KeysHold ==
    edits = 0 =>
        /\ \A k \in Kinds : There(row[k]) /\ row[k].key = "bad" => Unverified(row[k].verdict)
        /\ \A w \in Sessions : session[w].state = "validating" =>
              /\ row[session[w].kind].state # "none"
              /\ session[w].key = row[session[w].kind].key
              /\ session[w].key = "bad" => Unverified(session[w].loaded)

\* Each client reads a refusal of the keys as one, whatever status it comes with.
LEMMA RefusalsAreRead ==
    ASSUME NEW e \in AllExchanges, NEW a \in Refusals(e) PROVE ~ Validates(e, a)
<1>1. a.http = FALSE \/ (a.http = TRUE /\ a.done = FALSE /\ e \in {"OKX", "BYBIT", "COINBASE", "KRAKEN"})
  BY DEF Refusals
<1> QED
  BY <1>1 DEF AllExchanges, Validates, OkxValidates, BinanceValidates, BybitValidates,
     CoinbaseValidates, KrakenValidates, BitmexValidates, GateioValidates

\* Keys that are not good earn no verdict that is.
LEMMA BadVerdicts ==
    ASSUME NEW s \in Validation, s.key = "bad", NEW v \in Verdicts(s) PROVE Unverified(v)
<1>1. s.kind \in Kinds /\ s.exchange \in AllExchanges
  BY ExchangesKnown DEF ExchangesKnown, Validation, Kinds
<1>2. CASE s.exchange = "OKX" /\ ~ s.passphrase
  BY <1>2 DEF Verdicts, Unverified
<1>3. CASE ~ (s.exchange = "OKX" /\ ~ s.passphrase)
  <2>1. PICK a \in UNION {CallAnswers(s.exchange, good) : good \in {FALSE, s.key = "good"}} :
           v = All(IF Validates(s.exchange, a) THEN "VERIFIED" ELSE "FAILED")
    BY <1>3 DEF Verdicts
  <2>2. (s.key = "good") = FALSE
    OBVIOUS
  <2>3. PICK good \in {FALSE, s.key = "good"} : a \in CallAnswers(s.exchange, good)
    BY <2>1
  <2>4. a \in Refusals(s.exchange)
    BY <2>2, <2>3 DEF CallAnswers
  <2>5. v = All("FAILED")
    BY <1>1, <2>1, <2>4, RefusalsAreRead
  <2> QED
    BY <2>5 DEF All, Unverified
<1> QED
  BY <1>2, <1>3

\* A step that neither validates nor changes the key or the verdict of a row.
LEMMA OtherStepsKeepKeys ==
    ASSUME KeysHold, edits' = 0 => edits = 0,
           edits' = 0 => \A k \in Kinds :
              /\ There(row'[k]) => There(row[k]) /\ row'[k].verdict = row[k].verdict
              /\ row[k].state # "none" => row'[k].state # "none" /\ row'[k].key = row[k].key,
           \A w \in Sessions : session'[w] = session[w] \/ session'[w].state # "validating",
           RegistryTypes
    PROVE  KeysHold'
<1> SUFFICES ASSUME edits' = 0 PROVE KeysHold'
  BY DEF KeysHold
<1>1. \A w \in Sessions : session[w].state = "validating" => session[w].kind \in Kinds
  BY SessionTypes DEF Validation
<1>2. \A k \in Kinds : There(row'[k]) => row[k].state # "none"
  BY DEF There
<1> QED
  BY <1>1, <1>2 DEF KeysHold, Unverified

LEMMA CreateKeepsKeys ==
    ASSUME RegistryTypes, KeysHold, NEW k \in Kinds, Create(k) PROVE KeysHold'
<1>1. PICK f \in Fields :
         row' = [row EXCEPT ![k] = [NewRow(k) EXCEPT !.env = f.env, !.margin = f.margin, !.key = f.key]]
  BY DEF Create
<1> DEFINE r == [NewRow(k) EXCEPT !.env = f.env, !.margin = f.margin, !.key = f.key]
<1>2. r.verdict = All("PENDING") /\ r.state = "there"
  BY DEF NewRow
<1> HIDE DEF r
<1>3. /\ row'[k] = r /\ \A q \in Kinds \ {k} : row'[q] = row[q]
      /\ row[k].state = "none" /\ UNCHANGED <<session, edits>>
  BY <1>1 DEF RegistryTypes, Create, r
<1>4. Unverified(All("PENDING"))
  BY DEF Unverified, All
<1>5. \A w \in Sessions : session[w].state = "validating" => session[w].kind \in Kinds
  BY SessionTypes DEF Validation
<1> QED
  BY <1>2, <1>3, <1>4, <1>5 DEF KeysHold, Unverified

LEMMA RowChangeKeepsKeys ==
    ASSUME RegistryTypes, KeysHold, NEW k \in Kinds, There(row[k]), NEW r,
           row' = [row EXCEPT ![k] = r], r.state # "none",
           r.verdict = row[k].verdict, r.key = row[k].key, UNCHANGED <<session, edits>>
    PROVE  KeysHold'
<1>1. row'[k] = r /\ \A q \in Kinds \ {k} : row'[q] = row[q]
  BY DEF RegistryTypes
<1>2. \A q \in Kinds :
         /\ There(row'[q]) => There(row[q]) /\ row'[q].verdict = row[q].verdict
         /\ row[q].state # "none" => row'[q].state # "none" /\ row'[q].key = row[q].key
  BY <1>1
<1> QED
  BY <1>2, OtherStepsKeepKeys

\* The keys are read with the row.
LEMMA BeginValidationKeepsKeys ==
    ASSUME RegistryTypes, KeysHold, NEW v \in Sessions, NEW k \in Kinds, BeginValidation(v, k)
    PROVE  KeysHold'
<1> DEFINE s == [state |-> "validating", kind |-> k, loaded |-> row[k].verdict,
                 exchange |-> row[k].exchange, key |-> row[k].key, passphrase |-> row[k].passphrase]
<1>1. /\ There(row[k]) /\ row[k].state # "none" /\ UNCHANGED <<row, edits>>
      /\ session'[v] = s /\ \A w \in Sessions \ {v} : session'[w] = session[w]
  BY DEF BeginValidation, rowVars, RegistryTypes, There
<1>2. s.kind = k /\ s.key = row[k].key /\ s.loaded = row[k].verdict
  OBVIOUS
<1> HIDE DEF s
<1> QED
  BY <1>1, <1>2 DEF KeysHold, Unverified

\* The verdict is about the keys that the row still has.
LEMMA CommitValidationKeepsKeys ==
    ASSUME RegistryTypes, KeysHold, NEW v \in Sessions, CommitValidation(v) PROVE KeysHold'
<1> DEFINE s == session[v]
           k == s.kind
<1>1. /\ s \in Validation /\ k \in Kinds /\ edits' = edits /\ s.state = "validating"
      /\ session'[v] = None /\ \A w \in Sessions \ {v} : session'[w] = session[w]
  BY SessionTypes DEF CommitValidation, Finish, Validation, RegistryTypes
<1>2. None.state # "validating"
  BY DEF None
<1>3. CASE ~ There(row[k])
  <2>1. row' = row
    BY <1>3 DEF CommitValidation
  <2> QED
    BY <1>1, <1>2, <2>1, OtherStepsKeepKeys
<1>4. CASE There(row[k])
  <2>1. PICK new \in Verdicts(s) : row' = UpdateValidation(k, s.loaded, new)
    BY <1>4 DEF CommitValidation
  <2> DEFINE w == Written(row[k].verdict, s.loaded, new)
             r == [row[k] EXCEPT !.verdict = w]
  <2>2. row' = [row EXCEPT ![k] = r] /\ row[k] \in Row
    BY <1>1, <1>4, <2>1, RowTypes DEF UpdateValidation
  <2>3. edits = 0 /\ row[k].key = "bad" => Unverified(w)
    <3> SUFFICES ASSUME edits = 0, row[k].key = "bad" PROVE Unverified(w)
      OBVIOUS
    <3>1. s.key = "bad" /\ Unverified(row[k].verdict)
      BY <1>1, <1>4 DEF KeysHold
    <3>2. Unverified(new)
      BY <1>1, <3>1, BadVerdicts
    <3>3. DOMAIN row[k].verdict = Columns
      BY <2>2 DEF Row, Verdict
    <3> QED
      BY <3>1, <3>2, <3>3 DEF Unverified, Written
  <2> HIDE DEF w
  <2>4. r.verdict = w /\ r.key = row[k].key /\ r.state = row[k].state
    BY <2>2 DEF Row
  <2> HIDE DEF r
  <2>5. row'[k] = r /\ \A q \in Kinds \ {k} : row'[q] = row[q]
    BY <1>1, <2>2 DEF RegistryTypes
  <2>6. edits = 0 => \A q \in Kinds : There(row'[q]) /\ row'[q].key = "bad" => Unverified(row'[q].verdict)
    BY <1>4, <2>3, <2>4, <2>5 DEF KeysHold
  <2>7. \A q \in Kinds : row'[q].state = row[q].state /\ row'[q].key = row[q].key
    BY <2>4, <2>5
  <2>8. \A u \in Sessions : session'[u].state = "validating" =>
           session'[u] = session[u] /\ session[u].kind \in Kinds
    BY <1>1, <1>2, SessionTypes DEF Validation
  <2> QED
    BY <1>1, <2>6, <2>7, <2>8 DEF KeysHold, Unverified
<1> QED
  BY <1>3, <1>4

LEMMA RouteStepKeepsKeys ==
    ASSUME RegistryTypes, KeysHold, UNCHANGED <<row, edits>>,
           \A w \in Sessions : session'[w] = session[w] \/ session'[w].state # "validating"
    PROVE  KeysHold'
  BY OtherStepsKeepKeys

LEMMA KeysStep == RegistryTypes /\ KeysHold /\ [RegistryNext]_registryVars => KeysHold'
<1> SUFFICES ASSUME RegistryTypes, KeysHold, [RegistryNext]_registryVars PROVE KeysHold'
  OBVIOUS
<1>1. CASE \E k \in Kinds : Create(k)
  BY <1>1, CreateKeepsKeys
<1>2. CASE \E k \in Kinds : Edit(k)
  BY <1>2 DEF Edit, KeysHold, RegistryTypes
<1>3. CASE \E k \in Kinds : Delete(k)
  <2>1. PICK k \in Kinds : Delete(k)
    BY <1>3
  <2> DEFINE r == [row[k] EXCEPT !.state = "deleted"]
  <2>2. /\ There(row[k]) /\ row' = [row EXCEPT ![k] = r] /\ UNCHANGED <<session, edits>>
        /\ row[k] \in Row
    BY <2>1, RowTypes DEF Delete
  <2>3. r.state # "none" /\ r.verdict = row[k].verdict /\ r.key = row[k].key
    BY <2>2 DEF Row
  <2> HIDE DEF r
  <2> QED
    BY <2>2, <2>3, RowChangeKeepsKeys
<1>4. CASE \E status \in {"ACTIVE", "PAUSED"} : SetStatus(status)
  <2>1. PICK status \in {"ACTIVE", "PAUSED"} : SetStatus(status)
    BY <1>4
  <2> DEFINE r == [row["follower"] EXCEPT !.status = status]
  <2>2. /\ There(row["follower"]) /\ row' = [row EXCEPT !["follower"] = r]
        /\ UNCHANGED <<session, edits>> /\ "follower" \in Kinds /\ row["follower"] \in Row
    BY <2>1, RowTypes DEF SetStatus, Kinds
  <2>3. /\ r.state # "none" /\ r.verdict = row["follower"].verdict
        /\ r.key = row["follower"].key
    BY <2>2 DEF Row, There
  <2> HIDE DEF r
  <2> QED
    BY <2>2, <2>3, RowChangeKeepsKeys
<1>5. CASE \E v \in Sessions : (\E k \in Kinds : BeginValidation(v, k)) \/ CommitValidation(v)
  BY <1>5, BeginValidationKeepsKeys, CommitValidationKeepsKeys
<1>6. CASE \/ \E v \in Sessions : \E mode \in Modes, enabled \in BOOLEAN :
                 BeginRoute(v, mode, enabled)
           \/ \E v \in Sessions : \E field \in DOMAIN RouteValues :
                 \E value \in RouteValues[field] : BeginUpdateRoute(v, field, value)
  <2>1. /\ UNCHANGED <<row, edits>>
        /\ \A w \in Sessions : session'[w] = session[w] \/ session'[w].state # "validating"
    BY <1>6 DEF BeginRoute, BeginUpdateRoute, rowVars, RegistryTypes
  <2> QED
    BY <2>1, RouteStepKeepsKeys
<1>7. CASE \E v \in Sessions : CommitRoute(v) \/ CommitUpdateRoute(v)
  <2>1. None.state # "validating"
    BY DEF None
  <2>2. /\ UNCHANGED <<row, edits>>
        /\ \A w \in Sessions : session'[w] = session[w] \/ session'[w].state # "validating"
    BY <1>7, <2>1 DEF CommitRoute, CommitUpdateRoute, Finish, RegistryTypes
  <2> QED
    BY <2>2, RouteStepKeepsKeys
<1>8. CASE DeleteRoute \/ ListRoutes \/ PlanTask \/ UNCHANGED registryVars
  <2>1. UNCHANGED <<row, edits, session>>
    BY <1>8 DEF DeleteRoute, ListRoutes, PlanTask, rowVars, registryVars
  <2> QED
    BY <2>1, RouteStepKeepsKeys
<1> QED
  BY <1>1, <1>2, <1>3, <1>4, <1>5, <1>6, <1>7, <1>8 DEF RegistryNext

\* While no account is edited, keys that the exchange never accepted are never called
\* verified, on any exchange, however validations overlap.
THEOREM BadKeysRefused == RegistrySpec => []BadKeysAreRefused
<1>1. RegistryInit => KeysHold
  <2>1. None.state = "none"
    BY DEF None
  <2> QED
    BY <2>1 DEF RegistryInit, KeysHold, There
<1>2. RegistryInv => RegistryTypes
  BY DEF RegistryInv
<1>3. KeysHold => BadKeysAreRefused
  BY DEF KeysHold, Unverified, BadKeysAreRefused
<1> QED
  BY <1>1, <1>2, <1>3, RegistryHolds, KeysStep, PTL DEF RegistrySpec
=============================================================================
