------------------------------ MODULE Commands ------------------------------
(***************************************************************************)
(* The commands of kiro-trust at one machine: audit and doctor tell what   *)
(* serve would do (audit.rs, doctor.rs, the beginning of serve.rs), env    *)
(* and exec hand out what it wrote (env_cmd.rs, exec_cmd.rs).  Each takes  *)
(* the flags and reads the database by itself, while the Kiro CLI may sign *)
(* in or refresh; what a command said is kept until the rows change, and   *)
(* only if nothing changed and every SELECT succeeded while it read.       *)
(***************************************************************************)
EXTENDS Configuration

CONSTANTS
  Setups,        \* the flags and machines considered
  InitialRows,   \* what the database may hold at first
  SignIns,       \* the rows a sign-in may write, by record
  MaxLogin,      \* bound: sign-ins, the first one included
  Lefts,         \* what may be left until expiresAt
  Buffer,        \* VALIDITY_BUFFER, and doctor's five minutes
  BuildFeatures  \* development features compiled in

\* The database at first is what the first sign-in left, and the writings of a
\* sign-in are rows like any other.
ASSUME RowsAssumption ==
  /\ \A rs \in InitialRows :
       rs \in [AllKeys -> RowSet] /\ \A k \in AllKeys : rs[k] = Absent \/ rs[k].login = 1
  /\ \A s \in SignIns : s \in [Records -> RowSet]
  /\ Lefts \subseteq Nat

ASSUME SetupsAssumption == \A s \in Setups : s \in SetupSet

VARIABLES
  setup,
  running,  \* the command reading the database
  calm,     \* history: nothing was written and no SELECT failed while it reads
  missed,   \* history: a SELECT of the read under way failed
  login,    \* sign-ins begun
  writing,  \* what the sign-in under way has still to write, by record
  report    \* what was said since the rows changed last

dbVars == <<rows, login, writing>>
vars == <<rows, readerVars, setup, running, calm, missed, login, writing, report>>

Idle == "none"
Said(command, exit, told) == [command |-> command, exit |-> exit, told |-> told]

-----------------------------------------------------------------------------
(* What each command makes of its flags and of the read.                   *)

\* audit that shows the profile's region whatever --runtime-region says.
ProfileRegion(result) == result.runtime

\* The region serve posts to, and TokenSource::read_db keeps to it.
Override(result) == IF setup.region # NoRegion THEN setup.region ELSE result.runtime

\* audit shows the profile's region if --runtime-region is no good.
AuditRegion(result) ==
  IF setup.region # NoRegion /\ RegionOk(setup) THEN setup.region ELSE result.runtime

RegionErrors == {"", "NoSsoRegion", "Region", "NoRuntimeRegion"}

NoHosts == [oidc |-> NoRegion, runtime |-> NoRegion]
Hosts(result, region) ==
  IF result.error # None THEN NoHosts ELSE [oidc |-> result.sso, runtime |-> region]

ServeSays(result) ==
  Said("serve", IF result.error = None THEN 0 ELSE 1,
       [error |-> result.error, hosts |-> Hosts(result, Override(result)),
        servesRow |-> result.error = None /\ result.left > Buffer])

\* audit::report goes on whatever it finds: every problem is listed.
Problems(result) ==
  (IF ListenOk(setup) THEN {} ELSE {"listen"})
  \cup (IF RegionOk(setup) THEN {} ELSE {"region"})
  \cup (IF ExtraCaError(setup) = None THEN {} ELSE {"extra CA"})
  \cup (IF result.error = None THEN {} ELSE {"credential"})
  \cup BuildFeatures

AuditSays(result) ==
  Said("audit", IF Problems(result) = {} THEN 0 ELSE 1,
       [problems |-> Problems(result), hosts |-> Hosts(result, AuditRegion(result))])

\* doctor's five checks.
ConfigurationOk ==
  /\ ListenOk(setup) /\ RegionOk(setup) /\ ExtraCaError(setup) = None
  /\ DbPathOk(setup) /\ TokenPathOk(setup)

DatabaseCheck(result) == IF result.error = None THEN "ok" ELSE "error"

\* A credential said to be valid for exactly as long as the buffer.
ExpiryAtBuffer(result) ==
  IF result.error # None THEN "skipped"
  ELSE IF result.left >= Buffer THEN "valid"
  ELSE IF result.left > 0 THEN "refresh_required" ELSE "expired"

ExpiryCheck(result) ==
  IF result.error # None THEN "skipped"
  ELSE IF result.left > Buffer THEN "valid"
  ELSE IF result.left > 0 THEN "refresh_required" ELSE "expired"

\* On Unix: nobody but the owner may read a regular file.  Only the kind of the
\* file and its mode are looked at; whether this user can read it is not.
TokenCheck ==
  IF ~TokenPathOk(setup) THEN "skipped"
  ELSE IF setup.explicit \/ setup.file \in {"private", "locked"} THEN "ok"
  ELSE IF setup.file = "missing" THEN "warning" ELSE "error"

ListenerCheck ==
  IF ~ListenOk(setup) \/ setup.health = "not asked" THEN "skipped"
  ELSE IF setup.health = "healthy" THEN "ok" ELSE "error"

DoctorSays(database, expiry) ==
  LET checks == [configuration |-> IF ConfigurationOk THEN "ok" ELSE "error",
                 database |-> database, expiry |-> expiry, token |-> TokenCheck,
                 listener |-> ListenerCheck]
  IN Said("doctor", IF \E name \in DOMAIN checks : checks[name] = "error" THEN 1 ELSE 0, checks)

\* read_token_file and token_shape_is_valid: a file that cannot be read is exit 1,
\* whatever its mode looks like.
TokenExit ==
  IF ~TokenPathOk(setup) THEN 2
  ELSE IF setup.file \in {"shared", "private"} /\ setup.wellFormed THEN 0 ELSE 1

\* env prints the address as it is given; exec gives it to its child.
HandOut(command, exit) ==
  Said(command, exit, [address |-> IF exit = 0 THEN setup.listen ELSE "none"])

EnvSays  == HandOut("env", TokenExit)
ExecSays == HandOut("exec", IF ListenOk(setup) THEN TokenExit ELSE 2)

Says(command, result) ==
  CASE command = "serve"  -> ServeSays(result)
    [] command = "audit"  -> AuditSays(result)
    [] command = "doctor" -> DoctorSays(DatabaseCheck(result), ExpiryCheck(result))

\* A command whose flags end it before it opens the database.
SaysAtOnce(command) ==
  CASE command = "env"   -> {EnvSays}
    [] command = "exec"  -> {ExecSays}
    [] command = "serve" -> IF ServeError(setup) = None THEN {}
                            ELSE {Said("serve", 2, [error |-> ServeError(setup), hosts |-> NoHosts,
                                                    servesRow |-> FALSE])}
    [] command = "audit" -> IF DbPathOk(setup) /\ TokenPathOk(setup) THEN {}
                            ELSE {Said("audit", 2, [problems |-> {}, hosts |-> NoHosts])}
    [] command = "doctor" -> IF DbPathOk(setup) THEN {} ELSE {DoctorSays("skipped", "skipped")}

-----------------------------------------------------------------------------
Init ==
  /\ setup \in Setups
  /\ rows \in InitialRows
  /\ reading = FALSE /\ at = 1 /\ key = 1 /\ got = NothingGot
  /\ running = Idle /\ calm = TRUE /\ missed = FALSE
  /\ login = 1
  /\ writing = [record \in {} |-> Absent]
  /\ report = {}

\* Two answers are compared at a time: a third command begins afresh.
Remembered(command) ==
  IF Cardinality(report) < 2 THEN {said \in report : said.command # command} ELSE {}

Begin(command) ==
  /\ running = Idle
  /\ report' = Remembered(command) \cup SaysAtOnce(command)
  /\ UNCHANGED <<dbVars, setup, calm, missed>>
  /\ IF SaysAtOnce(command) = {} THEN running' = command /\ StartRead
     ELSE UNCHANGED <<readerVars, running>>

\* The command has its answer; it is kept if it is about the rows as they are.
Conclude(kept, result) ==
  /\ report' = IF kept THEN report \cup {Says(running, result)} ELSE report
  /\ running' = Idle /\ calm' = TRUE /\ missed' = FALSE
  /\ UNCHANGED <<dbVars, setup>>

CannotOpen ==
  /\ reading /\ ~setup.dbFile
  /\ StopRead
  /\ Conclude(calm, Result("Open", NothingGot))

\* A SELECT that fails, for whatever reason, is read as a missing row.
SelectNext ==
  /\ setup.dbFile /\ Looking
  /\ \E row \in {Found, Absent} :
       /\ Select(row)
       /\ calm' = (calm /\ row = Found)
       /\ missed' = (missed \/ row # Found)
  /\ UNCHANGED <<dbVars, setup, running, report>>

RefuseRow ==
  /\ setup.dbFile /\ Looking
  /\ \E row \in {Found, Absent}, error \in {Unusable(Record), Missing(Record)} :
       /\ Refuse(row, error)
       /\ Conclude(calm /\ row = Found, Result(error, got))

MakeCredential ==
  /\ \E error \in RegionErrors : Complete(error) /\ Conclude(calm, Result(error, got))

-----------------------------------------------------------------------------
(* The Kiro CLI, as far as it can be seen here: it signs in, the token     *)
(* record last or everything at once, and it refreshes.                    *)

Disturb == report' = {} /\ calm' = FALSE /\ UNCHANGED <<readerVars, setup, running, missed>>

SignIn ==
  /\ DOMAIN writing = {} /\ login < MaxLogin
  /\ login' = login + 1
  /\ \E s \in SignIns :
       writing' = [record \in Records |-> [s[record] EXCEPT !.login = login']]
  /\ UNCHANGED <<rows, readerVars, setup, running, calm, missed, report>>

WriteRecord(record) ==
  /\ record \in DOMAIN writing
  /\ record = "token" => DOMAIN writing = {"token"}
  /\ rows' = [rows EXCEPT ![Keys(record)[1]] = writing[record]]
  /\ writing' = [other \in DOMAIN writing \ {record} |-> writing[other]]
  /\ UNCHANGED login
  /\ Disturb

CliRefresh ==
  /\ DOMAIN writing = {} /\ rows[Keys("token")[1]] # Absent
  /\ \E left \in Lefts \ {rows[Keys("token")[1]].left} :
       rows' = [rows EXCEPT ![Keys("token")[1]].left = left]
  /\ UNCHANGED <<login, writing>>
  /\ Disturb

Next ==
  \/ \E command \in {"serve", "audit", "doctor", "env", "exec"} : Begin(command)
  \/ CannotOpen \/ SelectNext \/ RefuseRow \/ MakeCredential
  \/ SignIn \/ CliRefresh
  \/ \E record \in Records : WriteRecord(record)

Spec == Init /\ [][Next]_vars

-----------------------------------------------------------------------------
\* AuditIsServe: of the same machine and the same rows audit and serve say the
\* same.  Without development features audit exits 0 exactly when serve gets as
\* far as its token file, and the hosts it allows are the ones serve will post
\* to, with a region that is served (audit.rs, serve.rs; design 4.2 and 6.6).
AuditIsServe ==
  \A a, s \in report : a.command = "audit" /\ s.command = "serve" =>
    /\ BuildFeatures = {} => (a.exit = 0 <=> s.exit = 0)
    /\ a.exit = 2 => s.exit = 2
    /\ s.exit = 0 => a.told.hosts = s.told.hosts /\ s.told.hosts.runtime \in Served

\* DoctorIsServe: doctor's first three checks are serve's own.  A configuration
\* error is serve's exit 2, a database error its exit 1, and the expiry is valid
\* exactly when the first cycle serves the row as it stands.  Of the token file
\* doctor says less, for it never opens it: where doctor passes, env and exec are
\* not refused for their flags, and where it misses the file they hand out
\* nothing (doctor.rs, source.rs, env_cmd.rs, exec_cmd.rs; design 4.3 to 4.6).
DoctorIsServe ==
  \A d \in report : d.command = "doctor" =>
    /\ \A s \in report : s.command = "serve" =>
         /\ d.told.configuration = "error" <=> s.exit = 2
         /\ s.exit # 2 => (d.told.database = "ok" <=> s.exit = 0)
         /\ s.exit # 2 => (d.told.expiry = "valid" <=> s.told.servesRow)
    /\ \A x \in report : x.command \in {"env", "exec"} =>
         /\ d.exit = 0 => x.exit # 2
         /\ d.told.token = "warning" => x.exit # 0

\* MixedIsSuperseded: rows of two sign-ins may end up in one credential, but
\* then its token record is the older part, and the database has or is about to
\* get a newer one, so that rule 1 of the cache replaces it (db.rs, source.rs).
NewestToken ==
  LET found == {i \in DOMAIN Keys("token") : rows[Keys("token")[i]] # Absent}
  IN IF found = {} THEN Absent ELSE rows[Keys("token")[CHOOSE i \in found : \A j \in found : i <= j]]

Mixed(rs) ==
  \E r1, r2 \in Records : rs[r1] # Absent /\ rs[r2] # Absent /\ rs[r1].login # rs[r2].login

MixedIsSuperseded ==
  reading /\ at > Len(Order) /\ ~missed /\ Mixed(got) =>
    NewestToken.login > got["token"].login \/ "token" \in DOMAIN writing
=============================================================================
