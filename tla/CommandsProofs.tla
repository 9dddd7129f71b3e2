--------------------------- MODULE CommandsProofs ---------------------------
(***************************************************************************)
(* audit and doctor tell what serve does, and a mixed credential is        *)
(* superseded, for every set of machines, of rows and of sign-ins, and for *)
(* any number of them.                                                     *)
(*                                                                         *)
(* The argument: a read that was not disturbed has found, record by record,*)
(* what the rows say (CalmWalk), so its result is a function of the rows   *)
(* and of the machine (ReadOf), and every answer that is remembered is the *)
(* answer to that result (ReportInv): two commands are compared by what    *)
(* they make of the same result.  For the mixed credential, LoginInv says  *)
(* which sign-in the rows stem from while one is under way, and GotInv     *)
(* that a read whose token is of the newest sign-in finds nothing older,   *)
(* because the token record is written last and read first.                *)
(***************************************************************************)
EXTENDS Commands, TLAPS

Commanded == {"serve", "audit", "doctor", "env", "exec"}

\* The row that a calm read finds for a record.
RowOf(record) ==
  LET keys == Keys(record)
  IN IF rows[keys[1]] # Absent \/ Len(keys) = 1 THEN rows[keys[1]] ELSE rows[keys[2]]

\* Together they are what the reader returns.
RowsFound == [record \in Records |-> RowOf(record)]

\* The reader goes on after it, or it ends the read with Misfit.
Fits(record) == Optional(record) \/ (RowOf(record) # Absent /\ RowOf(record).usable)

Misfit(record) == IF RowOf(record) = Absent THEN Missing(record) ELSE Unusable(record)

\* What a calm read of the rows ends with.
ReadOf ==
  IF ~setup.dbFile THEN Result("Open", NothingGot)
  ELSE IF ~Fits("token") THEN Result(Misfit("token"), NothingGot)
  ELSE IF ~Fits("registration") THEN Result(Misfit("registration"), NothingGot)
  ELSE Result(RegionError(RowsFound), RowsFound)

\* What was said is the command's answer to the rows as they are.
Answered(said) ==
  \E command \in Commanded :
    /\ said.command = command
    /\ IF SaysAtOnce(command) = {} THEN \E result : result = ReadOf /\ said = Says(command, result)
       ELSE said \in SaysAtOnce(command)

ReportInv == \A said \in report : Answered(said)

\* Every variable is well typed.
Typed ==
  /\ setup \in Setups
  /\ rows \in [AllKeys -> RowSet] /\ got \in [Records -> RowSet]
  /\ reading \in BOOLEAN /\ calm \in BOOLEAN /\ missed \in BOOLEAN
  /\ at \in 1 .. 5 /\ key \in 1 .. 2
  /\ login \in Nat \ {0}
  /\ DOMAIN writing \subseteq Records /\ writing \in [DOMAIN writing -> RowSet]

\* Where the reader may stand.
Walk ==
  /\ reading => running \in Commanded /\ SaysAtOnce(running) = {}
  /\ key = 2 => at \in 1 .. 2
  /\ at > 1 => setup.dbFile

\* What it has found if nothing disturbed it.
CalmWalk ==
  reading /\ calm =>
    /\ key = 2 => rows[Keys(Order[at])[1]] = Absent
    /\ at > 1 => Fits("token") /\ got["token"] = RowOf("token")
    /\ at > 2 => Fits("registration") /\ got["registration"] = RowOf("registration")
    /\ at > 3 => got["region"] = RowOf("region")
    /\ at > 4 => got["profile"] = RowOf("profile")

\* The key under which a sign-in writes.
Spelt(record) == Keys(record)[1]

\* Which sign-in the rows stem from: the token record is written last.
LoginInv ==
  /\ \A k \in AllKeys : rows[k] # Absent => rows[k].login \in 1 .. login
  /\ \A k \in AllKeys : (\A record \in Records : k # Spelt(record)) => rows[k].login <= 1
  /\ login = 1 => DOMAIN writing = {}
  /\ "token" \notin DOMAIN writing => DOMAIN writing = {}
  /\ \A record \in DOMAIN writing : writing[record].login = login
       /\ rows[Spelt(record)].login < login
  /\ login > 1 => \A record \in Records \ DOMAIN writing : rows[Spelt(record)].login = login

\* A read whose token is of the newest sign-in finds nothing older.
GotInv ==
  reading /\ ~missed =>
    /\ \A record \in Records : got[record] # Absent => got[record].login \in 1 .. login
    /\ at > 1 => got["token"] # Absent
    /\ at > 1 /\ got["token"].login = login /\ login > 1 =>
         /\ DOMAIN writing = {} /\ key = 1
         /\ at > 2 => got["registration"].login = login
         /\ at > 3 => got["region"].login = login
         /\ at > 4 => got["profile"].login = login

\* The inductive invariant.
IInv == Typed /\ Walk /\ CalmWalk /\ LoginInv /\ GotInv /\ ReportInv

-----------------------------------------------------------------------------
(* What the invariant says of the future depends on the machine and rows. *)

\* What a command says at once depends on the setup only.
LEMMA AtOnceStays ==
  ASSUME NEW command, UNCHANGED setup
  PROVE  SaysAtOnce(command)' = SaysAtOnce(command)
BY DEF SaysAtOnce, EnvSays, ExecSays, HandOut, TokenExit, DoctorSays, TokenCheck, ListenerCheck,
     ConfigurationOk, Said

\* What a read ends with depends on the setup and the rows.
LEMMA ReadStays ==
  ASSUME UNCHANGED <<setup, rows>>
  PROVE  ReadOf' = ReadOf
BY DEF ReadOf, RowsFound, Fits, Misfit, RowOf

\* So does what a command makes of it, on the setup only.
LEMMA SaysStays ==
  ASSUME UNCHANGED setup, NEW command, NEW result
  PROVE  Says(command, result)' = Says(command, result)
<1>1. ServeSays(result)' = ServeSays(result)
  BY DEF ServeSays, Hosts, Override
<1>2. AuditSays(result)' = AuditSays(result)
  BY DEF AuditSays, Hosts, AuditRegion, Problems
<1>3. DoctorSays(DatabaseCheck(result), ExpiryCheck(result))' = DoctorSays(DatabaseCheck(result),
        ExpiryCheck(result))
  BY DEF DoctorSays, ConfigurationOk, TokenCheck, ListenerCheck
<1>4. QED
  BY <1>1, <1>2, <1>3 DEF Says

\* An answer stays right while the setup and the rows stay.
LEMMA AnswersStay ==
  ASSUME UNCHANGED <<setup, rows>>, NEW said, Answered(said)
  PROVE  Answered(said)'
<1>1. PICK command \in Commanded :
        /\ said.command = command
        /\ IF SaysAtOnce(command) = {} THEN \E result : result = ReadOf
             /\ said = Says(command, result)
           ELSE said \in SaysAtOnce(command)
  BY DEF Answered
<1>2. SaysAtOnce(command)' = SaysAtOnce(command) /\ ReadOf' = ReadOf
  BY AtOnceStays, ReadStays
<1>3. \A result : Says(command, result)' = Says(command, result)
  BY SaysStays
<1>4. QED
  BY <1>1, <1>2, <1>3 DEF Answered

-----------------------------------------------------------------------------
(* The first steps.                                                        *)

\* The keys of the four records.
LEMMA KeysAre ==
  /\ Order = <<"token", "registration", "region", "profile">> /\ Len(Order) = 4
  /\ Keys("token") = <<"odic:token", "oidc:token">> /\ Len(Keys("token")) = 2
  /\ Keys("registration") = <<"odic:registration", "oidc:registration">>
       /\ Len(Keys("registration")) = 2
  /\ Keys("region") = <<"auth.idc.region">> /\ Len(Keys("region")) = 1
  /\ Keys("profile") = <<"api.codewhisperer.profile">> /\ Len(Keys("profile")) = 1
BY DEF Order, Keys

\* They are keys of the database.
LEMMA KeysInAll ==
  ASSUME NEW record \in Records, NEW i \in 1 .. Len(Keys(record))
  PROVE  Keys(record)[i] \in AllKeys
<1>1. i \in DOMAIN Keys(record)
  BY KeysAre DEF Records
<1>2. QED
  BY <1>1 DEF AllKeys

\* The first key of a record belongs to no other record.
LEMMA SpeltOnce ==
  ASSUME NEW record \in Records
  PROVE  /\ Spelt(record) \in AllKeys
         /\ \A other \in Records \ {record} : Spelt(other) # Spelt(record)
         /\ Len(Keys(record)) = 2 =>
              Keys(record)[2] \in AllKeys /\ \A other \in Records : Spelt(other) # Keys(record)[2]
<1>1. Len(Keys(record)) \in {1, 2}
  BY KeysAre DEF Records
<1>2. Spelt(record) \in AllKeys
  BY <1>1, KeysInAll DEF Spelt
<1>3. \A other \in Records \ {record} : Spelt(other) # Spelt(record)
  BY KeysAre DEF Records, Spelt
<1>4. Len(Keys(record)) = 2 => Keys(record)[2] \in AllKeys
  BY <1>1, KeysInAll
<1>5. Len(Keys(record)) = 2 => \A other \in Records : Spelt(other) # Keys(record)[2]
  BY KeysAre DEF Records, Spelt
<1>6. QED
  BY <1>2, <1>3, <1>4, <1>5

\* A missing row.
LEMMA AbsentIs ==
  /\ Absent \in RowSet /\ Absent.login = 0 /\ Absent.usable = FALSE
  /\ NothingGot \in [Records -> RowSet] /\ \A record \in Records : NothingGot[record] = Absent
<1> DEFINE no == FALSE
<1>1. Absent = [login |-> 0, usable |-> no, left |-> 0, region |-> NoRegion]
  BY DEF Absent, Row
<1>2. no \in BOOLEAN /\ NoRegion \in Texts
  BY RegionsAssumption DEF RegionsAssumption
<1> HIDE DEF no
<1>3. Absent \in RowSet /\ Absent.login = 0 /\ Absent.usable = no
  BY <1>1, <1>2 DEF RowSet
<1>4. QED
  BY <1>3 DEF NothingGot, no

\* What the reader finds at a key.
LEMMA FoundIs ==
  ASSUME Typed, at <= 4, key <= Len(Keys(Record))
  PROVE  /\ Record \in Records /\ Keys(Record)[key] \in AllKeys
         /\ Found = rows[Keys(Record)[key]] /\ Found \in RowSet
<1>1. at \in {1, 2, 3, 4} /\ key \in {1, 2}
  BY DEF Typed
<1>2. Record \in Records
  BY <1>1, KeysAre DEF Record, Records
<1>3. Len(Keys(Record)) \in Nat
  BY <1>2, KeysAre DEF Records
<1>4. Keys(Record)[key] \in AllKeys
  BY <1>1, <1>2, <1>3, KeysInAll
<1>5. QED
  BY <1>2, <1>4 DEF Found, Typed

-----------------------------------------------------------------------------
\* The invariant holds at first.
LEMMA InitInv == Init => IInv
<1> SUFFICES ASSUME Init PROVE IInv
  OBVIOUS
<1>1. /\ rows \in [AllKeys -> RowSet] /\ \A k \in AllKeys : rows[k] = Absent \/ rows[k].login = 1
  BY RowsAssumption DEF RowsAssumption, Init
<1>2. DOMAIN writing = {} /\ writing \in [DOMAIN writing -> RowSet]
  BY DEF Init
<1>3. Typed
  <2>1. /\ setup \in Setups /\ reading = FALSE /\ calm = TRUE /\ missed = FALSE
        /\ at = 1 /\ key = 1 /\ login = 1 /\ got = NothingGot
    BY DEF Init
  <2>2. got \in [Records -> RowSet] /\ DOMAIN writing \subseteq Records
    BY <1>2, <2>1, AbsentIs
  <2>3. at \in 1 .. 5 /\ key \in 1 .. 2 /\ login \in Nat \ {0}
    BY <2>1
  <2>4. reading \in BOOLEAN /\ calm \in BOOLEAN /\ missed \in BOOLEAN
    BY <2>1
  <2>5. QED
    BY <1>1, <1>2, <2>1, <2>2, <2>3, <2>4 DEF Typed
<1>4. LoginInv
  <2>1. login = 1
    BY DEF Init
  <2>2. \A k \in AllKeys : rows[k].login \in {0, 1}
    BY <1>1, AbsentIs
  <2>3. \A k \in AllKeys : rows[k] # Absent => rows[k].login \in 1 .. login
    BY <1>1, <2>1
  <2>4. QED
    BY <1>2, <2>1, <2>2, <2>3 DEF LoginInv
<1>5. Walk /\ CalmWalk /\ GotInv /\ ReportInv
  BY DEF Init, Walk, CalmWalk, GotInv, ReportInv
<1>6. QED
  BY <1>3, <1>4, <1>5 DEF IInv

\* What is known of the sign-ins does not change with what is read or said.
LEMMA LoginStays ==
  ASSUME LoginInv, UNCHANGED dbVars
  PROVE  LoginInv'
BY DEF LoginInv, dbVars

\* A command begins, or ends at once.
LEMMA BeginKeeps ==
  ASSUME IInv, NEW command \in Commanded, Begin(command)
  PROVE  IInv'
<1>1. UNCHANGED <<rows, login, writing, setup, calm, missed>>
  BY DEF Begin, dbVars
<1>2. LoginInv'
  BY <1>1, LoginStays DEF IInv, dbVars
<1>3. ReportInv'
  <2>1. ASSUME NEW said \in report'
        PROVE  Answered(said)'
    <3>1. CASE said \in report
      BY <1>1, <3>1, AnswersStay DEF IInv, ReportInv
    <3>2. CASE said \notin report
      <4>1. said \in SaysAtOnce(command)
        BY <2>1, <3>2 DEF Begin, Remembered
      <4>2. said.command = command
        BY <4>1 DEF SaysAtOnce, EnvSays, ExecSays, HandOut, DoctorSays, Said, Commanded
      <4>3. Answered(said)
        BY <4>1, <4>2 DEF Answered
      <4>4. QED
        BY <1>1, <4>3, AnswersStay
    <3>3. QED
      BY <3>1, <3>2
  <2>2. QED
    BY <2>1 DEF ReportInv
<1>4. CASE SaysAtOnce(command) = {}
  <2>1. running' = command /\ reading' = TRUE /\ at' = 1 /\ key' = 1 /\ got' = NothingGot
          /\ ~reading
    BY <1>4 DEF Begin, StartRead
  <2>2. Typed'
    BY <1>1, <2>1, AbsentIs DEF IInv, Typed
  <2>3. SaysAtOnce(command)' = {}
    BY <1>1, <1>4, AtOnceStays
  <2>4. Walk'
    BY <2>1, <2>3 DEF Walk
  <2>5. CalmWalk'
    BY <2>1 DEF CalmWalk
  <2>6. GotInv'
    BY <2>1, AbsentIs DEF GotInv
  <2>7. QED
    BY <1>2, <1>3, <2>2, <2>4, <2>5, <2>6 DEF IInv
<1>5. CASE SaysAtOnce(command) # {}
  <2>1. UNCHANGED <<reading, at, key, got, running>>
    BY <1>5 DEF Begin, readerVars
  <2>2. Typed'
    BY <1>1, <2>1 DEF IInv, Typed
  <2>3. SaysAtOnce(running)' = SaysAtOnce(running)
    <3>1. \A c : SaysAtOnce(c)' = SaysAtOnce(c)
      BY <1>1, AtOnceStays
    <3>2. QED
      BY <2>1, <3>1
  <2>4. Walk'
    BY <1>1, <2>1, <2>3 DEF IInv, Walk
  <2>5. CalmWalk' /\ GotInv'
    BY <1>1, <2>1 DEF IInv, CalmWalk, GotInv, Fits, RowOf
  <2>6. QED
    BY <1>2, <1>3, <2>2, <2>4, <2>5 DEF IInv
<1>6. QED
  BY <1>4, <1>5

-----------------------------------------------------------------------------
(* The ends of a read.                                                     *)

\* The end of a read: what it kept is what the rows say.
LEMMA ConcludeKeeps ==
  ASSUME IInv, reading, NEW kept, NEW result, Conclude(kept, result), StopRead,
         kept => result = ReadOf
  PROVE  IInv'
<1>1. UNCHANGED <<rows, login, writing, setup>>
  BY DEF Conclude, dbVars
<1>2. /\ reading' = FALSE /\ at' = 1 /\ key' = 1 /\ got' = NothingGot /\ calm' = TRUE
      /\ missed' = FALSE
  BY DEF StopRead, Conclude
<1>3. LoginInv'
  BY <1>1, LoginStays DEF IInv, dbVars
<1>4. Typed'
  <2>1. got' \in [Records -> RowSet] /\ at' \in 1 .. 5 /\ key' \in 1 .. 2
    BY <1>2, AbsentIs
  <2>2. reading' \in BOOLEAN /\ calm' \in BOOLEAN /\ missed' \in BOOLEAN
    BY <1>2
  <2>3. QED
    BY <1>1, <2>1, <2>2 DEF IInv, Typed
<1>5. Walk' /\ CalmWalk' /\ GotInv'
  BY <1>2 DEF Walk, CalmWalk, GotInv
<1>6. ASSUME NEW said \in report'
      PROVE  Answered(said)'
  <2>1. CASE said \in report
    BY <1>1, <2>1, AnswersStay DEF IInv, ReportInv
  <2>2. CASE said \notin report
    <3>1. kept /\ said = Says(running, result)
      BY <1>6, <2>2 DEF Conclude
    <3>2. running \in Commanded /\ SaysAtOnce(running) = {}
      BY DEF IInv, Walk
    <3>3. running \in {"serve", "audit", "doctor"}
      BY <3>2 DEF Commanded, SaysAtOnce
    <3>4. said.command = running
      BY <3>1, <3>3 DEF Says, ServeSays, AuditSays, DoctorSays, Said
    <3>5. Answered(said)
      BY <3>1, <3>2, <3>4 DEF Answered
    <3>6. QED
      BY <1>1, <3>5, AnswersStay
  <2>3. QED
    BY <2>1, <2>2
<1>7. QED
  BY <1>3, <1>4, <1>5, <1>6 DEF IInv, ReportInv

\* An error tells nothing of the rows.
LEMMA ErrorsAreAlike ==
  ASSUME NEW error, error # "", NEW rs, NEW others
  PROVE  Result(error, rs) = Result(error, others)
BY DEF Result

\* Without a database file nothing is read.
LEMMA CannotOpenKeeps == IInv /\ CannotOpen => IInv'
<1> SUFFICES ASSUME IInv, CannotOpen PROVE IInv'
  OBVIOUS
<1>1. Result("Open", NothingGot) = ReadOf
  BY DEF CannotOpen, ReadOf
<1>2. QED
  BY <1>1, ConcludeKeeps DEF CannotOpen

\* What a calm read finds at the second key is what the record is.
LEMMA FoundIsRow ==
  ASSUME IInv, reading, calm, at <= 4, key <= Len(Keys(Record)),
         Found # Absent \/ key = Len(Keys(Record))
  PROVE  Found = RowOf(Record)
<1>1. Record \in Records /\ at \in {1, 2, 3, 4} /\ key \in {1, 2} /\ Len(Keys(Record)) \in {1, 2}
  BY FoundIs, KeysAre DEF IInv, Typed, Records
<1>2. key = 2 => rows[Keys(Record)[1]] = Absent
  BY DEF IInv, CalmWalk, Record
<1>3. QED
  BY <1>1, <1>2 DEF Found, RowOf

\* The first record that does not fit ends the read.
LEMMA RefuseRowKeeps == IInv /\ RefuseRow => IInv'
<1> SUFFICES ASSUME IInv, RefuseRow PROVE IInv'
  OBVIOUS
<1>1. PICK row \in {Found, Absent}, error \in {Unusable(Record), Missing(Record)} :
        Refuse(row, error) /\ Conclude(calm /\ row = Found, Result(error, got))
  BY DEF RefuseRow
<1>2. reading /\ at <= 4 /\ setup.dbFile
  BY KeysAre DEF RefuseRow, Looking
<1>3. ASSUME calm, row = Found
      PROVE  Result(error, got) = ReadOf
  <2>1. at \in {1, 2, 3, 4} /\ key \in {1, 2} /\ (key = 2 => at \in {1, 2}) /\ Record = Order[at]
    BY <1>2 DEF IInv, Typed, Walk, Record
  <2>10. key <= Len(Keys(Record))
    BY <2>1, KeysAre
  <2>2. ~Optional(Record)
    BY <1>1 DEF Refuse
  <2>3. at \in {1, 2} /\ Record = (IF at = 1 THEN "token" ELSE "registration")
    BY <2>1, <2>2, KeysAre DEF Optional
  <2>4. row = RowOf(Record)
    BY <1>1, <1>2, <1>3, <2>1, <2>10, FoundIsRow DEF Refuse
  <2>5. ~Fits(Record) /\ error = Misfit(Record)
    BY <1>1, <2>2, <2>4, AbsentIs DEF Refuse, Fits, Misfit
  <2>6. at = 2 => Fits("token")
    BY <1>2, <1>3 DEF IInv, CalmWalk
  <2>7. error # ""
    BY <2>3, <2>5 DEF Misfit, Missing, Unusable
  <2>8. Result(error, got) = Result(error, NothingGot)
    BY <2>7, ErrorsAreAlike
  <2>9. QED
    BY <1>2, <2>3, <2>5, <2>6, <2>8 DEF ReadOf
<1>4. QED
  BY <1>1, <1>2, <1>3, ConcludeKeeps DEF Refuse

\* All the records fit.
LEMMA MakeCredentialKeeps == IInv /\ MakeCredential => IInv'
<1> SUFFICES ASSUME IInv, MakeCredential PROVE IInv'
  OBVIOUS
<1>1. PICK error \in RegionErrors : Complete(error) /\ Conclude(calm, Result(error, got))
  BY DEF MakeCredential
<1>2. reading /\ at = 5 /\ setup.dbFile /\ error = RegionError(got)
  BY <1>1, KeysAre DEF Complete, IInv, Typed, Walk
<1>3. ASSUME calm
      PROVE  Result(error, got) = ReadOf
  <2>1. /\ Fits("token") /\ Fits("registration")
        /\ got["token"] = RowOf("token") /\ got["registration"] = RowOf("registration")
        /\ got["region"] = RowOf("region") /\ got["profile"] = RowOf("profile")
    BY <1>2, <1>3 DEF IInv, CalmWalk
  <2>2. got \in [Records -> RowSet]
    BY DEF IInv, Typed
  <2>3. got = RowsFound
    BY <2>1, <2>2 DEF RowsFound, Records
  <2>4. QED
    BY <1>2, <2>1, <2>3 DEF ReadOf
<1>4. QED
  BY <1>1, <1>2, <1>3, ConcludeKeeps DEF Complete

-----------------------------------------------------------------------------
(* The SELECTs and the sign-ins.                                           *)

\* A SELECT keeps what is known of the read.
LEMMA SelectNextKeeps == IInv /\ SelectNext => IInv'
<1> SUFFICES ASSUME IInv, SelectNext PROVE IInv'
  OBVIOUS
<1>1. PICK row \in {Found, Absent} :
        Select(row) /\ calm' = (calm /\ row = Found) /\ missed' = (missed \/ row # Found)
  BY DEF SelectNext
<1>2. /\ UNCHANGED <<rows, login, writing, setup, running, report>>
      /\ reading /\ at <= 4 /\ setup.dbFile
  BY KeysAre DEF SelectNext, dbVars, Looking
<1>3. /\ at \in {1, 2, 3, 4} /\ key \in {1, 2} /\ (key = 2 => at \in {1, 2}) /\ Record = Order[at]
      /\ calm \in BOOLEAN /\ missed \in BOOLEAN
  BY <1>2 DEF IInv, Typed, Walk, Record
<1>4. /\ Record \in Records /\ key <= Len(Keys(Record)) /\ Len(Keys(Record)) \in {1, 2}
      /\ Len(Keys(Record)) = 2 => at \in {1, 2}
  BY <1>3, KeysAre DEF Records
<1>5. /\ Found = rows[Keys(Record)[key]] /\ Keys(Record)[key] \in AllKeys
      /\ Found \in RowSet /\ row \in RowSet
  BY <1>2, <1>4, FoundIs, AbsentIs DEF IInv
<1>6. calm' \in BOOLEAN /\ missed' \in BOOLEAN
  BY <1>1
<1>7. LoginInv'
  BY <1>2, LoginStays DEF IInv, dbVars
<1>8. ReportInv'
  BY <1>2, AnswersStay DEF IInv, ReportInv
<1>9. running' \in Commanded /\ SaysAtOnce(running)' = {}
  <2>1. running \in Commanded /\ SaysAtOnce(running) = {}
    BY <1>2 DEF IInv, Walk
  <2>2. \A c : SaysAtOnce(c)' = SaysAtOnce(c)
    BY <1>2, AtOnceStays
  <2>3. QED
    BY <1>2, <2>1, <2>2
<1>10. ~missed' => ~missed /\ row = Found
  BY <1>1
<1>11. calm' => calm /\ row = Found
  BY <1>1
<1>12. /\ RowOf("token")' = RowOf("token") /\ RowOf("registration")' = RowOf("registration")
       /\ RowOf("region")' = RowOf("region") /\ RowOf("profile")' = RowOf("profile")
       /\ Fits("token")' = Fits("token") /\ Fits("registration")' = Fits("registration")
  BY <1>2 DEF RowOf, Fits
<1>13. reading /\ ~missed /\ at > 1 /\ got["token"].login = login /\ login > 1 =>
         /\ DOMAIN writing = {} /\ key = 1
         /\ Found.login = login /\ Found # Absent
         /\ at > 2 => got["registration"].login = login
         /\ at > 3 => got["region"].login = login
         /\ at > 4 => got["profile"].login = login
  <2>1. SUFFICES ASSUME ~missed, at > 1, got["token"].login = login, login > 1
                 PROVE  /\ DOMAIN writing = {} /\ key = 1
                        /\ Found.login = login /\ Found # Absent
                        /\ at > 2 => got["registration"].login = login
                        /\ at > 3 => got["region"].login = login
                        /\ at > 4 => got["profile"].login = login
    OBVIOUS
  <2>2. /\ DOMAIN writing = {} /\ key = 1
        /\ at > 2 => got["registration"].login = login
        /\ at > 3 => got["region"].login = login
        /\ at > 4 => got["profile"].login = login
    BY <1>2, <2>1 DEF IInv, GotInv
  <2>3. rows[Spelt(Record)].login = login
    BY <1>4, <2>1, <2>2 DEF IInv, LoginInv
  <2>4. Found.login = login
    BY <1>5, <2>2, <2>3 DEF Spelt
  <2>5. QED
    BY <2>1, <2>2, <2>4, AbsentIs
<1>14. CASE Keep(row) /\ (row # Absent \/ key = Len(Keys(Record)))
            /\ (Optional(Record) \/ (row # Absent /\ row.usable))
  <2>1. got' = [got EXCEPT ![Record] = row] /\ at' = at + 1 /\ key' = 1 /\ reading' = reading
    BY <1>14 DEF Keep
  <2>2. got \in [Records -> RowSet]
    BY DEF IInv, Typed
  <2>3. /\ got' \in [Records -> RowSet] /\ got'[Record] = row
        /\ \A other \in Records \ {Record} : got'[other] = got[other]
    BY <1>4, <1>5, <2>1, <2>2
  <2>4. Typed'
    BY <1>2, <1>3, <1>6, <2>1, <2>3 DEF IInv, Typed
  <2>5. Walk'
    BY <1>2, <1>9, <2>1 DEF Walk
  <2>6. CalmWalk'
    <3>1. SUFFICES ASSUME calm'
                   PROVE  /\ at' > 1 => Fits("token")' /\ got'["token"] = RowOf("token")'
                          /\ at' > 2 => Fits("registration")'
                               /\ got'["registration"] = RowOf("registration")'
                          /\ at' > 3 => got'["region"] = RowOf("region")'
                          /\ at' > 4 => got'["profile"] = RowOf("profile")'
      BY <2>1 DEF CalmWalk
    <3>2. row = RowOf(Record)
      BY <1>2, <1>4, <1>11, <1>14, <3>1, FoundIsRow
    <3>3. Fits(Record)
      BY <1>14, <3>2 DEF Fits
    <3>4. /\ at > 1 => Fits("token") /\ got["token"] = RowOf("token")
          /\ at > 2 => Fits("registration") /\ got["registration"] = RowOf("registration")
          /\ at > 3 => got["region"] = RowOf("region")
      BY <1>2, <1>11, <3>1 DEF IInv, CalmWalk
    <3>5. CASE at = 1
      <4>1. Record = "token"
        BY <1>3, <3>5, KeysAre
      <4>2. QED
        BY <1>12, <2>1, <2>3, <3>2, <3>3, <3>5, <4>1
    <3>6. CASE at = 2
      <4>1. Record = "registration" /\ got'["token"] = got["token"]
        BY <1>3, <2>3, <3>6, KeysAre DEF Records
      <4>2. QED
        BY <1>12, <2>1, <2>3, <3>2, <3>3, <3>4, <3>6, <4>1
    <3>7. CASE at = 3
      <4>1. /\ Record = "region" /\ got'["token"] = got["token"]
            /\ got'["registration"] = got["registration"]
        BY <1>3, <2>3, <3>7, KeysAre DEF Records
      <4>2. QED
        BY <1>12, <2>1, <2>3, <3>2, <3>4, <3>7, <4>1
    <3>8. CASE at = 4
      <4>1. /\ Record = "profile" /\ got'["token"] = got["token"]
            /\ got'["registration"] = got["registration"] /\ got'["region"] = got["region"]
        BY <1>3, <2>3, <3>8, KeysAre DEF Records
      <4>2. QED
        BY <1>12, <2>1, <2>3, <3>2, <3>4, <3>8, <4>1
    <3>9. QED
      BY <1>3, <3>5, <3>6, <3>7, <3>8
  <2>7. GotInv'
    <3>1. SUFFICES ASSUME ~missed'
                   PROVE  /\ \A record \in Records : got'[record] # Absent =>
                            got'[record].login \in 1 .. login
                          /\ got'["token"] # Absent
                          /\ got'["token"].login = login /\ login > 1 =>
                               /\ DOMAIN writing = {}
                               /\ at' > 2 => got'["registration"].login = login
                               /\ at' > 3 => got'["region"].login = login
                               /\ at' > 4 => got'["profile"].login = login
      BY <1>2, <2>1 DEF GotInv
    <3>2. row = Found /\ ~missed
      BY <1>10, <3>1
    <3>3. \A record \in Records : got'[record] # Absent => got'[record].login \in 1 .. login
      <4>1. \A record \in Records : got[record] # Absent => got[record].login \in 1 .. login
        BY <1>2, <3>2 DEF IInv, GotInv
      <4>2. row # Absent => row.login \in 1 .. login
        BY <1>5, <3>2 DEF IInv, LoginInv
      <4>3. QED
        BY <2>3, <4>1, <4>2
    <3>4. got["token"] # Absent \/ at = 1
      BY <1>2, <1>3, <3>2 DEF IInv, GotInv
    <3>5. CASE at = 1
      <4>1. Record = "token" /\ ~Optional(Record) /\ got'["token"] = row
        BY <1>3, <2>3, <3>5, KeysAre DEF Optional
      <4>2. row # Absent
        BY <1>14, <4>1
      <4>3. row.login = login /\ login > 1 => DOMAIN writing = {}
        <5>1. SUFFICES ASSUME row.login = login, login > 1
                       PROVE  "token" \notin DOMAIN writing
          BY DEF IInv, LoginInv
        <5>2. key = 2 => row.login <= 1
          BY <1>4, <1>5, <3>2, <4>1, KeysAre, SpeltOnce DEF IInv, LoginInv
        <5>3. login \in Nat
          BY DEF IInv, Typed
        <5>4. key = 1
          BY <1>3, <5>1, <5>2, <5>3
        <5>5. rows[Spelt("token")].login = login
          BY <1>5, <3>2, <4>1, <5>1, <5>4 DEF Spelt
        <5>6. QED
          BY <5>3, <5>5 DEF IInv, LoginInv
      <4>4. QED
        BY <2>1, <3>3, <3>5, <4>1, <4>2, <4>3
    <3>6. CASE at # 1
      <4>1. Record # "token" /\ got'["token"] = got["token"] /\ at > 1
        BY <1>3, <2>3, <3>6, KeysAre DEF Records
      <4>2. got["token"].login = login /\ login > 1 =>
              /\ DOMAIN writing = {}
              /\ row.login = login
              /\ at > 2 => got["registration"].login = login
              /\ at > 3 => got["region"].login = login
              /\ at > 4 => got["profile"].login = login
        BY <1>2, <1>13, <3>2, <4>1
      <4>3. /\ at = 2 => got'["registration"] = row
            /\ at = 3 => got'["region"] = row /\ got'["registration"] = got["registration"]
            /\ at = 4 => /\ got'["profile"] = row /\ got'["registration"] = got["registration"]
                         /\ got'["region"] = got["region"]
        BY <1>3, <2>3, KeysAre DEF Records
      <4>4. QED
        BY <1>3, <2>1, <3>3, <3>4, <3>6, <4>1, <4>2, <4>3
    <3>7. QED
      BY <3>5, <3>6
  <2>8. QED
    BY <1>7, <1>8, <2>4, <2>5, <2>6, <2>7 DEF IInv
<1>15. CASE row = Absent /\ key < Len(Keys(Record)) /\ key' = key + 1
         /\ UNCHANGED <<reading, at, got>>
  <2> DEFINE n == Len(Keys(Record))
  <2>0. n \in {1, 2} /\ (n = 2 => at \in {1, 2}) /\ key < n /\ key \in {1, 2}
    BY <1>3, <1>4, <1>15
  <2> HIDE DEF n
  <2>1. key = 1 /\ key' = 2 /\ at \in {1, 2} /\ UNCHANGED <<reading, at, got>>
    BY <1>15, <2>0
  <2>2. Typed'
    BY <1>2, <1>6, <2>1 DEF IInv, Typed
  <2>3. Walk'
    BY <1>2, <1>9, <2>1 DEF Walk
  <2>4. CalmWalk'
    <3>1. SUFFICES ASSUME calm'
                   PROVE  /\ rows'[Keys(Order[at])[1]] = Absent
                          /\ at > 1 => Fits("token")' /\ got["token"] = RowOf("token")'
      BY <2>1 DEF CalmWalk
    <3>2. rows[Keys(Order[at])[1]] = Absent
      BY <1>3, <1>5, <1>11, <1>15, <2>1, <3>1
    <3>3. at > 1 => Fits("token") /\ got["token"] = RowOf("token")
      BY <1>2, <1>11, <3>1 DEF IInv, CalmWalk
    <3>4. QED
      BY <1>2, <1>12, <3>2, <3>3
  <2>5. GotInv'
    <3>1. SUFFICES ASSUME ~missed'
                   PROVE  /\ \A record \in Records : got[record] # Absent =>
                            got[record].login \in 1 .. login
                          /\ at > 1 => got["token"] # Absent
                          /\ ~(at > 1 /\ got["token"].login = login /\ login > 1)
      BY <1>2, <2>1 DEF GotInv
    <3>2. ~missed /\ Found = Absent
      BY <1>10, <1>15, <3>1
    <3>3. QED
      BY <1>2, <1>13, <3>2 DEF IInv, GotInv
  <2>6. QED
    BY <1>7, <1>8, <2>2, <2>3, <2>4, <2>5 DEF IInv
<1>16. QED
  BY <1>1, <1>14, <1>15 DEF Select

-----------------------------------------------------------------------------
\* A sign-in begins.
LEMMA SignInKeeps == IInv /\ SignIn => IInv'
<1> SUFFICES ASSUME IInv, SignIn PROVE IInv'
  OBVIOUS
<1>1. PICK s \in SignIns : writing' = [record \in Records |-> [s[record] EXCEPT !.login = login']]
  BY DEF SignIn
<1>2. /\ UNCHANGED <<rows, reading, at, key, got, setup, running, calm, missed, report>>
      /\ login' = login + 1 /\ DOMAIN writing = {} /\ login \in Nat \ {0}
  BY DEF SignIn, readerVars, IInv, Typed
<1>3. s \in [Records -> RowSet]
  BY RowsAssumption DEF RowsAssumption
<1>4. \A record \in Records : writing'[record] \in RowSet /\ writing'[record].login = login'
  BY <1>1, <1>2, <1>3 DEF RowSet
<1>5. DOMAIN writing' = Records
  BY <1>1
<1>6. writing' \in [Records -> RowSet]
  BY <1>1, <1>4
<1>7. Typed'
  BY <1>2, <1>5, <1>6 DEF IInv, Typed
<1>8. LoginInv'
  <2>1. \A k \in AllKeys : rows[k] # Absent => rows[k].login \in 1 .. login
    BY DEF IInv, LoginInv
  <2>2. \A k \in AllKeys : rows[k].login < login'
    BY <1>2, <2>1, AbsentIs
  <2>3. \A record \in Records : rows[Spelt(record)].login < login'
    BY <2>2, SpeltOnce
  <2>4. \A k \in AllKeys : rows'[k] # Absent => rows'[k].login \in 1 .. login'
    BY <1>2, <2>1
  <2>5. login' # 1 /\ "token" \in DOMAIN writing'
    BY <1>2, <1>5 DEF Records
  <2>6. \A k \in AllKeys : (\A record \in Records : k # Spelt(record)) => rows'[k].login <= 1
    BY <1>2 DEF IInv, LoginInv
  <2>7. QED
    BY <1>2, <1>4, <1>5, <2>3, <2>4, <2>5, <2>6 DEF LoginInv
<1>9. Walk' /\ CalmWalk'
  <2>1. SaysAtOnce(running)' = SaysAtOnce(running)
    <3>1. \A c : SaysAtOnce(c)' = SaysAtOnce(c)
      BY <1>2, AtOnceStays
    <3>2. QED
      BY <1>2, <3>1
  <2>2. QED
    BY <1>2, <2>1 DEF IInv, Walk, CalmWalk, Fits, RowOf
<1>10. GotInv'
  <2>1. SUFFICES ASSUME reading, ~missed
                 PROVE  /\ \A record \in Records : got[record] # Absent =>
                          got[record].login \in 1 .. login'
                        /\ at > 1 => got["token"] # Absent
                        /\ at > 1 => got["token"].login # login'
    BY <1>2 DEF GotInv
  <2>2. /\ \A record \in Records : got[record] # Absent => got[record].login \in 1 .. login
        /\ at > 1 => got["token"] # Absent
    BY <2>1 DEF IInv, GotInv
  <2>3. QED
    BY <1>2, <2>2 DEF Records
<1>11. ReportInv'
  BY <1>2, AnswersStay DEF IInv, ReportInv
<1>12. QED
  BY <1>7, <1>8, <1>9, <1>10, <1>11 DEF IInv

\* What is left when the Kiro CLI has changed the rows.
LEMMA DisturbKeeps ==
  ASSUME IInv, Disturb, login' = login,
         rows' \in [AllKeys -> RowSet], DOMAIN writing' \subseteq DOMAIN writing,
         writing' \in [DOMAIN writing' -> RowSet]
  PROVE  Typed' /\ Walk' /\ CalmWalk' /\ GotInv' /\ ReportInv'
<1>1. /\ UNCHANGED <<reading, at, key, got, setup, running, missed, login>>
      /\ report' = {} /\ calm' = FALSE
  BY DEF Disturb, readerVars
<1>2. calm' \in BOOLEAN
  BY <1>1
<1>3. Typed'
  BY <1>1, <1>2 DEF IInv, Typed
<1>4. Walk'
  <2>1. SaysAtOnce(running)' = SaysAtOnce(running)
    <3>1. \A c : SaysAtOnce(c)' = SaysAtOnce(c)
      BY <1>1, AtOnceStays
    <3>2. QED
      BY <1>1, <3>1
  <2>2. QED
    BY <1>1, <2>1 DEF IInv, Walk
<1>5. GotInv'
  <2>1. DOMAIN writing = {} => DOMAIN writing' = {}
    OBVIOUS
  <2>2. QED
    BY <1>1, <2>1 DEF IInv, GotInv
<1>6. CalmWalk' /\ ReportInv'
  BY <1>1 DEF CalmWalk, ReportInv
<1>7. QED
  BY <1>3, <1>4, <1>5, <1>6

\* A sign-in writes a record, the token last.
LEMMA WriteRecordKeeps ==
  ASSUME IInv, NEW record \in Records, WriteRecord(record)
  PROVE  IInv'
<1>1. /\ record \in DOMAIN writing /\ login' = login /\ Disturb
      /\ record = "token" => DOMAIN writing = {"token"}
      /\ rows' = [rows EXCEPT ![Spelt(record)] = writing[record]]
      /\ writing' = [other \in DOMAIN writing \ {record} |-> writing[other]]
  BY DEF WriteRecord, Spelt
<1>2. /\ rows \in [AllKeys -> RowSet] /\ writing[record] \in RowSet /\ Spelt(record) \in AllKeys
      /\ login \in Nat \ {0} /\ DOMAIN writing \subseteq Records
  BY <1>1, SpeltOnce DEF IInv, Typed
<1>3. rows' \in [AllKeys -> RowSet]
  BY <1>1, <1>2
<1>4. DOMAIN writing' = DOMAIN writing \ {record}
  BY <1>1
<1>5. writing' \in [DOMAIN writing' -> RowSet]
        /\ \A other \in DOMAIN writing' : writing'[other] = writing[other]
  BY <1>1, <1>4 DEF IInv, Typed
<1>6. Typed' /\ Walk' /\ CalmWalk' /\ GotInv' /\ ReportInv'
  BY <1>1, <1>3, <1>4, <1>5, DisturbKeeps
<1>7. /\ rows'[Spelt(record)] = writing[record]
      /\ \A k \in AllKeys \ {Spelt(record)} : rows'[k] = rows[k]
  BY <1>1, <1>2
<1>8. writing[record].login = login /\ login > 1
  BY <1>1, <1>2 DEF IInv, LoginInv
<1>9. LoginInv'
  <2>1. ASSUME NEW k \in AllKeys, rows'[k] # Absent
        PROVE  rows'[k].login \in 1 .. login'
    <3>1. CASE k = Spelt(record)
      BY <1>1, <1>2, <1>7, <1>8, <3>1
    <3>2. CASE k # Spelt(record)
      BY <1>1, <1>7, <2>1, <3>2 DEF IInv, LoginInv
    <3>3. QED
      BY <3>1, <3>2
  <2>2. ASSUME NEW k \in AllKeys, \A r \in Records : k # Spelt(r)
        PROVE  rows'[k].login <= 1
    BY <1>7, <2>2 DEF IInv, LoginInv
  <2>3. "token" \notin DOMAIN writing' => DOMAIN writing' = {}
    BY <1>1, <1>4 DEF IInv, LoginInv
  <2>4. ASSUME NEW other \in DOMAIN writing'
        PROVE  writing'[other].login = login' /\ rows'[Spelt(other)].login < login'
    <3>1. other \in DOMAIN writing /\ other # record /\ other \in Records
      BY <1>2, <1>4
    <3>2. Spelt(other) \in AllKeys /\ Spelt(other) # Spelt(record)
      BY <3>1, SpeltOnce
    <3>3. writing[other].login = login /\ rows[Spelt(other)].login < login
      BY <3>1 DEF IInv, LoginInv
    <3>4. QED
      BY <1>1, <1>5, <1>7, <3>2, <3>3
  <2>5. ASSUME NEW other \in Records \ DOMAIN writing'
        PROVE  rows'[Spelt(other)].login = login'
    <3>1. CASE other = record
      BY <1>1, <1>7, <1>8, <3>1
    <3>2. CASE other # record
      <4>1. other \notin DOMAIN writing
        BY <1>4, <3>2
      <4>2. rows[Spelt(other)].login = login
        BY <1>8, <4>1 DEF IInv, LoginInv
      <4>3. Spelt(other) \in AllKeys /\ Spelt(other) # Spelt(record)
        BY <3>2, SpeltOnce
      <4>4. QED
        BY <1>1, <1>7, <4>2, <4>3
    <3>3. QED
      BY <3>1, <3>2
  <2>6. login' # 1
    BY <1>1, <1>2, <1>8
  <2>7. QED
    BY <2>1, <2>2, <2>3, <2>4, <2>5, <2>6 DEF LoginInv
<1>10. QED
  BY <1>6, <1>9 DEF IInv

\* A refresh changes no sign-in.
LEMMA CliRefreshKeeps == IInv /\ CliRefresh => IInv'
<1> SUFFICES ASSUME IInv, CliRefresh PROVE IInv'
  OBVIOUS
<1> DEFINE k == Spelt("token")
<1>1. PICK left \in Lefts : rows' = [rows EXCEPT ![k].left = left]
  BY DEF CliRefresh, Spelt
<1>2. /\ UNCHANGED <<login, writing>> /\ Disturb /\ rows[k] # Absent
  BY DEF CliRefresh, Spelt
<1>3. rows \in [AllKeys -> RowSet] /\ k \in AllKeys /\ left \in Nat
  BY SpeltOnce, RowsAssumption DEF IInv, Typed, Records, RowsAssumption
<1> HIDE DEF k
<1> DEFINE new == [rows[k] EXCEPT !.left = left]
<1>4. rows' = [rows EXCEPT ![k] = new]
  BY <1>1
<1>5. new \in RowSet /\ new.login = rows[k].login
  BY <1>3 DEF RowSet
<1> HIDE DEF new
<1>6. /\ rows' \in [AllKeys -> RowSet] /\ rows'[k] = new
      /\ \A other \in AllKeys \ {k} : rows'[other] = rows[other]
  BY <1>3, <1>4, <1>5
<1>7. \A other \in AllKeys : rows'[other].login = rows[other].login
  BY <1>5, <1>6
<1>8. Typed' /\ Walk' /\ CalmWalk' /\ GotInv' /\ ReportInv'
  <2>1. DOMAIN writing' \subseteq DOMAIN writing /\ writing' \in [DOMAIN writing' -> RowSet]
    BY <1>2 DEF IInv, Typed
  <2>2. QED
    BY <1>2, <1>6, <2>1, DisturbKeeps
<1>9. LoginInv'
  <2>1. \A other \in AllKeys : rows'[other] # Absent => rows[other] # Absent
    BY <1>2, <1>6
  <2>2. \A other \in AllKeys : rows'[other] # Absent => rows'[other].login \in 1 .. login'
    BY <1>2, <1>7, <2>1 DEF IInv, LoginInv
  <2>3. \A record \in Records : rows'[Spelt(record)].login = rows[Spelt(record)].login
    BY <1>7, SpeltOnce
  <2>4. \A other \in AllKeys : (\A record \in Records : other # Spelt(record)) =>
          rows'[other].login <= 1
    BY <1>7 DEF IInv, LoginInv
  <2>5. DOMAIN writing \subseteq Records
    BY DEF IInv, Typed
  <2>6. \A record \in DOMAIN writing : rows'[Spelt(record)].login = rows[Spelt(record)].login
    BY <2>3, <2>5
  <2>7. QED
    BY <1>2, <2>2, <2>3, <2>4, <2>6 DEF IInv, LoginInv
<1>10. QED
  BY <1>8, <1>9 DEF IInv

\* Every step keeps the invariant.
LEMMA NextInv == IInv /\ [Next]_vars => IInv'
<1> SUFFICES ASSUME IInv, [Next]_vars PROVE IInv'
  OBVIOUS
<1>1. CASE UNCHANGED vars
  <2>1. UNCHANGED <<rows, login, writing, reading, at, key, got, setup, running, calm, missed,
          report>>
    BY <1>1 DEF vars, readerVars
  <2>2. LoginInv'
    BY <2>1, LoginStays DEF IInv, dbVars
  <2>3. ReportInv'
    BY <2>1, AnswersStay DEF IInv, ReportInv
  <2>4. Typed' /\ GotInv'
    BY <2>1 DEF IInv, Typed, GotInv
  <2>5. Walk' /\ CalmWalk'
    <3>1. \A c : SaysAtOnce(c)' = SaysAtOnce(c)
      BY <2>1, AtOnceStays
    <3>2. SaysAtOnce(running)' = SaysAtOnce(running)
      BY <2>1, <3>1
    <3>3. QED
      BY <2>1, <3>2 DEF IInv, Walk, CalmWalk, Fits, RowOf
  <2>6. QED
    BY <2>2, <2>3, <2>4, <2>5 DEF IInv
<1>2. CASE Next
  BY <1>2, BeginKeeps, CannotOpenKeeps, SelectNextKeeps, RefuseRowKeeps, MakeCredentialKeeps,
     SignInKeeps, CliRefreshKeeps, WriteRecordKeeps DEF Next, Commanded
<1>3. QED
  BY <1>1, <1>2

\* The invariant holds throughout.
LEMMA Invariance == Spec => []IInv
BY InitInv, NextInv, PTL DEF Spec

-----------------------------------------------------------------------------
(* What was said, and the theorems.                                        *)

\* The row of a token that the sign-ins write is the newest.
LEMMA NewestIs ==
  ASSUME rows[Spelt("token")] # Absent
  PROVE  NewestToken = rows[Spelt("token")]
<1> DEFINE keys  == Keys("token")
           found == {i \in DOMAIN keys : rows[keys[i]] # Absent}
<1>1. keys = <<"odic:token", "oidc:token">> /\ DOMAIN keys = {1, 2} /\ Spelt("token") = keys[1]
  BY KeysAre DEF Spelt
<1> HIDE DEF keys
<1>2. 1 \in found /\ found \subseteq {1, 2}
  BY <1>1
<1>3. NewestToken = rows[keys[CHOOSE i \in found : \A j \in found : i <= j]]
  BY <1>2 DEF NewestToken, keys
<1> HIDE DEF found
<1>4. (CHOOSE i \in found : \A j \in found : i <= j) = 1
  <2>1. \A j \in found : 1 <= j
    BY <1>2
  <2>2. \A i \in found : (\A j \in found : i <= j) => i = 1
    BY <1>2
  <2>3. QED
    BY <1>2, <2>1, <2>2
<1>5. QED
  BY <1>1, <1>3, <1>4

\* Whatever the reader puts together from two sign-ins, a newer token record is
\* there or about to be, in however many sign-ins and however they fall into
\* the read.
THEOREM MixedIsAlwaysSuperseded == Spec => []MixedIsSuperseded
<1>1. IInv => MixedIsSuperseded
  <2> SUFFICES ASSUME IInv, reading, at > Len(Order), ~missed, Mixed(got),
                      "token" \notin DOMAIN writing
               PROVE  NewestToken.login > got["token"].login
    BY DEF MixedIsSuperseded
  <2>1. at = 5 /\ login \in Nat \ {0}
    BY KeysAre DEF IInv, Typed
  <2>2. /\ \A record \in Records : got[record] # Absent => got[record].login \in 1 .. login
        /\ got["token"] # Absent
        /\ got["token"].login = login /\ login > 1 =>
             got["registration"].login = login /\ got["region"].login = login
               /\ got["profile"].login = login
    BY <2>1 DEF IInv, GotInv
  <2>3. got["token"].login \in 1 .. login
    BY <2>2 DEF Records
  <2>4. got["token"].login # login
    <3>1. SUFFICES ASSUME got["token"].login = login
                   PROVE  FALSE
      OBVIOUS
    <3>2. PICK r1 \in Records, r2 \in Records :
            got[r1] # Absent /\ got[r2] # Absent /\ got[r1].login # got[r2].login
      BY DEF Mixed
    <3>3. CASE login = 1
      BY <2>2, <3>2, <3>3
    <3>4. CASE login # 1
      <4>1. \A record \in Records : got[record].login = login
        BY <2>1, <2>2, <3>1, <3>4 DEF Records
      <4>2. QED
        BY <3>2, <4>1
    <3>5. QED
      BY <3>3, <3>4
  <2>5. got["token"].login < login /\ login > 1
    BY <2>1, <2>3, <2>4
  <2>6. rows[Spelt("token")].login = login
    BY <2>5 DEF IInv, LoginInv, Records
  <2>7. rows[Spelt("token")] # Absent
    BY <2>5, <2>6, AbsentIs
  <2>8. QED
    BY <2>5, <2>6, <2>7, NewestIs
<1>2. QED
  BY <1>1, Invariance, PTL

-----------------------------------------------------------------------------
\* serve gets past its flags exactly if each of them is in order.
LEMMA ServeErrorIs ==
  ASSUME setup \in SetupSet
  PROVE  ServeError(setup) = None <=>
           /\ ListenOk(setup) /\ RegionOk(setup) /\ ExtraCaError(setup) = None
           /\ DbPathOk(setup) /\ TokenPathOk(setup)
BY DEF ServeError, SetupSet, ListenOk, None

\* What serve has said.
LEMMA ServeSaid ==
  ASSUME NEW s, Answered(s), s.command = "serve", setup \in SetupSet
  PROVE  \/ ServeError(setup) # None /\ s.exit = 2
         \/ /\ ServeError(setup) = None
            /\ s.exit = (IF ReadOf.error = None THEN 0 ELSE 1)
            /\ s.told.hosts = Hosts(ReadOf, Override(ReadOf))
            /\ s.told.servesRow <=> ReadOf.error = None /\ ReadOf.left > Buffer
<1>1. IF SaysAtOnce("serve") = {} THEN \E result : result = ReadOf /\ s = Says("serve", result)
      ELSE s \in SaysAtOnce("serve")
  BY DEF Answered
<1>2. CASE ServeError(setup) = None
  <2>1. s = ServeSays(ReadOf)
    BY <1>1, <1>2 DEF SaysAtOnce, Says
  <2> DEFINE r == ReadOf
             h == Hosts(r, Override(r))
             w == r.error = None /\ r.left > Buffer
  <2> HIDE DEF r, h, w
  <2>2. s = Said("serve", IF r.error = None THEN 0 ELSE 1, [error |-> r.error, hosts |-> h,
          servesRow |-> w])
    BY <2>1 DEF ServeSays, r, h, w
  <2>3. /\ s.exit = (IF r.error = None THEN 0 ELSE 1) /\ s.told.hosts = h /\ s.told.servesRow = w
    BY <2>2 DEF Said
  <2>4. QED
    BY <1>2, <2>3 DEF r, h, w
<1>3. CASE ServeError(setup) # None
  <2> DEFINE no   == FALSE
             told == [error |-> ServeError(setup), hosts |-> NoHosts, servesRow |-> no]
  <2>1. SaysAtOnce("serve") = {Said("serve", 2, told)}
    BY <1>3 DEF SaysAtOnce
  <2> HIDE DEF told
  <2>2. s = Said("serve", 2, told)
    BY <1>1, <2>1
  <2>3. QED
    BY <1>3, <2>2 DEF Said
<1>4. QED
  BY <1>2, <1>3

\* What audit has said.
LEMMA AuditSaid ==
  ASSUME NEW a, Answered(a), a.command = "audit"
  PROVE  \/ ~(DbPathOk(setup) /\ TokenPathOk(setup)) /\ a.exit = 2
         \/ /\ DbPathOk(setup) /\ TokenPathOk(setup)
            /\ a.exit = (IF Problems(ReadOf) = {} THEN 0 ELSE 1)
            /\ a.told.hosts = Hosts(ReadOf, AuditRegion(ReadOf))
<1>1. IF SaysAtOnce("audit") = {} THEN \E result : result = ReadOf /\ a = Says("audit", result)
      ELSE a \in SaysAtOnce("audit")
  BY DEF Answered
<1>2. CASE DbPathOk(setup) /\ TokenPathOk(setup)
  <2>1. a = AuditSays(ReadOf)
    BY <1>1, <1>2 DEF SaysAtOnce, Says
  <2>2. QED
    BY <1>2, <2>1 DEF AuditSays, Said
<1>3. CASE ~(DbPathOk(setup) /\ TokenPathOk(setup))
  <2> DEFINE told == [problems |-> {}, hosts |-> NoHosts]
  <2>1. SaysAtOnce("audit") = {Said("audit", 2, told)}
    BY <1>3 DEF SaysAtOnce
  <2> HIDE DEF told
  <2>2. a = Said("audit", 2, told)
    BY <1>1, <2>1
  <2>3. QED
    BY <1>3, <2>2 DEF Said
<1>4. QED
  BY <1>2, <1>3

\* What doctor has said.
LEMMA DoctorSaid ==
  ASSUME NEW d, Answered(d), d.command = "doctor"
  PROVE  /\ d.told.configuration = (IF ConfigurationOk THEN "ok" ELSE "error")
         /\ d.told.token = TokenCheck
         /\ d.exit = 0 => ConfigurationOk
         /\ DbPathOk(setup) => d.told.database = DatabaseCheck(ReadOf)
              /\ d.told.expiry = ExpiryCheck(ReadOf)
<1>1. IF SaysAtOnce("doctor") = {} THEN \E result : result = ReadOf /\ d = Says("doctor", result)
      ELSE d \in SaysAtOnce("doctor")
  BY DEF Answered
<1>2. ASSUME NEW database, NEW expiry, d = DoctorSays(database, expiry)
      PROVE  /\ d.told.configuration = (IF ConfigurationOk THEN "ok" ELSE "error")
             /\ d.told.token = TokenCheck /\ d.told.database = database /\ d.told.expiry = expiry
             /\ d.exit = 0 => ConfigurationOk
  <2> DEFINE c == IF ConfigurationOk THEN "ok" ELSE "error"
             t == TokenCheck
             l == ListenerCheck
             checks == [configuration |-> c, database |-> database, expiry |-> expiry, token |-> t,
                        listener |-> l]
  <2> HIDE DEF c, t, l
  <2>1. d = Said("doctor", IF \E name \in DOMAIN checks : checks[name] = "error" THEN 1 ELSE 0,
          checks)
    BY <1>2 DEF DoctorSays, c, t, l
  <2>2. /\ d.told = checks
        /\ d.exit = (IF \E name \in DOMAIN checks : checks[name] = "error" THEN 1 ELSE 0)
    BY <2>1 DEF Said
  <2>3. checks.configuration = c /\ checks.token = t /\ checks.database = database
          /\ checks.expiry = expiry
    OBVIOUS
  <2>4. "configuration" \in DOMAIN checks /\ checks["configuration"] = c
    OBVIOUS
  <2> HIDE DEF checks
  <2>5. d.exit = 0 => c # "error"
    BY <2>2, <2>4
  <2>6. QED
    BY <2>2, <2>3, <2>5 DEF c, t
<1>3. CASE DbPathOk(setup)
  <2>1. d = DoctorSays(DatabaseCheck(ReadOf), ExpiryCheck(ReadOf))
    BY <1>1, <1>3 DEF SaysAtOnce, Says
  <2>2. QED
    BY <1>2, <2>1
<1>4. CASE ~DbPathOk(setup)
  <2>1. d = DoctorSays("skipped", "skipped")
    BY <1>1, <1>4 DEF SaysAtOnce
  <2>2. QED
    BY <1>2, <1>4, <2>1
<1>5. QED
  BY <1>3, <1>4

\* What env and exec have said.
LEMMA HandedOut ==
  ASSUME NEW x, Answered(x), x.command \in {"env", "exec"}
  PROVE  x.exit = TokenExit \/ (~ListenOk(setup) /\ x.exit = 2)
<1>1. x \in {EnvSays, ExecSays}
  BY DEF Answered, SaysAtOnce
<1>2. QED
  BY <1>1 DEF EnvSays, ExecSays, HandOut, Said

\* On every machine audit passes exactly when serve gets as far as its token
\* file, and shows the hosts that serve posts to.
THEOREM AuditIsAlwaysServe == Spec => []AuditIsServe
<1>1. IInv => AuditIsServe
  <2> SUFFICES ASSUME IInv, NEW a \in report, NEW s \in report,
                      a.command = "audit", s.command = "serve"
               PROVE  /\ BuildFeatures = {} => (a.exit = 0 <=> s.exit = 0)
                      /\ a.exit = 2 => s.exit = 2
                      /\ s.exit = 0 => a.told.hosts = s.told.hosts
                           /\ s.told.hosts.runtime \in Served
    BY DEF AuditIsServe
  <2>1. setup \in SetupSet /\ Answered(a) /\ Answered(s)
    BY SetupsAssumption DEF SetupsAssumption, IInv, Typed, ReportInv
  <2> DEFINE r == ReadOf
  <2>2. BuildFeatures = {} =>
          (Problems(r) = {} <=> ListenOk(setup) /\ RegionOk(setup) /\ ExtraCaError(setup) = None
                                  /\ r.error = None)
    BY DEF Problems
  <2>3. \/ ServeError(setup) # None /\ s.exit = 2
        \/ /\ ServeError(setup) = None
           /\ s.exit = (IF r.error = None THEN 0 ELSE 1)
           /\ s.told.hosts = Hosts(r, Override(r))
    BY <2>1, ServeSaid
  <2>4. \/ ~(DbPathOk(setup) /\ TokenPathOk(setup)) /\ a.exit = 2
        \/ /\ DbPathOk(setup) /\ TokenPathOk(setup)
           /\ a.exit = (IF Problems(r) = {} THEN 0 ELSE 1)
           /\ a.told.hosts = Hosts(r, AuditRegion(r))
    BY <2>1, AuditSaid
  <2>5. ServeError(setup) = None <=>
          /\ ListenOk(setup) /\ RegionOk(setup) /\ ExtraCaError(setup) = None
          /\ DbPathOk(setup) /\ TokenPathOk(setup)
    BY <2>1, ServeErrorIs
  <2>6. r.error = None => r.runtime \in Served
    <3>1. SUFFICES ASSUME r.error = None
                   PROVE  r.runtime \in Served
      OBVIOUS
    <3>2. r = Result(RegionError(RowsFound), RowsFound)
      BY <3>1 DEF ReadOf, Result, Misfit, Missing, Unusable, None
    <3>3. RegionError(RowsFound) = "" /\ r.runtime = RuntimeRegion(RowsFound)
      BY <3>1, <3>2 DEF Result, None
    <3>4. RuntimeRegion(RowsFound) # NoRegion
      BY <3>3 DEF RegionError
    <3>5. RuntimeRegion(RowsFound) \in Served
      BY <3>4 DEF RuntimeRegion, FirstOf, OkRuntime
    <3>6. QED
      BY <3>3, <3>5
  <2> HIDE DEF r
  <2>7. s.exit = 0 => a.told.hosts = s.told.hosts /\ s.told.hosts.runtime \in Served
    <3>1. SUFFICES ASSUME s.exit = 0
                   PROVE  a.told.hosts = s.told.hosts /\ s.told.hosts.runtime \in Served
      OBVIOUS
    <3>2. /\ ServeError(setup) = None /\ r.error = None /\ s.told.hosts = Hosts(r, Override(r))
          /\ a.told.hosts = Hosts(r, AuditRegion(r)) /\ RegionOk(setup)
      BY <2>3, <2>4, <2>5, <3>1
    <3>3. Override(r) = AuditRegion(r) /\ Override(r) \in Served
      BY <2>6, <3>2 DEF Override, AuditRegion, RegionOk, OkRuntime
    <3>4. Hosts(r, Override(r)).runtime = Override(r)
      BY <3>2 DEF Hosts
    <3>5. QED
      BY <3>2, <3>3, <3>4
  <2>8. BuildFeatures = {} => (a.exit = 0 <=> s.exit = 0)
    BY <2>2, <2>3, <2>4, <2>5
  <2>9. a.exit = 2 => s.exit = 2
    BY <2>3, <2>4, <2>5
  <2>10. QED
    BY <2>7, <2>8, <2>9
<1>2. QED
  BY <1>1, Invariance, PTL

\* On every machine doctor's checks are serve's; where it passes, env and exec are
\* not refused for their flags, and where it misses the token file they fail.
THEOREM DoctorIsAlwaysServe == Spec => []DoctorIsServe
<1>1. IInv => DoctorIsServe
  <2> SUFFICES ASSUME IInv, NEW d \in report, d.command = "doctor"
               PROVE  /\ \A s \in report : s.command = "serve" =>
                           /\ d.told.configuration = "error" <=> s.exit = 2
                           /\ s.exit # 2 => (d.told.database = "ok" <=> s.exit = 0)
                           /\ s.exit # 2 => (d.told.expiry = "valid" <=> s.told.servesRow)
                      /\ \A x \in report : x.command \in {"env", "exec"} =>
                           /\ d.exit = 0 => x.exit # 2
                           /\ d.told.token = "warning" => x.exit # 0
    BY DEF DoctorIsServe
  <2>1. setup \in SetupSet /\ \A said \in report : Answered(said)
    BY SetupsAssumption DEF SetupsAssumption, IInv, Typed, ReportInv
  <2> DEFINE r == ReadOf
  <2>2. /\ d.told.configuration = (IF ConfigurationOk THEN "ok" ELSE "error")
        /\ d.told.token = TokenCheck
        /\ d.exit = 0 => ConfigurationOk
        /\ DbPathOk(setup) => d.told.database = DatabaseCheck(r) /\ d.told.expiry = ExpiryCheck(r)
    BY <2>1, DoctorSaid
  <2>3. ConfigurationOk <=> ServeError(setup) = None
    BY <2>1, ServeErrorIs DEF ConfigurationOk
  <2>4. ASSUME NEW s \in report, s.command = "serve"
        PROVE  /\ d.told.configuration = "error" <=> s.exit = 2
               /\ s.exit # 2 => (d.told.database = "ok" <=> s.exit = 0)
               /\ s.exit # 2 => (d.told.expiry = "valid" <=> s.told.servesRow)
    <3>1. \/ ServeError(setup) # None /\ s.exit = 2
          \/ /\ ServeError(setup) = None
             /\ s.exit = (IF r.error = None THEN 0 ELSE 1)
             /\ s.told.servesRow <=> r.error = None /\ r.left > Buffer
      BY <2>1, <2>4, ServeSaid
    <3>2. ConfigurationOk => DbPathOk(setup)
      BY DEF ConfigurationOk
    <3>3. DatabaseCheck(r) = "ok" <=> r.error = None
      BY DEF DatabaseCheck
    <3>4. ExpiryCheck(r) = "valid" <=> r.error = None /\ r.left > Buffer
      BY DEF ExpiryCheck
    <3> HIDE DEF r
    <3>5. CASE ServeError(setup) # None
      BY <2>2, <2>3, <3>1, <3>5
    <3>6. CASE ServeError(setup) = None
      <4>1. s.exit = 0 <=> r.error = None
        BY <3>1, <3>6
      <4>2. QED
        BY <2>2, <2>3, <3>1, <3>2, <3>3, <3>4, <3>6, <4>1
    <3>7. QED
      BY <3>5, <3>6
  <2>5. ASSUME NEW x \in report, x.command \in {"env", "exec"}
        PROVE  /\ d.exit = 0 => x.exit # 2
               /\ d.told.token = "warning" => x.exit # 0
    <3>1. x.exit = TokenExit \/ (~ListenOk(setup) /\ x.exit = 2)
      BY <2>1, <2>5, HandedOut
    <3>2. ASSUME d.exit = 0
          PROVE  x.exit # 2
      <4>1. ListenOk(setup) /\ TokenPathOk(setup)
        BY <2>2, <3>2 DEF ConfigurationOk
      <4>2. TokenExit \in {0, 1}
        BY <4>1 DEF TokenExit
      <4>3. QED
        BY <3>1, <4>1, <4>2
    <3>3. ASSUME d.told.token = "warning"
          PROVE  x.exit # 0
      <4>1. TokenPathOk(setup) /\ setup.file = "missing"
        BY <2>2, <3>3 DEF TokenCheck
      <4>2. TokenExit = 1
        BY <4>1 DEF TokenExit
      <4>3. QED
        BY <3>1, <4>2
    <3>4. QED
      BY <3>2, <3>3
  <2>6. QED
    BY <2>4, <2>5
<1>2. QED
  BY <1>1, Invariance, PTL
=============================================================================
