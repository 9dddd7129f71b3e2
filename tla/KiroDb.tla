------------------------------- MODULE KiroDb -------------------------------
(***************************************************************************)
(* The reader of the Kiro CLI's database (kiro-trust-auth, db.rs; regions: *)
(* kiro-trust-net, region.rs).  read_identity_center() is not one read: it *)
(* makes one SELECT after another, outside any transaction, while the Kiro *)
(* CLI may rewrite the rows between two of them.                           *)
(*                                                                         *)
(* A row carries the sign-in that wrote it, whether its JSON has what is   *)
(* needed, what is left until expiresAt (zero if that is past or cannot be *)
(* read) and a region; the secrets ride along.                             *)
(***************************************************************************)
EXTENDS Naturals, Sequences

CONSTANTS
  Texts,     \* the strings that may stand where a region belongs
  Regions,   \* those that have the shape of a region
  Served     \* RUNTIME_ALLOWLIST

NoRegion == ""

ASSUME RegionsAssumption ==
  Served \subseteq Regions /\ Regions \subseteq Texts /\ NoRegion \in Texts

VARIABLES
  rows,     \* the CLI's rows, by key
  reading,  \* is a read under way?
  at,       \* the record it is looking for, an index of Order
  key,      \* and under which of its keys
  got       \* the rows it has found

readerVars == <<reading, at, key, got>>

Row(login, usable, left, region) ==
  [login |-> login, usable |-> usable, left |-> left, region |-> region]
Absent == Row(0, FALSE, 0, NoRegion)

RowSet == [login : Nat, usable : BOOLEAN, left : Nat, region : Texts]

Records == {"token", "registration", "region", "profile"}

\* TOKEN_KEYS and REGISTRATION_KEYS: the first key that has a row wins.
Keys(record) ==
  CASE record = "token"        -> <<"odic:token", "oidc:token">>
    [] record = "registration" -> <<"odic:registration", "oidc:registration">>
    [] record = "region"       -> <<"auth.idc.region">>
    [] record = "profile"      -> <<"api.codewhisperer.profile">>

AllKeys == UNION { {Keys(record)[i] : i \in DOMAIN Keys(record)} : record \in Records }

\* The two rows of state may be missing.
Optional(record) == record \in {"region", "profile"}

\* The token record read last.
TokenLast == <<"registration", "region", "profile", "token">>

Order == <<"token", "registration", "region", "profile">>

NothingGot == [record \in Records |-> Absent]

-----------------------------------------------------------------------------
(* What is made of the rows.                                               *)

Ok(s)        == s \in Regions
OkRuntime(s) == s \in Served

\* Names of AuthError; "" is success.  Without a token record one more SELECT
\* tells a social login apart from none at all: they are one error here.
Unusable(record) == IF record = "token" THEN "BadTokenJson" ELSE "MissingDeviceRegistration"
Missing(record)  == IF record = "token" THEN "NoCredentials" ELSE "MissingDeviceRegistration"

FirstOf(seq, Good(_)) ==
  LET good == {i \in DOMAIN seq : Good(seq[i])}
  IN IF good = {} THEN NoRegion ELSE seq[CHOOSE i \in good : \A j \in good : i <= j]

Known(s) == s # NoRegion

\* The SSO region is the token's, else the state's, and must look like one; the
\* runtime's is the first of the token's, the profile ARN's and the state's that
\* is served.
SsoRegion(rs) == FirstOf(<<rs["token"].region, rs["region"].region>>, Known)

RuntimeRegion(rs) ==
  FirstOf(<<rs["token"].region, rs["profile"].region, rs["region"].region>>, OkRuntime)

RegionError(rs) ==
  IF SsoRegion(rs) = NoRegion THEN "NoSsoRegion"
  ELSE IF ~Ok(SsoRegion(rs)) THEN "Region"
  ELSE IF RuntimeRegion(rs) = NoRegion THEN "NoRuntimeRegion" ELSE ""

Result(error, rs) ==
  IF error # "" THEN [error |-> error, left |-> 0, sso |-> NoRegion, runtime |-> NoRegion]
  ELSE [error |-> "", left |-> rs["token"].left, sso |-> SsoRegion(rs),
        runtime |-> RuntimeRegion(rs)]

-----------------------------------------------------------------------------
(* The SELECTs.                                                            *)

StartRead ==
  /\ ~reading
  /\ reading' = TRUE /\ at' = 1 /\ key' = 1 /\ got' = NothingGot

StopRead == reading' = FALSE /\ at' = 1 /\ key' = 1 /\ got' = NothingGot

Looking == reading /\ at <= Len(Order)
Record  == Order[at]
Found   == rows[Keys(Record)[key]]

Keep(row) ==
  /\ got' = [got EXCEPT ![Record] = row]
  /\ at' = at + 1 /\ key' = 1
  /\ UNCHANGED reading

\* A row, or the last chance to find one that may be missing.
Select(row) ==
  /\ Looking
  /\ \/ row # Absent /\ (row.usable \/ Optional(Record)) /\ Keep(row)
     \/ row = Absent /\ key < Len(Keys(Record)) /\ key' = key + 1 /\ UNCHANGED <<reading, at, got>>
     \/ row = Absent /\ key = Len(Keys(Record)) /\ Optional(Record) /\ Keep(row)

\* The read ends without a credential...
Refuse(row, error) ==
  /\ Looking
  /\ \/ row # Absent /\ ~row.usable /\ ~Optional(Record) /\ error = Unusable(Record)
     \/ row = Absent /\ key = Len(Keys(Record)) /\ ~Optional(Record) /\ error = Missing(Record)
  /\ StopRead

\* ... or with all the rows it needs.
Complete(error) ==
  /\ reading /\ at > Len(Order)
  /\ error = RegionError(got)
  /\ StopRead
=============================================================================
