----------------------------- MODULE MCCommands -----------------------------
(* Commands with machines that differ from a good one in at most two ways. *)
EXTENDS Commands

MCRegions == {"us-east-1", "eu-central-1", "ap-southeast-1"}
MCTexts   == MCRegions \cup {NoRegion, "Ohio"}
MCServed  == {"us-east-1", "eu-central-1"}

GoodSetup ==
  [listen |-> "loopback", region |-> NoRegion, dbGiven |-> FALSE, tokenGiven |-> FALSE,
   home |-> TRUE, ca |-> NoFile, pem |-> <<>>, dbFile |-> TRUE, explicit |-> FALSE,
   file |-> "private", wellFormed |-> TRUE, health |-> "not asked"]

Changes ==
  { <<"listen", "remote">>, <<"listen", "garbled">>,
    <<"region", "eu-central-1">>, <<"region", "ap-southeast-1">>, <<"region", "Ohio">>,
    <<"ca", Unreadable>>, <<"dbFile", FALSE>>, <<"explicit", TRUE>>,
    <<"file", "missing">>, <<"file", "shared">>, <<"file", "unreadable">>, <<"file", "locked">>,
    <<"wellFormed", FALSE>>, <<"health", "healthy">>, <<"health", "dead">> }

With(s, change) == [s EXCEPT ![change[1]] = change[2]]

Homeless == [GoodSetup EXCEPT !.home = FALSE]
OnePem(pem) == [GoodSetup EXCEPT !.ca = "file", !.pem = pem]

MCSetups ==
  { With(GoodSetup, c) : c \in Changes }
  \cup { GoodSetup, Homeless,
         [Homeless EXCEPT !.dbGiven = TRUE], [Homeless EXCEPT !.tokenGiven = TRUE],
         [Homeless EXCEPT !.dbGiven = TRUE, !.tokenGiven = TRUE] }
  \cup { OnePem(pem) : pem \in { <<>>, <<"anchor">>, <<"anchor", "malformed">>, <<"unusable">>,
                                 <<"anchor", "anchor">>, <<"anchor", "anchor", "anchor">> } }

SignedIn(token, arn, state, usable) ==
  [ token        |-> Row(1, TRUE, 2, token),
    registration |-> Row(1, usable, 0, NoRegion),
    region       |-> Row(1, TRUE, 0, state),
    profile      |-> Row(1, TRUE, 0, arn) ]

\* The regions of one sign-in: the token's own, the profile's and the state's.
MCSignIns == { SignedIn("ap-southeast-1", NoRegion, "us-east-1", TRUE) }

Profile   == SignedIn("ap-southeast-1", "us-east-1", NoRegion, TRUE)
Token     == SignedIn("eu-central-1", NoRegion, "ap-southeast-1", TRUE)
Nowhere   == SignedIn("ap-southeast-1", NoRegion, "ap-southeast-1", TRUE)
Malformed == SignedIn("Ohio", "us-east-1", "us-east-1", TRUE)
Halfway   == SignedIn("us-east-1", "us-east-1", "us-east-1", FALSE)
Regionless == SignedIn(NoRegion, "us-east-1", NoRegion, TRUE)

NoRows == [k \in AllKeys |-> Absent]

Holding(s, spelling) ==
  [k \in AllKeys |->
     IF \E record \in Records : k = Keys(record)[IF Len(Keys(record)) = 1 THEN 1 ELSE spelling]
     THEN s[CHOOSE record \in Records : \E i \in DOMAIN Keys(record) : k = Keys(record)[i]]
     ELSE Absent]

\* The second spelling is left by an earlier Kiro CLI.
MCInitialRows ==
  {NoRows} \cup { Holding(s, 1) : s \in {Profile, Nowhere, Malformed, Halfway, Regionless} }
  \cup {Holding(Token, 2)}
=============================================================================
