--------------------------- MODULE Configuration ---------------------------
(***************************************************************************)
(* What the commands make of their flags (config.rs, locate.rs, policy.rs).*)
(* A setup is the flags and the parts of the machine a behaviour does not  *)
(* change: is there a home directory, what does the extra CA file hold,    *)
(* what is at the token file's path: a file by its mode the owner's alone  *)
(* ("private"), and one such that this user cannot read all the same, its  *)
(* mode being 0200 or its owner another ("locked"); one that others may    *)
(* read, or a link to one ("shared"); nothing; or what cannot be read and  *)
(* is no regular file either ("unreadable").                               *)
(***************************************************************************)
EXTENDS KiroDb, FiniteSets

CONSTANTS MaxCertificates   \* MAX_EXTRA_CA_CERTIFICATES

NoFile     == "none"
Unreadable == "unreadable"
None       == ""

SetupSet ==
  [listen : {"loopback", "remote", "garbled"}, region : Texts,
   dbGiven : BOOLEAN, tokenGiven : BOOLEAN, home : BOOLEAN,
   ca : {NoFile, Unreadable, "file"}, pem : Seq({"anchor", "malformed", "unusable"}),
   dbFile : BOOLEAN, explicit : BOOLEAN,
   file : {"private", "locked", "shared", "unreadable", "missing"}, wellFormed : BOOLEAN,
   health : {"not asked", "healthy", "dead"}]

\* parse_listen: an address, and a loopback one.
ListenOk(setup) == setup.listen = "loopback"

\* RuntimeRegion::parse of --runtime-region.
RegionOk(setup) == setup.region = NoRegion \/ OkRuntime(setup.region)

\* Both default to a path below the user's directories, if there are any.
DbPathOk(setup)    == setup.dbGiven \/ setup.home
TokenPathOk(setup) == setup.tokenGiven \/ setup.home

\* ExtraCa::from_pem: the first block that cannot be added ends it, and the one
\* past the limit.
FromPem(pem) ==
  LET stops == {i \in DOMAIN pem : pem[i] # "anchor" \/ i > MaxCertificates}
      first == CHOOSE i \in stops : \A j \in stops : i <= j
  IN IF pem = <<>> THEN "NoCertificateFound"
     ELSE IF stops = {} THEN None
     ELSE CASE pem[first] = "anchor"    -> "TooManyCertificates"
            [] pem[first] = "malformed" -> "MalformedPem"
            [] pem[first] = "unusable"  -> "NotATrustAnchor"

\* read_extra_ca.
ExtraCaError(setup) ==
  IF setup.ca = NoFile THEN None
  ELSE IF setup.ca = Unreadable THEN Unreadable ELSE FromPem(setup.pem)

\* ServeConfig::from_args, in its order.
ServeError(setup) ==
  IF setup.listen = "garbled" THEN "BadListen"
  ELSE IF setup.listen = "remote" THEN "NotLoopback"
  ELSE IF ~RegionOk(setup) THEN "Region"
  ELSE IF ExtraCaError(setup) # None THEN "ExtraCa"
  ELSE IF ~DbPathOk(setup) THEN "NoDbPath"
  ELSE IF ~TokenPathOk(setup) THEN "NoTokenDir" ELSE None
=============================================================================
