------------------------------- MODULE Preparation -------------------------------
(***************************************************************************)
(* What Job.launch does before its first call: it computes the stake and   *)
(* the amount of the manifest, and uploads it.  Meanwhile other clients    *)
(* read manifests by the url and hash some escrow has.                     *)
(***************************************************************************)
EXTENDS Amounts, Storage, FiniteSets

CONSTANTS
    Launches,     \* launches of an instance
    Offers,       \* Offers[l]: the manifests l may be given
    HashOf(_),    \* hash(JSON.stringify(manifest))
    OwnEndpoint,  \* how S3 locates the objects of this library
    Elsewhere,    \* [url, hash] pairs others have put on the chain: any url with any hash
    Readers,      \* downloads of an instance
    None          \* no value yet

(* Numbers a float counts exactly, and a percentage. *)
ManifestType == [tasks : 0 .. Limit, price : 0 .. Limit, stake : 0 .. 100]

Manifests == UNION {Offers[l] : l \in Launches}

ASSUME PreparationAssumption ==
    /\ \A l \in Launches : Offers[l] \subseteq ManifestType
    /\ \A m \in Manifests : HashOf(m) \in Hashes
    /\ \A m, n \in Manifests : HashOf(m) = HashOf(n) => m = n
    /\ None \notin Manifests
    /\ OwnEndpoint \in Endpoints

VARIABLES
    bucket,    \* the objects of this library's bucket: a set of [key, body]
    phase,     \* phase[l]: idle, refused, uploading, stored, failed or uploaded
    manifest,  \* manifest[l]: what l is given
    terms,     \* terms[l]: its [stake, amount] as the chain will get them
    info,      \* info[l]: the [url, hash] its upload returned
    read       \* read[r]: the [info, answer] of download r

vars == <<bucket, phase, manifest, terms, info, read>>

Phases == {"idle", "refused", "uploading", "stored", "failed", "uploaded"}

--------------------------------------------------------------------------------
Init ==
    /\ bucket = {}
    /\ phase = [l \in Launches |-> "idle"]
    /\ manifest = [l \in Launches |-> None]
    /\ terms = [l \in Launches |-> None]
    /\ info = [l \in Launches |-> None]
    /\ read = [r \in Readers |-> None]

TermsOf(m) == [stake |-> OracleStake(m.stake), amount |-> FormattedAmount(m.tasks, m.price)]

(* BN took both. *)
Agreed(t) == t.stake # Refused /\ t.amount # Refused

(* Mutated: the manifest is uploaded whatever the amounts. *)
PrepareLate(l, m) ==
    /\ phase[l] = "idle"
    /\ manifest' = [manifest EXCEPT ![l] = m]
    /\ terms' = [terms EXCEPT ![l] = TermsOf(m)]
    /\ phase' = [phase EXCEPT ![l] = "uploading"]
    /\ UNCHANGED <<bucket, info, read>>

(* The amounts are computed, or BN throws; then the upload is asked for. *)
Prepare(l, m) ==
    /\ phase[l] = "idle"
    /\ manifest' = [manifest EXCEPT ![l] = m]
    /\ terms' = [terms EXCEPT ![l] = TermsOf(m)]
    /\ phase' = [phase EXCEPT
                   ![l] = IF Agreed(TermsOf(m)) THEN "uploading" ELSE "refused"]
    /\ UNCHANGED <<bucket, info, read>>

(* S3 stores the manifest, in place of what has its key. *)
Store(l) ==
    /\ phase[l] = "uploading"
    /\ LET key == Key(HashOf(manifest[l]))
       IN bucket' = {o \in bucket : o.key # key} \cup {[key |-> key, body |-> manifest[l]]}
    /\ phase' = [phase EXCEPT ![l] = "stored"]
    /\ UNCHANGED <<manifest, terms, info, read>>

InfoOf(m) ==
    [url |-> Location(OwnEndpoint, bucketName, Key(HashOf(m))), hash |-> HashOf(m)]

(* Mutated: the url is made up without waiting for S3. *)
UploadedAtOnce(l) ==
    /\ phase[l] \in {"uploading", "stored"}
    /\ info' = [info EXCEPT ![l] = InfoOf(manifest[l])]
    /\ phase' = [phase EXCEPT ![l] = "uploaded"]
    /\ UNCHANGED <<bucket, manifest, terms, read>>

(* S3 answers, and the upload resolves to url and hash; *)
Uploaded(l) ==
    /\ phase[l] = "stored"
    /\ info' = [info EXCEPT ![l] = InfoOf(manifest[l])]
    /\ phase' = [phase EXCEPT ![l] = "uploaded"]
    /\ UNCHANGED <<bucket, manifest, terms, read>>

(* Mutated: a failed upload is forgotten. *)
UploadForgotten(l) ==
    /\ phase[l] \in {"uploading", "stored"}
    /\ phase' = [phase EXCEPT ![l] = "idle"]
    /\ UNCHANGED <<bucket, manifest, terms, info, read>>

(* or it fails, though S3 may have stored the manifest, and launch rejects. *)
UploadFails(l) ==
    /\ phase[l] \in {"uploading", "stored"}
    /\ phase' = [phase EXCEPT ![l] = "failed"]
    /\ UNCHANGED <<bucket, manifest, terms, info, read>>

(* The pairs an escrow may show: this library's own and those of others. *)
OwnPairs == {info[l] : l \in Launches} \ {None}

Posted == OwnPairs \cup Elsewhere

(* download of the url of i: the object of that key in this library's own bucket, or an error. *)
Download(r, i) ==
    /\ read[r] = None
    /\ LET found == {o \in bucket : o.key = KeyOf(i.url)}
       IN \/ \E o \in found :
                 read' = [read EXCEPT ![r] = [info |-> i, answer |-> "body", body |-> o.body]]
          \/ /\ found = {}
             /\ read' = [read EXCEPT ![r] = [info |-> i, answer |-> "noSuchKey", body |-> None]]
          \/ read' = [read EXCEPT ![r] = [info |-> i, answer |-> "failed", body |-> None]]
    /\ UNCHANGED <<bucket, phase, manifest, terms, info>>

Next ==
    \/ \E l \in Launches :
           \/ \E m \in Offers[l] : Prepare(l, m)
           \/ Store(l)
           \/ Uploaded(l)
           \/ UploadFails(l)
    \/ \E r \in Readers : \E i \in Posted : Download(r, i)

Spec == Init /\ [][Next]_vars

--------------------------------------------------------------------------------
TermType == [stake : Nat \cup {Refused}, amount : Nat \cup {Refused}]

PrepTypeOK ==
    /\ \A o \in bucket : o.body \in Manifests /\ o.key = Key(HashOf(o.body))
    /\ phase \in [Launches -> Phases]
    /\ \A l \in Launches :
           /\ (phase[l] = "idle") <=> (manifest[l] = None)
           /\ phase[l] # "idle" => manifest[l] \in Offers[l] /\ terms[l] \in TermType

(***************************************************************************)
(* What launch tells the chain is what the manifest says, but for the      *)
(* rounding of floats: the stake is never above the percentage and less    *)
(* than one below counts, as 0.29 gives 28; the amount is at most four     *)
(* units below tasks times price and three above, not so many per task.    *)
(***************************************************************************)
TermsAreClose ==
    \A l \in Launches :
        (terms[l] # None /\ Agreed(terms[l])) =>
            LET m     == manifest[l]
                exact == m.tasks * m.price * 10 ^ Decimals
                paid  == terms[l].amount * PriceScale
            IN /\ terms[l].stake \in {m.stake - 1, m.stake}
               /\ paid - exact \in (- 4 * PriceScale) .. (3 * PriceScale)

(***************************************************************************)
(* Three roundings and a cut, and yet of a price that is a whole number of *)
(* the currency no unit is lost, however many tasks and decimals: what BN  *)
(* takes is then to the unit what is due.                                  *)
(***************************************************************************)
WholePricesAreExact ==
    \A l \in Launches :
        (terms[l] # None /\ Agreed(terms[l])) =>
            \A whole \in 0 .. manifest[l].price :
                whole * PriceScale = manifest[l].price
                    => terms[l].amount = manifest[l].tasks * whole * 10 ^ Decimals

(***************************************************************************)
(* A launch whose amounts BN refuses leaves nothing in the bucket: all     *)
(* that is there belongs to a launch that went on.                         *)
(***************************************************************************)
RefusedLeavesNothing ==
    \A o \in bucket : \E l \in Launches : manifest[l] = o.body /\ Agreed(terms[l])

(* A pair that upload returns, to this library or to one with another bucket. *)
FromUpload(i) ==
    i.hash \in Hashes /\ \E e \in Endpoints, b \in Buckets : i.url = Location(e, b, Key(i.hash))

(***************************************************************************)
(* A pair that came from an upload gives the document it was returned for  *)
(* or none, though its url may name another bucket or lack the text that   *)
(* download looks for.  download compares no hash, so of a pair that       *)
(* createEscrow was given with a hash of another document nothing is said. *)
(***************************************************************************)
DownloadIsAuthentic ==
    \A r \in Readers :
        (read[r] # None /\ read[r].answer = "body" /\ FromUpload(read[r].info))
            => HashOf(read[r].body) = read[r].info.hash

(***************************************************************************)
(* A url, wherever it comes from and whatever hash is posted beside it,    *)
(* does not come to show another document: once it was downloaded, what a  *)
(* download of it would find is the same, whatever uploads, repeated and   *)
(* failed ones, come after.                                                *)
(***************************************************************************)
UrlsNameDocuments ==
    \A r \in Readers :
        (read[r] # None /\ read[r].answer = "body") =>
            {o.body : o \in {p \in bucket : p.key = KeyOf(read[r].info.url)}} = {read[r].body}

(***************************************************************************)
(* A url that upload returned can be downloaded from then on, where S3     *)
(* locates the objects of the bucket at its global endpoint.               *)
(***************************************************************************)
UploadedIsFound ==
    \A r \in Readers :
        ( /\ OwnEndpoint = "global"
          /\ read[r] # None
          /\ read[r].info \in OwnPairs \ Elsewhere ) => read[r].answer # "noSuchKey"

(***************************************************************************)
(* upload returns a url to retrieve the document from, wherever S3 locates *)
(* the objects of the bucket.                                              *)
(***************************************************************************)
UploadedCanBeDownloaded ==
    \A r \in Readers :
        (read[r] # None /\ read[r].info \in OwnPairs \ Elsewhere) => read[r].answer # "noSuchKey"

(***************************************************************************)
(* formatDecimals multiplies by the decimals: no unit is lost for a price  *)
(* the chain's decimals can tell.                                          *)
(***************************************************************************)
FormatMultiplies ==
    \A l \in Launches :
        (terms[l] # None /\ Agreed(terms[l]))
            => terms[l].amount * PriceScale
                   = manifest[l].tasks * manifest[l].price * 10 ^ Decimals
================================================================================
