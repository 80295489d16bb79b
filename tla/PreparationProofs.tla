--------------------------- MODULE PreparationProofs ---------------------------
(***************************************************************************)
(* What holds of launch's preparation and of downloads for any buckets,    *)
(* documents, urls and amounts, and any precision of floats.               *)
(***************************************************************************)
EXTENDS Preparation, AmountsProofs, SequenceTheorems, TLAPS

Global(b, k)   == <<"https://", b, ".", Marker, k[1], k[2]>>
Regional(b, k) == <<"https://", b, ".", "s3.region.amazonaws.com/", k[1], k[2]>>
Path(b, k)     == <<"https://", Marker, b, "/", k[1], k[2]>>

(* A url of two tokens behind its prefix, written out. *)
LEMMA Prefixed ==
    ASSUME NEW p1, NEW p2, NEW p3, NEW p4, NEW h
    PROVE  <<p1, p2, p3, p4>> \o <<"s3", h>> = <<p1, p2, p3, p4, "s3", h>>
<1> DEFINE S == {p1, p2, p3, p4, "s3", h}
           x == <<p1, p2, p3, p4>>
           y == <<"s3", h>>
           z == <<p1, p2, p3, p4, "s3", h>>
<1>1. x \in Seq(S) /\ y \in Seq(S) /\ z \in Seq(S)  OBVIOUS
<1>2. Len(x) = 4 /\ Len(y) = 2 /\ Len(z) = 6  OBVIOUS
<1>3. /\ x[1] = z[1] /\ x[2] = z[2] /\ x[3] = z[3] /\ x[4] = z[4]
      /\ y[1] = z[5] /\ y[2] = z[6]
  OBVIOUS
<1> HIDE DEF x, y, z, S
<1>4. /\ x \o y \in Seq(S)
      /\ Len(x \o y) = Len(x) + Len(y)
      /\ \A i \in 1 .. Len(x) + Len(y) :
             (x \o y)[i] = IF i <= Len(x) THEN x[i] ELSE y[i - Len(x)]
  BY <1>1, ConcatProperties, Zenon
<1> DEFINE w == x \o y
<1>5. w \in Seq(S) /\ Len(w) = Len(x) + Len(y)  BY <1>4
<1>6. \A i \in 1 .. Len(x) + Len(y) : w[i] = IF i <= Len(x) THEN x[i] ELSE y[i - Len(x)]
  BY <1>4
<1> HIDE DEF w
<1>7. Len(w) = 6  BY <1>2, <1>5
<1>8. \A i \in 1 .. 6 : w[i] = IF i <= 4 THEN x[i] ELSE y[i - 4]  BY <1>2, <1>6
<1>9. \A i \in 1 .. 6 : w[i] = z[i]
  <2> TAKE i \in 1 .. 6
  <2>1. i \in {1, 2, 3, 4, 5, 6}  OBVIOUS
  <2> QED  BY <2>1, <1>8, <1>3
<1>10. w = z  BY <1>1, <1>2, <1>5, <1>7, <1>9, SeqEqual
<1> QED  BY <1>10 DEF w, x, y, z

LEMMA Located ==
    ASSUME NEW b \in Buckets, NEW h \in Hashes
    PROVE  /\ Location("global", b, Key(h)) = Global(b, Key(h))
           /\ Location("regional", b, Key(h)) = Regional(b, Key(h))
           /\ Location("path", b, Key(h)) = Path(b, Key(h))
<1>1. Key(h) = <<"s3", h>> /\ Key(h)[1] = "s3" /\ Key(h)[2] = h  BY DEF Key
<1> QED  BY <1>1, Prefixed DEF Location, Global, Regional, Path

(* Where the marker is in each of the three. *)
LEMMA Marked ==
    ASSUME NEW b \in Buckets, NEW h \in Hashes
    PROVE  /\ {i \in 1 .. Len(Global(b, Key(h))) : Global(b, Key(h))[i] = Marker} = {4}
           /\ {i \in 1 .. Len(Regional(b, Key(h))) : Regional(b, Key(h))[i] = Marker} = {}
           /\ {i \in 1 .. Len(Path(b, Key(h))) : Path(b, Key(h))[i] = Marker} = {2}
<1>1. Key(h)[1] = "s3" /\ Key(h)[2] = h  BY DEF Key
<1>2. b # Marker /\ h # Marker
  BY StorageAssumption DEF StorageAssumption, Punctuation
<1>3. /\ Marker # "https://" /\ Marker # "." /\ Marker # "/" /\ Marker # "s3"
      /\ Marker # "s3.region.amazonaws.com/"
  BY DEF Marker
<1> HIDE DEF Marker
<1>4. 1 .. 6 = {1, 2, 3, 4, 5, 6}  OBVIOUS
<1>5. {i \in 1 .. Len(Global(b, Key(h))) : Global(b, Key(h))[i] = Marker} = {4}
  <2> DEFINE u == Global(b, Key(h))
  <2>1. /\ Len(u) = 6 /\ u[1] = "https://" /\ u[2] = b /\ u[3] = "." /\ u[4] = Marker
        /\ u[5] = "s3" /\ u[6] = h
    BY <1>1 DEF Global
  <2> HIDE DEF u
  <2>2. {i \in 1 .. Len(u) : u[i] = Marker} = {4}  BY <2>1, <1>2, <1>3, <1>4
  <2> QED  BY <2>2 DEF u
<1>6. {i \in 1 .. Len(Regional(b, Key(h))) : Regional(b, Key(h))[i] = Marker} = {}
  <2> DEFINE u == Regional(b, Key(h))
  <2>1. /\ Len(u) = 6 /\ u[1] = "https://" /\ u[2] = b /\ u[3] = "."
        /\ u[4] = "s3.region.amazonaws.com/" /\ u[5] = "s3" /\ u[6] = h
    BY <1>1 DEF Regional
  <2> HIDE DEF u
  <2>2. {i \in 1 .. Len(u) : u[i] = Marker} = {}  BY <2>1, <1>2, <1>3, <1>4
  <2> QED  BY <2>2 DEF u
<1>7. {i \in 1 .. Len(Path(b, Key(h))) : Path(b, Key(h))[i] = Marker} = {2}
  <2> DEFINE u == Path(b, Key(h))
  <2>1. /\ Len(u) = 6 /\ u[1] = "https://" /\ u[2] = Marker /\ u[3] = b /\ u[4] = "/"
        /\ u[5] = "s3" /\ u[6] = h
    BY <1>1 DEF Path
  <2> HIDE DEF u
  <2>2. {i \in 1 .. Len(u) : u[i] = Marker} = {2}  BY <2>1, <1>2, <1>3, <1>4
  <2> QED  BY <2>2 DEF u
<1> QED  BY <1>5, <1>6, <1>7

(* The global endpoint's key is the document's; the others give no document's key. *)
LEMMA KeyOfLocation ==
    ASSUME NEW b \in Buckets, NEW h \in Hashes
    PROVE  /\ KeyOf(Location("global", b, Key(h))) = Key(h)
           /\ \A g \in Hashes : KeyOf(Location("regional", b, Key(h))) # Key(g)
           /\ \A g \in Hashes : KeyOf(Location("path", b, Key(h))) # Key(g)
<1>1. KeyOf(Global(b, Key(h))) = Key(h)
  <2> DEFINE u == Global(b, Key(h))
  <2>1. Len(u) = 6 /\ u[5] = "s3" /\ u[6] = h  BY DEF Global, Key
  <2>2. {i \in 1 .. Len(u) : u[i] = Marker} = {4}  BY Marked
  <2> HIDE DEF u
  <2>3. KeyOf(u) = SubSeq(u, 5, 6)  BY <2>1, <2>2 DEF KeyOf
  <2> DEFINE S == {"s3", h}
             w == SubSeq(u, 5, 6)
             z == <<"s3", h>>
  <2>4. \A i \in 5 .. 6 : u[i] \in S
    <3> TAKE i \in 5 .. 6
    <3>1. i \in {5, 6}  OBVIOUS
    <3> QED  BY <3>1, <2>1
  <2>5. z \in Seq(S) /\ Len(z) = 2 /\ z[1] = "s3" /\ z[2] = h  OBVIOUS
  <2> HIDE DEF S, z
  <2>6. /\ w \in Seq(S) /\ Len(w) = 2
        /\ \A i \in 1 .. 2 : w[i] = u[i + 4]
    <3>1. Len(w) = 2 /\ w[1] = u[5] /\ w[2] = u[6]  BY <2>1
    <3>2. \A i \in 1 .. 2 : i = 1 \/ i = 2  OBVIOUS
    <3>3. w \in Seq(S)  BY <2>4, SubSeqProperties
    <3> HIDE DEF w
    <3> QED  BY <3>1, <3>2, <3>3
  <2> HIDE DEF w
  <2>7. w[1] = "s3" /\ w[2] = h  BY <2>1, <2>6
  <2>8. \A i \in 1 .. 2 : w[i] = z[i]
    <3> TAKE i \in 1 .. 2
    <3>1. i \in {1, 2}  OBVIOUS
    <3> QED  BY <3>1, <2>5, <2>7
  <2>9. w = z  BY <2>5, <2>6, <2>8, SeqEqual
  <2> QED  BY <2>3, <2>9 DEF u, w, z, Key
<1>2. \A g \in Hashes : Len(Key(g)) = 2  BY DEF Key
<1>3. Len(KeyOf(Regional(b, Key(h)))) = 4
  <2> DEFINE u == Regional(b, Key(h))
             S == {"https://", b, ".", "s3.region.amazonaws.com/", "s3", h}
  <2>1. u \in Seq(S) /\ Len(u) = 6  BY DEF Regional, Key
  <2>2. {i \in 1 .. Len(u) : u[i] = Marker} = {}  BY Marked
  <2> HIDE DEF u, S
  <2>3. KeyOf(u) = Tail(Tail(u))  BY <2>2 DEF KeyOf
  <2> DEFINE none == <<>>
  <2>0. Len(none) = 0  OBVIOUS
  <2> HIDE DEF none
  <2>4. u # <<>>
    <3>1. Len(u) = 6  BY <2>1
    <3> QED  BY <2>0, <3>1 DEF none
  <2>5. Tail(u) \in Seq(S) /\ Len(Tail(u)) = 5
    BY <2>1, <2>4, HeadTailProperties
  <2> DEFINE v == Tail(u)
  <2>6. v # <<>>
    <3>1. Len(v) = 5  BY <2>5
    <3> HIDE DEF v
    <3> QED  BY <2>0, <3>1 DEF none
  <2>7. Len(Tail(Tail(u))) = 4
    BY <2>5, <2>6, HeadTailProperties
  <2> QED  BY <2>3, <2>7 DEF u
<1>4. Len(KeyOf(Path(b, Key(h)))) = 4
  <2> DEFINE u == Path(b, Key(h))
             S == {"https://", Marker, b, "/", "s3", h}
  <2>1. Len(u) = 6 /\ \A i \in 3 .. 6 : u[i] \in S
    <3>1. \A i \in 3 .. 6 : i \in {3, 4, 5, 6}  OBVIOUS
    <3>2. Len(u) = 6 /\ u[3] \in S /\ u[4] \in S /\ u[5] \in S /\ u[6] \in S
      BY DEF Path, Key
    <3> HIDE DEF u, S
    <3> QED  BY <3>1, <3>2
  <2>2. {i \in 1 .. Len(u) : u[i] = Marker} = {2}  BY Marked
  <2> HIDE DEF u, S
  <2>3. KeyOf(u) = SubSeq(u, 3, 6)  BY <2>1, <2>2 DEF KeyOf
  <2>4. Len(SubSeq(u, 3, 6)) = 4  BY <2>1
  <2> QED  BY <2>3, <2>4 DEF u
<1> QED  BY <1>1, <1>2, <1>3, <1>4, Located

--------------------------------------------------------------------------------
(***************************************************************************)
(* The inductive invariant.  The properties alone are not inductive: that  *)
(* a download is authentic rests on what every object of the bucket is     *)
(* named after, and that a url keeps its document on some object's having  *)
(* the name that was cut out of it; that a refused launch left nothing, on *)
(* which phases BN let a launch come to; that an uploaded document is      *)
(* found, on the bucket holding it from the moment S3 stored it; and what  *)
(* is said of terms, on their being those of the manifest from the step    *)
(* they are computed in.                                                   *)
(***************************************************************************)
Went == {"uploading", "stored", "failed", "uploaded"}

LaunchFits(l) ==
    /\ phase[l] \in Phases
    /\ phase[l] = "idle" => manifest[l] = None /\ terms[l] = None /\ info[l] = None
    /\ phase[l] # "idle" => manifest[l] \in Offers[l] /\ terms[l] = TermsOf(manifest[l])
    /\ phase[l] \in Went => Agreed(terms[l])
    /\ phase[l] \in {"stored", "uploaded"} =>
           \E o \in bucket : o.key = Key(HashOf(manifest[l]))
    /\ info[l] # None => phase[l] = "uploaded" /\ info[l] = InfoOf(manifest[l])

ObjectFits(o) ==
    /\ o.key = Key(HashOf(o.body))
    /\ \E l \in Launches : manifest[l] = o.body /\ phase[l] \in Went

ReadFits(r) ==
    read[r] # None =>
        /\ read[r].answer = "body" =>
               /\ read[r].body \in Manifests /\ Key(HashOf(read[r].body)) = KeyOf(read[r].info.url)
               /\ \E o \in bucket : o.key = KeyOf(read[r].info.url)
        /\ (read[r].answer = "noSuchKey" /\ OwnEndpoint = "global")
               => read[r].info \in Elsewhere

IInv ==
    /\ phase \in [Launches -> Phases]
    /\ manifest \in [Launches -> Manifests \cup {None}]
    /\ DOMAIN terms = Launches /\ DOMAIN info = Launches /\ DOMAIN read = Readers
    /\ \A l \in Launches : LaunchFits(l)
    /\ \A o \in bucket : ObjectFits(o)
    /\ \A r \in Readers : ReadFits(r)

LEMMA InitHolds == Init => IInv
BY DEF Init, IInv, LaunchFits, ReadFits, Phases, Went

LEMMA Offered ==
    \A l \in Launches : \A m \in Offers[l] : m \in Manifests /\ m # None /\ HashOf(m) \in Hashes
BY PreparationAssumption DEF PreparationAssumption, Manifests

(* Another launch's state, and with a bucket that lost no key, what is said of it, stays. *)
LEMMA OthersStay ==
    ASSUME NEW l \in Launches, NEW k \in Launches, k # l, LaunchFits(k),
           phase'[k] = phase[k], manifest'[k] = manifest[k],
           terms'[k] = terms[k], info'[k] = info[k],
           \A o \in bucket : \E p \in bucket' : p.key = o.key
    PROVE  LaunchFits(k)'
BY DEF LaunchFits, Agreed, InfoOf

LEMMA PrepareKeeps ==
    ASSUME IInv, NEW l \in Launches, NEW m \in Offers[l], Prepare(l, m)
    PROVE  IInv'
<1>1. m \in Manifests  BY Offered
<1>2. /\ phase' \in [Launches -> Phases]
      /\ manifest' \in [Launches -> Manifests \cup {None}]
      /\ DOMAIN terms' = Launches /\ DOMAIN info' = Launches /\ DOMAIN read' = Readers
  BY <1>1 DEF IInv, Prepare, Phases
<1>3. LaunchFits(l)'
  BY DEF IInv, Prepare, LaunchFits, Went, Phases, Agreed
<1>4. \A k \in Launches : k # l => LaunchFits(k)'
  <2> TAKE k \in Launches
  <2> HAVE k # l
  <2>1. /\ phase'[k] = phase[k] /\ manifest'[k] = manifest[k] /\ terms'[k] = terms[k]
        /\ info'[k] = info[k] /\ bucket' = bucket
    BY DEF IInv, Prepare
  <2> QED  BY <2>1, OthersStay DEF IInv
<1>5. \A o \in bucket' : ObjectFits(o)'
  <2> TAKE o \in bucket'
  <2>1. o \in bucket  BY DEF Prepare
  <2>2. PICK k \in Launches : manifest[k] = o.body /\ phase[k] \in Went
    BY <2>1 DEF IInv, ObjectFits
  <2>3. k # l  BY <2>2 DEF Prepare, Went
  <2>4. manifest'[k] = o.body /\ phase'[k] \in Went
    BY <2>2, <2>3 DEF IInv, Prepare
  <2> QED  BY <2>1, <2>4 DEF IInv, ObjectFits
<1>6. \A r \in Readers : ReadFits(r)'
  BY DEF IInv, Prepare, ReadFits
<1> QED  BY <1>2, <1>3, <1>4, <1>5, <1>6 DEF IInv

LEMMA StoreKeeps ==
    ASSUME IInv, NEW l \in Launches, Store(l)
    PROVE  IInv'
<1> DEFINE key == Key(HashOf(manifest[l]))
           new == [key |-> key, body |-> manifest[l]]
<1>0. new.key = key /\ new.body = manifest[l]  OBVIOUS
<1>1. new \in bucket'  BY DEF Store
<1>2. \A o \in bucket' : o \in bucket \/ o = new  BY DEF Store
<1>3. \A o \in bucket : \E p \in bucket' : p.key = o.key
  BY <1>0, <1>1 DEF Store
<1>4. /\ phase[l] = "uploading" /\ phase' = [phase EXCEPT ![l] = "stored"]
      /\ UNCHANGED <<manifest, terms, info, read>>
  BY DEF Store
<1> HIDE DEF new
<1>5. phase' \in [Launches -> Phases]  BY <1>4 DEF IInv, Phases
<1>6. LaunchFits(l)'
  BY <1>0, <1>1, <1>4 DEF IInv, LaunchFits, Went, Phases, Agreed
<1>7. \A k \in Launches : k # l => LaunchFits(k)'
  <2> TAKE k \in Launches
  <2> HAVE k # l
  <2>1. /\ phase'[k] = phase[k] /\ manifest'[k] = manifest[k] /\ terms'[k] = terms[k]
        /\ info'[k] = info[k]
    BY <1>4 DEF IInv
  <2> QED  BY <2>1, <1>3, OthersStay DEF IInv
<1>8. \A o \in bucket' : ObjectFits(o)'
  <2> TAKE o \in bucket'
  <2>1. CASE o = new
    BY <2>1, <1>0, <1>4 DEF IInv, ObjectFits, Went
  <2>2. CASE o \in bucket
    <3>1. PICK k \in Launches : manifest[k] = o.body /\ phase[k] \in Went
      BY <2>2 DEF IInv, ObjectFits
    <3>2. manifest'[k] = o.body /\ phase'[k] \in Went
      BY <3>1, <1>4 DEF IInv, Went
    <3> QED  BY <2>2, <3>2 DEF IInv, ObjectFits
  <2> QED  BY <2>1, <2>2, <1>2
<1>9. \A r \in Readers : ReadFits(r)'
  BY <1>3, <1>4 DEF IInv, ReadFits
<1> QED  BY <1>4, <1>5, <1>6, <1>7, <1>8, <1>9 DEF IInv

LEMMA AnswerKeeps ==
    ASSUME IInv, NEW l \in Launches, Uploaded(l) \/ UploadFails(l)
    PROVE  IInv'
<1>1. /\ phase[l] \in {"uploading", "stored"}
      /\ phase' = [phase EXCEPT ![l] = phase'[l]]
      /\ phase'[l] \in {"uploaded", "failed"}
      /\ UNCHANGED <<bucket, manifest, terms, read>>
  BY DEF IInv, Uploaded, UploadFails
<1>2. phase' \in [Launches -> Phases]  BY <1>1 DEF IInv, Phases
<1>3. DOMAIN info' = Launches /\ \A k \in Launches : k # l => info'[k] = info[k]
  BY DEF IInv, Uploaded, UploadFails
<1>4. LaunchFits(l)'
  <2>1. CASE Uploaded(l)
    BY <2>1 DEF IInv, Uploaded, LaunchFits, Went, Phases, Agreed, InfoOf
  <2>2. CASE UploadFails(l)
    BY <2>2 DEF IInv, UploadFails, LaunchFits, Went, Phases, Agreed
  <2> QED  BY <2>1, <2>2
<1>5. \A k \in Launches : k # l => LaunchFits(k)'
  <2> TAKE k \in Launches
  <2> HAVE k # l
  <2>1. phase'[k] = phase[k] /\ manifest'[k] = manifest[k] /\ terms'[k] = terms[k]
    BY <1>1 DEF IInv
  <2> QED  BY <2>1, <1>1, <1>3, OthersStay DEF IInv
<1>6. \A o \in bucket' : ObjectFits(o)'
  <2> TAKE o \in bucket'
  <2>1. PICK k \in Launches : manifest[k] = o.body /\ phase[k] \in Went
    BY <1>1 DEF IInv, ObjectFits
  <2>2. manifest'[k] = o.body /\ phase'[k] \in Went
    BY <2>1, <1>1 DEF IInv, Went
  <2> QED  BY <2>2, <1>1 DEF IInv, ObjectFits
<1>7. \A r \in Readers : ReadFits(r)'
  BY <1>1 DEF IInv, ReadFits
<1> QED  BY <1>1, <1>2, <1>3, <1>4, <1>5, <1>6, <1>7 DEF IInv

(* Every object is a manifest of the instance. *)
LEMMA ObjectsAreManifests ==
    ASSUME IInv, NEW o \in bucket
    PROVE  o.body \in Manifests /\ o.key = Key(HashOf(o.body))
<1>1. PICK l \in Launches : manifest[l] = o.body /\ phase[l] \in Went
  BY DEF IInv, ObjectFits
<1>2. manifest[l] \in Offers[l]  BY <1>1 DEF IInv, LaunchFits, Went
<1> QED  BY <1>1, <1>2, Offered DEF IInv, ObjectFits

(* The object found behind a url that came from an upload is the one with the hash beside it. *)
LEMMA FoundIsMeant ==
    ASSUME NEW i, FromUpload(i), NEW m \in Manifests, Key(HashOf(m)) = KeyOf(i.url)
    PROVE  HashOf(m) = i.hash
<1>1. PICK e \in Endpoints, b \in Buckets : i.url = Location(e, b, Key(i.hash))
  BY DEF FromUpload
<1>2. i.hash \in Hashes /\ HashOf(m) \in Hashes
  BY PreparationAssumption DEF FromUpload, PreparationAssumption
<1>3. e = "global"
  BY <1>1, <1>2, KeyOfLocation DEF Endpoints
<1>4. Key(HashOf(m)) = Key(i.hash)  BY <1>1, <1>2, <1>3, KeyOfLocation
<1> QED  BY <1>4 DEF Key

(* At the global endpoint what this library has uploaded is behind its url. *)
LEMMA OwnIsFound ==
    ASSUME IInv, OwnEndpoint = "global", NEW i \in OwnPairs
    PROVE  \E o \in bucket : o.key = KeyOf(i.url)
<1>1. PICK l \in Launches : i = info[l] /\ info[l] # None  BY DEF OwnPairs
<1>2. i = InfoOf(manifest[l]) /\ manifest[l] \in Offers[l] /\ phase[l] = "uploaded"
  BY <1>1 DEF IInv, LaunchFits
<1>3. PICK o \in bucket : o.key = Key(HashOf(manifest[l]))
  BY <1>2 DEF IInv, LaunchFits
<1>4. HashOf(manifest[l]) \in Hashes /\ bucketName \in Buckets
  BY <1>2, Offered, StorageAssumption DEF StorageAssumption
<1>5. i.url = Location("global", bucketName, Key(HashOf(manifest[l])))
  BY <1>2 DEF InfoOf
<1> QED  BY <1>3, <1>4, <1>5, KeyOfLocation

LEMMA DownloadKeeps ==
    ASSUME IInv, NEW r \in Readers, NEW i \in Posted, Download(r, i)
    PROVE  IInv'
<1>1. UNCHANGED <<bucket, phase, manifest, terms, info>>  BY DEF Download
<1>2. DOMAIN read' = Readers /\ \A s \in Readers : s # r => read'[s] = read[s]
  BY DEF IInv, Download
<1>3. ReadFits(r)'
  <2>1. \/ \E o \in bucket :
               o.key = KeyOf(i.url) /\ read'[r] = [info |-> i, answer |-> "body", body |-> o.body]
        \/ /\ ~ \E o \in bucket : o.key = KeyOf(i.url)
           /\ read'[r] = [info |-> i, answer |-> "noSuchKey", body |-> None]
        \/ read'[r] = [info |-> i, answer |-> "failed", body |-> None]
    BY DEF IInv, Download
  <2>2. CASE \E o \in bucket :
               o.key = KeyOf(i.url) /\ read'[r] = [info |-> i, answer |-> "body", body |-> o.body]
    BY <1>1, <2>2, ObjectsAreManifests DEF ReadFits
  <2>3. CASE /\ ~ \E o \in bucket : o.key = KeyOf(i.url)
             /\ read'[r] = [info |-> i, answer |-> "noSuchKey", body |-> None]
    BY <2>3, OwnIsFound DEF ReadFits, Posted
  <2>4. CASE read'[r] = [info |-> i, answer |-> "failed", body |-> None]
    BY <2>4 DEF ReadFits
  <2> QED  BY <2>1, <2>2, <2>3, <2>4
<1>4. \A s \in Readers : s # r => ReadFits(s)'
  BY <1>1, <1>2 DEF IInv, ReadFits
<1>5. (\A l \in Launches : LaunchFits(l)') /\ (\A o \in bucket' : ObjectFits(o)')
  BY <1>1 DEF IInv, LaunchFits, ObjectFits, Agreed
<1> QED  BY <1>1, <1>2, <1>3, <1>4, <1>5 DEF IInv

LEMMA NextKeeps == IInv /\ [Next]_vars => IInv'
<1> SUFFICES ASSUME IInv, [Next]_vars PROVE IInv'  OBVIOUS
<1>1. ASSUME NEW l \in Launches, NEW m \in Offers[l], Prepare(l, m) PROVE IInv'
  BY <1>1, PrepareKeeps
<1>2. ASSUME NEW l \in Launches, Store(l) PROVE IInv'  BY <1>2, StoreKeeps
<1>3. ASSUME NEW l \in Launches, Uploaded(l) \/ UploadFails(l) PROVE IInv'
  BY <1>3, AnswerKeeps
<1>4. ASSUME NEW r \in Readers, NEW i \in Posted, Download(r, i) PROVE IInv'
  BY <1>4, DownloadKeeps
<1>5. CASE UNCHANGED vars
  BY <1>5 DEF vars, IInv, LaunchFits, ObjectFits, ReadFits, Agreed
<1> QED  BY <1>1, <1>2, <1>3, <1>4, <1>5 DEF Next

(* Every reachable state satisfies the invariant. *)
THEOREM PreparationInvariant == Spec => []IInv
BY InitHolds, NextKeeps, PTL DEF Spec

(***************************************************************************)
(* For any amounts and any manifests, a launch whose amounts BN refuses    *)
(* has stored nothing by the time it rejects, and never will.              *)
(***************************************************************************)
THEOREM RefusedStoresNothing == Spec => []RefusedLeavesNothing
<1>1. IInv => RefusedLeavesNothing
  BY DEF IInv, ObjectFits, LaunchFits, RefusedLeavesNothing
<1> QED  BY <1>1, PreparationInvariant, PTL

(***************************************************************************)
(* For any buckets, hashes and endpoints of S3: of the pairs that uploads  *)
(* return, of this bucket or another, none gives a document with a hash    *)
(* other than the one beside the url.                                      *)
(***************************************************************************)
THEOREM OnlyAuthentic == Spec => []DownloadIsAuthentic
<1>1. IInv => DownloadIsAuthentic
  <2> SUFFICES ASSUME IInv, NEW r \in Readers, read[r] # None, read[r].answer = "body",
                      FromUpload(read[r].info)
               PROVE  HashOf(read[r].body) = read[r].info.hash
    BY DEF DownloadIsAuthentic
  <2>1. read[r].body \in Manifests /\ Key(HashOf(read[r].body)) = KeyOf(read[r].info.url)
    BY DEF IInv, ReadFits
  <2> QED  BY <2>1, FoundIsMeant
<1> QED  BY <1>1, PreparationInvariant, PTL

(***************************************************************************)
(* For any urls whatever, made by S3 or made up: one that gave a document  *)
(* gives no other later, however uploads go on.                            *)
(***************************************************************************)
THEOREM UrlsKeepTheirDocuments == Spec => []UrlsNameDocuments
<1>1. IInv => UrlsNameDocuments
  <2> SUFFICES ASSUME IInv, NEW r \in Readers, read[r] # None, read[r].answer = "body"
               PROVE  {o.body : o \in {p \in bucket : p.key = KeyOf(read[r].info.url)}}
                          = {read[r].body}
    BY DEF UrlsNameDocuments
  <2> DEFINE key == KeyOf(read[r].info.url)
  <2>1. /\ read[r].body \in Manifests /\ Key(HashOf(read[r].body)) = key
        /\ \E o \in bucket : o.key = key
    BY DEF IInv, ReadFits
  <2> HIDE DEF key
  <2>2. ASSUME NEW o \in bucket, o.key = key PROVE o.body = read[r].body
    <3>1. o.body \in Manifests /\ Key(HashOf(o.body)) = Key(HashOf(read[r].body))
      BY <2>1, <2>2, ObjectsAreManifests
    <3>2. HashOf(o.body) = HashOf(read[r].body)  BY <3>1 DEF Key
    <3> QED  BY <2>1, <3>1, <3>2, PreparationAssumption DEF PreparationAssumption
  <2>3. {o.body : o \in {p \in bucket : p.key = key}} = {read[r].body}
    BY <2>1, <2>2
  <2> QED  BY <2>3 DEF key
<1> QED  BY <1>1, PreparationInvariant, PTL

(***************************************************************************)
(* At the global endpoint no url that upload returned is ever answered     *)
(* with a missing key.                                                     *)
(***************************************************************************)
THEOREM UploadsAreFound == Spec => []UploadedIsFound
<1>1. IInv => UploadedIsFound
  BY DEF IInv, ReadFits, UploadedIsFound
<1> QED  BY <1>1, PreparationInvariant, PTL

(* The terms of any manifest: the stake is always taken, and what BN takes is close. *)
LEMMA TermsFit ==
    ASSUME NEW m \in Manifests
    PROVE  /\ TermsOf(m) \in TermType
           /\ Agreed(TermsOf(m)) =>
                  /\ TermsOf(m).stake \in {m.stake - 1, m.stake}
                  /\ TermsOf(m).amount * PriceScale - m.tasks * m.price * 10 ^ Decimals
                         \in (- 4 * PriceScale) .. (3 * PriceScale)
<1>1. m \in ManifestType
  BY PreparationAssumption DEF PreparationAssumption, Manifests
<1>2. m.tasks \in 0 .. Limit /\ m.price \in 0 .. Limit /\ m.stake \in 0 .. 100
  BY <1>1 DEF ManifestType
<1> DEFINE t == TermsOf(m)
<1>3. /\ t = [stake |-> t.stake, amount |-> t.amount]
      /\ t.stake = OracleStake(m.stake)
      /\ t.amount = FormattedAmount(m.tasks, m.price)
  BY DEF TermsOf
<1> HIDE DEF t
<1>4. t.stake \in Nat /\ t.stake \in {m.stake - 1, m.stake}  BY <1>2, <1>3, StakeIsClose
<1>5. \/ t.amount = Refused
      \/ /\ t.amount \in Nat
         /\ t.amount * PriceScale - (m.tasks * m.price) * 10 ^ Decimals
                \in (- 4 * PriceScale) .. (3 * PriceScale)
  BY <1>2, <1>3, AmountIsClose
<1>6. t \in TermType  BY <1>3, <1>4, <1>5 DEF TermType
<1> QED  BY <1>4, <1>5, <1>6 DEF t, Agreed

(***************************************************************************)
(* For any manifests and any precision of floats, the terms of a launch    *)
(* that left idle are a stake BN took and an amount it took or refused,    *)
(* and every object of the bucket is a manifest under its own hash.        *)
(***************************************************************************)
THEOREM PreparationTyped == Spec => []PrepTypeOK
<1>1. IInv => PrepTypeOK
  <2> SUFFICES ASSUME IInv PROVE PrepTypeOK  OBVIOUS
  <2>1. \A o \in bucket : o.body \in Manifests /\ o.key = Key(HashOf(o.body))
    <3> TAKE o \in bucket
    <3>1. PICK l \in Launches : manifest[l] = o.body /\ phase[l] \in Went
      BY DEF IInv, ObjectFits
    <3>2. phase[l] # "idle"  BY <3>1 DEF Went
    <3>3. manifest[l] \in Manifests  BY <3>2, Offered DEF IInv, LaunchFits
    <3> QED  BY <3>1, <3>3 DEF IInv, ObjectFits
  <2>2. ASSUME NEW l \in Launches
        PROVE  /\ (phase[l] = "idle") <=> (manifest[l] = None)
               /\ phase[l] # "idle" => manifest[l] \in Offers[l] /\ terms[l] \in TermType
    <3>1. LaunchFits(l)  BY DEF IInv
    <3>2. ASSUME phase[l] # "idle"
          PROVE  manifest[l] \in Offers[l] /\ manifest[l] # None /\ terms[l] \in TermType
      <4>1. manifest[l] \in Offers[l] /\ terms[l] = TermsOf(manifest[l])
        BY <3>1, <3>2 DEF LaunchFits
      <4>2. manifest[l] \in Manifests /\ manifest[l] # None  BY <4>1, Offered
      <4> QED  BY <4>1, <4>2, TermsFit
    <3> QED  BY <3>1, <3>2 DEF LaunchFits
  <2> QED  BY <2>1, <2>2 DEF IInv, PrepTypeOK
<1> QED  BY <1>1, PreparationInvariant, PTL

(***************************************************************************)
(* For any tasks, prices and percentages a float counts, any decimals and  *)
(* any precision from eight bits: what launch pays is what is due within   *)
(* four units below and three above, and the stake at most one below.      *)
(***************************************************************************)
THEOREM TermsStayClose == Spec => []TermsAreClose
<1>1. IInv => TermsAreClose
  <2> SUFFICES ASSUME IInv, NEW l \in Launches, terms[l] # None, Agreed(terms[l])
               PROVE  /\ terms[l].stake \in {manifest[l].stake - 1, manifest[l].stake}
                      /\ terms[l].amount * PriceScale
                             - manifest[l].tasks * manifest[l].price * 10 ^ Decimals
                             \in (- 4 * PriceScale) .. (3 * PriceScale)
    BY DEF TermsAreClose
  <2>1. LaunchFits(l)  BY DEF IInv
  <2>2. manifest[l] \in Offers[l] /\ terms[l] = TermsOf(manifest[l])
    BY <2>1 DEF LaunchFits
  <2>3. manifest[l] \in Manifests  BY <2>2, Offered
  <2> QED  BY <2>2, <2>3, TermsFit
<1> QED  BY <1>1, PreparationInvariant, PTL

(***************************************************************************)
(* For any manifests, decimals and precision: where the price is a whole   *)
(* number of the currency, launch pays what is due to the unit, or is      *)
(* refused; what the cut of a float loses is lost of fractions only.       *)
(***************************************************************************)
THEOREM WholePricesExact == Spec => []WholePricesAreExact
<1>1. IInv => WholePricesAreExact
  <2> SUFFICES ASSUME IInv, NEW l \in Launches, terms[l] # None, Agreed(terms[l]),
                      NEW whole \in 0 .. manifest[l].price,
                      whole * PriceScale = manifest[l].price
               PROVE  terms[l].amount = manifest[l].tasks * whole * 10 ^ Decimals
    BY DEF WholePricesAreExact
  <2> DEFINE m == manifest[l]
  <2>1. LaunchFits(l)  BY DEF IInv
  <2>2. m \in Offers[l] /\ terms[l] = TermsOf(m)  BY <2>1 DEF LaunchFits
  <2>3. m \in ManifestType  BY <2>2, Offered, PreparationAssumption
                              DEF PreparationAssumption, Manifests
  <2>4. m.tasks \in 0 .. Limit /\ m.price \in 0 .. Limit  BY <2>3 DEF ManifestType
  <2>5. terms[l].amount = FormattedAmount(m.tasks, m.price)  BY <2>2 DEF TermsOf
  <2>6. whole \in Nat /\ whole * PriceScale = m.price  BY <2>4
  <2>7. terms[l].amount # Refused  BY DEF Agreed
  <2> HIDE DEF m
  <2>8. \/ FormattedAmount(m.tasks, whole * PriceScale) = Refused
        \/ FormattedAmount(m.tasks, whole * PriceScale) = (m.tasks * whole) * 10 ^ Decimals
    BY <2>4, <2>6, WholeAmount
  <2>9. terms[l].amount = (m.tasks * whole) * 10 ^ Decimals  BY <2>5, <2>6, <2>7, <2>8
  <2> QED  BY <2>9 DEF m
<1> QED  BY <1>1, PreparationInvariant, PTL
===============================================================================
