--------------------------------- MODULE Storage ---------------------------------
(***************************************************************************)
(* Where src/storage/storage.ts puts a document and where it looks for one.*)
(* upload names an object after the hash of the document and answers the   *)
(* url S3 gives it; download is given a url and cuts the name out of it.   *)
(* Names and urls are sequences of tokens.                                 *)
(***************************************************************************)
EXTENDS Naturals, Sequences

CONSTANTS
    Buckets,      \* buckets of S3
    bucketName,   \* the bucket of this library, from its environment
    Hashes        \* hashes of documents

(* s3UrlConstant *)
Marker == "s3.amazonaws.com/"

Punctuation == {"https://", ".", "/", "s3", Marker, "s3.region.amazonaws.com/"}

ASSUME StorageAssumption ==
    /\ bucketName \in Buckets
    /\ Punctuation \cap (Buckets \cup Hashes) = {}

(* Mutated: the hash left out of the name. *)
KeyOfKind(h) == <<"s3">>

Key(h) == <<"s3", h>>

(* How S3 may locate a key of a bucket; it depends on the region and on the bucket's name. *)
Endpoints == {"global", "regional", "path"}

Location(endpoint, bucket, key) ==
    CASE endpoint = "global"   -> <<"https://", bucket, ".", Marker>> \o key
      [] endpoint = "regional" -> <<"https://", bucket, ".", "s3.region.amazonaws.com/">> \o key
      [] endpoint = "path"     -> <<"https://", Marker, bucket, "/">> \o key

(***************************************************************************)
(* What is behind the first marker, or nothing; without one indexOf is -1  *)
(* and the slice only loses its first characters, the scheme and some of   *)
(* the bucket.                                                             *)
(***************************************************************************)
KeyOf(url) ==
    LET marked == {i \in 1 .. Len(url) : url[i] = Marker}
        first  == CHOOSE i \in marked : \A j \in marked : i <= j
    IN IF marked # {} THEN SubSeq(url, first + 1, Len(url)) ELSE SubSeq(url, 3, Len(url))
================================================================================
