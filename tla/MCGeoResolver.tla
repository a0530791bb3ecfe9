---------------------------- MODULE MCGeoResolver ----------------------------
(* The GeoIP resolver with two lookups and five versions of the file, one  *)
(* of them missing and one unreadable, or with one lookup and two versions.*)
EXTENDS GeoResolver
=============================================================================
