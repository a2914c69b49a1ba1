--------------------------------- MODULE Tags ---------------------------------
(***************************************************************************)
(* Chart versions as OCI tags: internal/oci/tags.go.  A version is what is *)
(* written before its first special character, as its rank in the lexical  *)
(* order, and a mark for what follows: nothing, build metadata after "+",  *)
(* the same after a literal "_", or something that no tag may contain.     *)
(***************************************************************************)
EXTENDS Integers

Marks == {"", "+", "_", "!"}
AllVersions == [core : Nat, mark : Marks]

\* Helm's convention: "+" is written "_".
VersionToTag(version) ==
    IF version.mark = "+" THEN [version EXCEPT !.mark = "_"] ELSE version

\* Mutant: a tag is taken for a version as it stands.
TagAsVersion(tag) == tag

TagToVersion(tag) == IF tag.mark = "_" THEN [tag EXCEPT !.mark = "+"] ELSE tag

ValidTag(tag) == tag.mark \in {"", "_"}

\* The place of a valid tag in the lexical order.
Place(tag) == 2 * tag.core + (IF tag.mark = "" THEN 0 ELSE 1)
=============================================================================
