----------------------------- MODULE MCContacts -----------------------------
(* Instances of Contacts: three accounts with one device each, or a         *)
(* requester and an account with two devices, and three request ids: a code *)
(* and two uses of it, a request and two answers, or two requests.          *)
EXTENDS Contacts, TLC

CONSTANTS a1, a2, a3, s1, s2, s3

\* Three accounts with one session each.
OneEach == s1 :> a1 @@ s2 :> a2 @@ s3 :> a3

\* Two devices of a2, one of a1.
TwoDevices == s1 :> a1 @@ s2 :> a2 @@ s3 :> a2

\* Request ids are interchangeable, and so are the two devices of a2.
Symmetry == Permutations(Ids) \cup Permutations({s2, s3})
=============================================================================
