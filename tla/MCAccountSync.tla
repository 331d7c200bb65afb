--------------------------- MODULE MCAccountSync ---------------------------
(***************************************************************************)
(* AccountSync with two devices and two resolvers that endorse, revoke and *)
(* endorse again a key, try a text too long to encode, sign a log again as *)
(* it is, and meet entries of other implementations.                       *)
(***************************************************************************)
EXTENDS AccountSync, TLC

CONSTANTS k1, d1, d2, r1, r2

MCBatches ==
  {<<Add("chat.signer", Key(k1))>>,
   <<Add("profile.bio", Text(131100))>>,
   <<Remove(0)>>,
   <<>>}

MCForeign == {Opaque, Add("chat.signer", Key(k1))}

\* Texts below and above what a u16 can count.
MCLongTexts == {<<Add("profile.bio", Text(100))>>, <<Add("profile.bio", Text(70000))>>}

MCSymmetry == Permutations({d1, d2}) \cup Permutations({r1, r2})
=============================================================================
