------------------------------ MODULE MCReferrals ------------------------------
(***************************************************************************)
(* Referrals for TLC: two servers besides the one the handle is connected  *)
(* to, and lists with alternatives, with a URL that cannot be parsed, with *)
(* and without a DN, and back to where the search came from.               *)
(***************************************************************************)
EXTENDS Referrals

CONSTANTS b, c, d

Url(s, dn) == [server |-> s, dn |-> dn]

Lists == {
  <<Url(b, d)>>,
  <<Url(b, d), Url(c, d)>>,
  <<Url(c, NoDn)>>,
  <<Url(Home, d), BadUrl>>}
===============================================================================
