------------------------ MODULE MCPreferencesDialog ------------------------
(***************************************************************************)
(* Constants of PreferencesDialog for TLC: fields with every reason for a  *)
(* question or for a refusal.                                              *)
(***************************************************************************)
EXTENDS PreferencesDialog

CONSTANTS s1, s2

Local == [Defaults EXCEPT !.enabled = TRUE, !.server = s1, !.key = "valid"]

MCEntries == {
    Local,
    [Local EXCEPT !.enabled = FALSE, !.server = BadServer],
    [Local EXCEPT !.socksHost = "any"],
    [Local EXCEPT !.server = s2, !.httpEnabled = TRUE, !.httpHost = "any"],
    [Local EXCEPT !.httpEnabled = TRUE, !.samePort = TRUE]}

KeysAreAlike == Permutations(Keys)
=============================================================================
