----------------------------- MODULE MCStream ------------------------------
(* A line buffer of ten characters, a side buffer of thirteen, length digits   *)
(* to the base of four: every kind of frame the dryer writes, each length   *)
(* class, and the payloads that look like another kind.                     *)
EXTENDS Stream

Say(sink, bytes) == <<To(sink, bytes)>>
F(kind, bytes, says) == [kind |-> kind, bytes |-> bytes, says |-> says]

L == Letter

MCLines == {
  F("line", <<L, CR>>, Say("frame", <<L>>)),
  F("line", <<L, Comma, L, CR>>, Say("frame", <<L, Comma, L>>)),
  F("line", <<Comma, CR>>, <<>>),
  F("line", <<L, L, L, L, L, L, CR>>, <<>>),
  F("line", <<L, L, Comma, L, L, L, L, L, L, L, L, CR>>, <<>>),
  F("looksEncoded", <<L, Open, Ess, L, CR>>, Say("frame", <<L, Open, Ess, L>>)),
  F("blockLine", <<Verb, Comma, 0, L, CR>>, Say("block", <<Verb, Comma, 0, L>>)),
  F("blockLine", <<Verb, Comma, 3, Open, Ess, CR, L, CR>>,
    Say("block", <<Verb, Comma, 3, Open, Ess, CR, L>>)),
  F("blockLine", <<Verb, L, L, L, L, L, L, Comma, 3, L, CR, Noise, L, CR>>, Say("block",
    <<Verb, L, L, L, L, L, L, Comma, 3, L, CR, Noise, L>>)),
  F("blockLine", <<Verb, L, L, L, L, L, L, L, Comma, 3, L, CR, Comma, L, CR>>, <<>>) }

MCEncoded == {
  F("enc", <<Open, Ess, 1, 0>>, Say("undecoded", <<Open, Ess, 1, 0>>)),
  F("enc", <<Open, Ess, 1, 3, L, L, Enter>>, Say("frame", <<L>>)),
  F("enc", <<Open, Ess, 1, 3, Open, Ess, Enter>>, Say("frame", <<Ess>>)),
  F("encBlock", <<Open, Ess, 2, 2, L, Verb, Comma, 0, L, Enter>>,
    Say("block", <<Verb, Comma, 0, L>>)),
  F("enc", <<Open, Ess, 3, 0, L, Verb, L, Comma, 1, L, L, Enter>>,
    Say("block", <<Verb, L, Comma, 1, L, L>>)),
  F("tooLong", <<Open, Ess, 3, 2, L, L, L, L, L, L, L, L, L, Enter>>, <<>>) }

MCFrames == MCLines \cup MCEncoded
=============================================================================
