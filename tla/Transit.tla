------------------------------- MODULE Transit -------------------------------
(***************************************************************************)
(* A store with Vault's transit engine in front of it.  The text that the  *)
(* store answers with is searched for ciphertexts, whatever its format;    *)
(* one request has them all decrypted, and each is replaced where it       *)
(* stands.  The rest of what was fetched is carried across.                *)
(*                                                                         *)
(* Text is a sequence of symbols.  A ciphertext is the marker and what     *)
(* follows it up to the first symbol outside of base64's alphabet, so that *)
(* one ciphertext may begin another, and hold another further on.          *)
(***************************************************************************)
EXTENDS Naturals, FiniteSets, SequencesExt

CONSTANTS
    Marker,      \* MARKER: the prefix of every ciphertext, itself of the alphabet
    Alphabet,    \* the other symbols a ciphertext may hold
    Punctuation, \* the symbols that end one
    Secrets,     \* what may have been sealed; text without a marker
    MostSymbols, \* bound: the length of a document
    Revisions    \* what a document's revision and its lease may be

Bounds ==
    /\ Marker \notin Alphabet \cup Punctuation
    /\ Alphabet \cap Punctuation = {}
    /\ \A secret \in Secrets : secret \in Seq(Range(secret)) /\ Marker \notin Range(secret)
    /\ MostSymbols \in Nat

Sealable == {Marker} \cup Alphabet
Texts == BoundedSeq(Sealable \cup Punctuation, MostSymbols)

VARIABLES
    fetched,     \* what the store answered: [text, revision, lease]
    at,          \* where the rewriting of it is
    watched,     \* whether it is a delivery of the store's watch
    batch,       \* the ciphertexts asked for, in order; << >> before
    requests,    \* how often the engine was asked
    opened,      \* what the engine answered for each, in order
    handed       \* what was handed over: a document, or that it failed

vars == <<fetched, at, watched, batch, requests, opened, handed>>

Failed == [text |-> << >>, revision |-> "failed", lease |-> "failed"]
Nothing == [text |-> << >>, revision |-> "nothing", lease |-> "nothing"]

Init ==
    /\ fetched \in [text : Texts, revision : Revisions, lease : Revisions]
    /\ at = "fetched"
    /\ watched \in BOOLEAN
    /\ batch = << >> /\ requests = 0 /\ opened = << >>
    /\ handed = Nothing

-----------------------------------------------------------------------------
(* The search, and the substitution.                                       *)

\* Where a run of sealable symbols that begins at i ends.
End(text, i) ==
    Max({j \in i .. Len(text) : \A k \in i .. j : text[k] \in Sealable})

Token(text, i) == SubSeq(text, i, End(text, i))

\* `rest.find(MARKER)', from each place the last search left off.
FirstFrom(text, i) ==
    LET marks == {j \in i .. Len(text) : text[j] = Marker} IN
    IF marks = {} THEN Len(text) + 1 ELSE Min(marks)

Tokens(text) ==
    LET search[i \in 1 .. Len(text) + 1] ==
            LET from == FirstFrom(text, i) IN
            IF from > Len(text) THEN << >>
            ELSE <<Token(text, from)>> \o search[End(text, from) + 1]
    IN  search[1]

\* Those that hold more than a marker, each of them once.
Ciphertexts(text) ==
    LET tokens == Tokens(text)
        found[n \in 0 .. Len(tokens)] ==
            IF n = 0 THEN << >>
            ELSE IF Len(tokens[n]) > 1 /\ ~Contains(found[n - 1], tokens[n])
                 THEN Append(found[n - 1], tokens[n])
                 ELSE found[n - 1]
    IN  found[Len(tokens)]

StandsAt(text, i, what) ==
    /\ i + Len(what) <= Len(text) + 1
    /\ \A k \in 1 .. Len(what) : text[i + k - 1] = what[k]

\* str::replace: every occurrence, from the left, none of them overlapping.
Replace(text, what, with) ==
    LET replaced[i \in 1 .. Len(text) + 1] ==
            IF i > Len(text) THEN << >>
            ELSE IF StandsAt(text, i, what) THEN with \o replaced[i + Len(what)]
                 ELSE <<text[i]>> \o replaced[i + 1]
    IN  replaced[1]

Substitutions(text, ciphertexts, plaintexts, order) ==
    LET readable[n \in 0 .. Len(ciphertexts)] ==
            IF n = 0 THEN text
            ELSE Replace(readable[n - 1], ciphertexts[order[n]], plaintexts[order[n]])
    IN  readable[Len(ciphertexts)]

\* Mutant: one after another, in the order they were found.
SubstitutedInOrder(text, ciphertexts, plaintexts) ==
    Substitutions(text, ciphertexts, plaintexts, [i \in DOMAIN ciphertexts |-> i])

LongestFirst(ciphertexts) ==
    CHOOSE order \in Bijection(DOMAIN ciphertexts, DOMAIN ciphertexts) :
        \A i, j \in DOMAIN ciphertexts :
            i < j => Len(ciphertexts[order[i]]) >= Len(ciphertexts[order[j]])

\* One ciphertext after another, the longest first.
Substituted(text, ciphertexts, plaintexts) ==
    Substitutions(text, ciphertexts, plaintexts, LongestFirst(ciphertexts))

-----------------------------------------------------------------------------
(* Transformed::rewrite and Transit::apply.                                *)

Sealed == Ciphertexts(fetched.text)

Fail ==
    /\ handed' = Failed
    /\ at' = IF watched THEN "ended" ELSE "handed"

\* The revision and the lease are those of what was fetched.
Hand(text) ==
    /\ handed' = [fetched EXCEPT !.text = text]
    /\ at' = "handed"

PassThrough ==
    /\ at = "fetched" /\ Sealed = << >>
    /\ Hand(fetched.text)
    /\ UNCHANGED <<fetched, watched, batch, requests, opened>>

Ask ==
    /\ at = "fetched" /\ Sealed # << >>
    /\ batch' = Sealed
    /\ requests' = requests + 1
    /\ at' = "asked"
    /\ UNCHANGED <<fetched, watched, opened, handed>>

\* The engine, outside of this crate: one entry for each ciphertext, in order.
Decrypted ==
    /\ at = "asked"
    /\ opened' \in [1 .. Len(batch) -> Secrets]
    /\ at' = "answered"
    /\ UNCHANGED <<fetched, watched, batch, requests, handed>>

\* No answer, no results, another number of them, or an entry with an error.
Undecrypted ==
    /\ at = "asked"
    /\ Fail
    /\ UNCHANGED <<fetched, watched, batch, requests, opened>>

\* An entry without a plaintext, or with one that is no base64 of UTF-8.
Unreadable ==
    /\ at = "answered"
    /\ Fail
    /\ UNCHANGED <<fetched, watched, batch, requests, opened>>

Apply ==
    /\ at = "answered"
    /\ Hand(Substituted(fetched.text, batch, opened))
    /\ UNCHANGED <<fetched, watched, batch, requests, opened>>

\* The next fetch, or the next delivery of a watch that has not ended.
Again ==
    /\ at = "handed"
    /\ watched' \in BOOLEAN
    /\ at' = "fetched"
    /\ batch' = << >> /\ requests' = 0 /\ opened' = << >>
    /\ handed' = Nothing
    /\ UNCHANGED fetched

Next == PassThrough \/ Ask \/ Decrypted \/ Undecrypted \/ Unreadable \/ Apply \/ Again

Spec == Init /\ [][Next]_vars

-----------------------------------------------------------------------------
(* Properties.                                                             *)

Delivered == at = "handed" /\ handed # Failed

\* Every variable holds a value of its type.
TypeOK ==
    /\ at \in {"fetched", "asked", "answered", "handed", "ended"}
    /\ watched \in BOOLEAN /\ requests \in {0, 1}
    /\ Len(opened) \in {0, Len(batch)} /\ Range(opened) \subseteq Secrets

\* What the document says when every ciphertext is exchanged for what it seals, all at
\* once, and everything around them is left alone: the text is the longest runs of
\* sealable symbols and the symbols between, and each run is what precedes its marker
\* and what it seals.
Readable ==
    LET opens(token) == LET i == CHOOSE j \in DOMAIN batch : batch[j] = token IN opened[i]
        read[i \in 1 .. Len(fetched.text) + 1] ==
            IF i > Len(fetched.text) THEN << >>
            ELSE LET token == Token(fetched.text, i) IN
                 IF fetched.text[i] = Marker /\ Len(token) > 1
                 THEN opens(token) \o read[i + Len(token)]
                 ELSE <<fetched.text[i]>> \o read[i + 1]
    IN  read[1]

\* One substitution after another comes to the same as all of them at once, though
\* one ciphertext begins another or stands inside of it: nothing is left of a longer
\* one, and nothing else is touched.
\* (`Longest first: vault:v1:AAA is a prefix of vault:v1:AAAB, and replacing the
\* short one first would leave the tail of the long one behind as garbage.')
SubstitutedAllAtOnce ==
    Delivered =>
        handed = [fetched EXCEPT !.text = IF batch = << >> THEN @ ELSE Readable]

\* A document costs one request, whatever it seals, and none when it seals nothing; the
\* request names everything that is sealed, and nothing twice.
\* (`One request, whatever the count'; `Distinct because a document that names the
\* same secret twice should cost one entry in the batch rather than two'.)
OneRequestForEverything ==
    Delivered =>
        LET runs == {i \in DOMAIN fetched.text :
                        /\ fetched.text[i] = Marker
                        /\ End(fetched.text, i) > i
                        /\ \A j \in 1 .. i - 1 :
                              fetched.text[j] = Marker => End(fetched.text, j) < i}
            sealed == {Token(fetched.text, i) : i \in runs}
        IN  /\ requests = IF sealed = {} THEN 0 ELSE 1
            /\ Range(batch) = sealed /\ Len(batch) = Cardinality(sealed)

-----------------------------------------------------------------------------
(* What the proofs need: the request is made of what was fetched, and what  *)
(* is handed over is that, or what it was rewritten to.                     *)

IndInv ==
    /\ fetched \in [text : Texts, revision : Revisions, lease : Revisions]
    /\ at = "fetched" => batch = << >> /\ requests = 0
    /\ at \in {"asked", "answered"} => batch = Sealed /\ batch # << >> /\ requests = 1
    /\ at = "answered" => opened \in [1 .. Len(batch) -> Secrets]
    /\ Delivered =>
           /\ batch = Sealed
           /\ requests = IF batch = << >> THEN 0 ELSE 1
           /\ batch # << >> => opened \in [1 .. Len(batch) -> Secrets]
           /\ handed = [fetched EXCEPT !.text =
                  IF batch = << >> THEN @ ELSE Substituted(@, batch, opened)]
=============================================================================
