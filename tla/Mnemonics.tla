------------------------------ MODULE Mnemonics -------------------------------
(***************************************************************************)
(* lib/mnemonic/mnemonic.js and pbkdf2.js: entropy as words of a list, the *)
(* checksum in the last of them, and the seed a phrase gives.              *)
(*                                                                         *)
(* A phrase is its words, which are numbers, and what stands between them. *)
(* nfkd leaves the words of the lists as they are and puts a space between *)
(* them.                                                                   *)
(***************************************************************************)
EXTENDS HDKeys, Bitwise

CONSTANTS
  WORD_BITS, CHECKSUM_RATIO,    \* 11 bits of a word; 32 bits of entropy for one of checksum
  MINIMUM_STRENGTH,             \* 128 bits
  Words,                        \* the lists in the order of their names
  ENGLISH, JAPANESE,            \* which of them
  HASH_LENGTH, ITERATIONS,      \* 64 and 2048
  MNEMONIC_SALT

BYTE_BITS == CHOOSE bits \in 1 .. BYTE : 2^bits = BYTE
Binary(n, width) == [i \in 1 .. width |-> (n \div 2^(width - i)) % 2]
FromBinary(bits) == FoldLeft(LAMBDA n, bit : 2 * n + bit, 0, bits)
BinaryOf(bytes) == FlattenSeq([i \in DOMAIN bytes |-> Binary(bytes[i], BYTE_BITS)])
Groups(bits, size) ==
  [i \in 1 .. Len(bits) \div size |-> FromBinary(SubSeq(bits, (i - 1) * size + 1, i * size))]

ThrownPhrase == [thrown |-> TRUE]
Phrase(words, separator) == [words |-> words, separator |-> separator]
Normalised(phrase) == [phrase EXCEPT !.separator = " "]

-----------------------------------------------------------------------------
(* Entropy and phrases *)

\* _entropyChecksum: a part of a bit is none
EntropyChecksum(entropy) ==
  SubSeq(BinaryOf(Digest(entropy, SHA256_HASH_SIZE)), 1, (Len(entropy) * BYTE_BITS) \div CHECKSUM_RATIO)

\* (fault) the bits of the checksum are not looked at by isValid
IsValidUnchecked(words, list) ==
  IF words = <<>> \/ ~(ToSet(words) \subseteq ToSet(list)) THEN "invalid"
  ELSE IF (Len(words) * WORD_BITS) % (CHECKSUM_RATIO + 1) # 0 THEN "throws" ELSE "valid"

\* isValid, of words that are normalised.  The bits of the checksum are counted as a
\* share of all: where that is no whole number the entropy is no whole number of bytes
\* either, and writing its last byte throws.
IsValid(words, list) ==
  LET indexes == [i \in DOMAIN words |-> SelectInSeq(list, LAMBDA w : w = words[i]) - 1]
      bin == FlattenSeq([i \in DOMAIN indexes |-> Binary(indexes[i], WORD_BITS)])
      cs == Len(bin) \div (CHECKSUM_RATIO + 1)
      entropy == Groups(SubSeq(bin, 1, Len(bin) - cs), BYTE_BITS)
  IN  IF words = <<>> \/ ~(ToSet(words) \subseteq ToSet(list)) THEN "invalid"
      ELSE IF Len(bin) % (CHECKSUM_RATIO + 1) # 0 THEN "throws"
      ELSE IF EntropyChecksum(entropy) = SubSeq(bin, Len(bin) - cs + 1, Len(bin)) THEN "valid"
      ELSE "invalid"

\* _entropy2mnemonic
Entropy2Mnemonic(entropy, list) ==
  LET bin == BinaryOf(entropy) \o EntropyChecksum(entropy)
      indexes == Groups(bin, WORD_BITS)
  IN  IF Len(bin) % WORD_BITS # 0 THEN ThrownPhrase
      ELSE Phrase([i \in DOMAIN indexes |-> list[indexes[i] + 1]],
                  IF list = Words[JAPANESE] THEN "ideographic space" ELSE " ")

\* _getDictionary: the first list that has every word, <<>> where none has
GetDictionary(words) ==
  LET i == SelectInSeq(Words, LAMBDA list : ToSet(words) \subseteq ToSet(list))
  IN  IF words = <<>> \/ i = 0 THEN <<>> ELSE Words[i]

\* The constructor, of a phrase and of entropy; `list' is <<>> where none is given.
MnemonicOf(phrase, list) ==
  LET words == Normalised(phrase).words
      wordlist == IF list # <<>> THEN list ELSE GetDictionary(words)
  IN  IF wordlist = <<>> \/ IsValid(words, wordlist) # "valid" THEN ThrownPhrase
      ELSE [phrase |-> Normalised(phrase), wordlist |-> wordlist]
MnemonicFromSeed(entropy, list) ==
  LET wordlist == IF list # <<>> THEN list ELSE Words[ENGLISH]
      phrase == Entropy2Mnemonic(entropy, wordlist)
  IN  IF phrase = ThrownPhrase THEN ThrownPhrase
      ELSE IF IsValid(phrase.words, wordlist) # "valid" THEN ThrownPhrase
      ELSE [phrase |-> phrase, wordlist |-> wordlist]
\* _mnemonic, of random bytes: how many the constructor asks for
Strength(ent) == IF ent % CHECKSUM_RATIO # 0 \/ ent < MINIMUM_STRENGTH THEN -1 ELSE ent \div BYTE_BITS

-----------------------------------------------------------------------------
(* Seeds *)

XorBytes(a, b) == [i \in DOMAIN a |-> a[i] ^^ b[i]]
HmacLong(data, key) == Digest(key \o data, HASH_LENGTH)
\* pbkdf2: blocks of the length of the hash, the last one cut
Pbkdf2Block(key, salt, iterations, i) ==
  LET first == HmacLong(salt \o BigEndian(i, 4), key)
      next(acc, j) == LET u == HmacLong(acc.u, key) IN [u |-> u, t |-> XorBytes(acc.t, u)]
  IN  FoldLeft(next, [u |-> first, t |-> first], [j \in 1 .. iterations - 1 |-> j]).t
Pbkdf2(key, salt, iterations, dkLen) ==
  LET l == (dkLen + HASH_LENGTH - 1) \div HASH_LENGTH
  IN  SubSeq(FlattenSeq([i \in 1 .. l |-> Pbkdf2Block(key, salt, iterations, i)]), 1, dkLen)

PhraseBytes(phrase) ==
  FlattenSeq([i \in DOMAIN phrase.words |->
    (IF i = 1 THEN <<>> ELSE <<IF phrase.separator = " " THEN 0 ELSE 1>>) \o <<phrase.words[i]>>])
ToSeed(mnemonic, passphrase) ==
  Pbkdf2(PhraseBytes(Normalised(mnemonic.phrase)), MNEMONIC_SALT \o passphrase, ITERATIONS, HASH_LENGTH)
ToHDPrivateKey(mnemonic, passphrase, network) == FromSeed(ToSeed(mnemonic, passphrase), network)
=============================================================================
