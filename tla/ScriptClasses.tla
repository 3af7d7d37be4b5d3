---------------------------- MODULE ScriptClasses ----------------------------
(***************************************************************************)
(* lib/script/script.js: what kind of script a script is, by its place,    *)
(* and the address that it pays or that spends it.  Whether an input is    *)
(* pay to script hash depends on the kind of the script that it carries.   *)
(***************************************************************************)
EXTENDS Scripts

Unknown == "Unknown"
\* The first of a list of <<type, does it fit>> that fits
FirstFit(tests) ==
  LET i == SelectInSeq(tests, LAMBDA test : test[2])
  IN  IF i = 0 THEN Unknown ELSE tests[i][1]

\* Script.prototype.classifyOutput, in the order of outputIdentifiers
ClassifyOutput(s) ==
  FirstFit(<< <<"Pay to public key", IsPublicKeyOut(s)>>,
              <<"Pay to public key hash", IsPublicKeyHashOut(s)>>,
              <<"Pay to multisig", IsMultisigOut(s)>>,
              <<"Pay to script hash", IsScriptHashOut(s)>>,
              <<"Data push", IsDataOut(s)>> >>)

\* A script with a buffer at its end and more before it
EndsInBuffer(s) == Len(s) > 1 /\ HasBuf(Last(s))
\* It has a type by what it is itself: the identifiers but isScriptHashIn
HasOwnType(s) ==
  \/ ClassifyOutput(s) # Unknown
  \/ IsPublicKeyIn(s) \/ IsPublicKeyHashIn(s) \/ IsMultisigIn(s)
\* A buffer reads as a script that has a type, wherever that script stands, which
\* again may depend on the buffer at its end (classify, classifyInput).
HasType[buf \in Seq(Byte)] ==
  \E redeem \in {FromBuffer(buf)} :
      /\ redeem.ok
      /\ \/ HasOwnType(redeem.chunks)
         \/ EndsInBuffer(redeem.chunks) /\ HasType[Last(redeem.chunks).buf]

\* Script.prototype.isScriptHashIn
IsScriptHashIn(s) == EndsInBuffer(s) /\ HasType[Last(s).buf]

-----------------------------------------------------------------------------
(* Addresses *)

NoAddress == [type |-> "none", hash |-> <<>>]
PayToPublicKeyHash(hash) == [type |-> "pubkeyhash", hash |-> hash]
PayToScriptHash(hash) == [type |-> "scripthash", hash |-> hash]

\* Script.prototype._getOutputAddressInfo; getData takes the hash from the
\* second or the third chunk.
OutputAddressInfo(s) ==
  IF IsScriptHashOut(s) THEN PayToScriptHash(s[2].buf)
  ELSE IF IsPublicKeyHashOut(s) THEN PayToPublicKeyHash(s[3].buf)
  ELSE NoAddress

\* (fault) the hash is that of the signature
InputAddressInfoFirstChunk(s) ==
  IF IsPublicKeyHashIn(s) THEN PayToPublicKeyHash(Digest("hash160", s[1].buf))
  ELSE IF IsScriptHashIn(s) THEN PayToScriptHash(Digest("hash160", Last(s).buf))
  ELSE NoAddress

\* Script.prototype._getInputAddressInfo
InputAddressInfo(s) ==
  IF IsPublicKeyHashIn(s) THEN PayToPublicKeyHash(Digest("hash160", s[2].buf))
  ELSE IF IsScriptHashIn(s) THEN PayToScriptHash(Digest("hash160", Last(s).buf))
  ELSE NoAddress

\* Script.prototype.getAddressInfo
AddressInfo(s, role) ==
  LET asOutput == IF role = "input" THEN NoAddress ELSE OutputAddressInfo(s)
  IN  IF role = "output" \/ asOutput # NoAddress THEN asOutput ELSE InputAddressInfo(s)

\* Script.fromAddress
FromAddress(address) ==
  IF address.type = "scripthash" THEN ScriptHashOut(address.hash)
  ELSE PublicKeyHashOut(address.hash)
=============================================================================
