------------------------------- MODULE Bgpsec -------------------------------
(***************************************************************************)
(* BGPsec paths (bgpsec/bgpsec.c, bgpsec/bgpsec_utils.c): each AS adds a   *)
(* secure path segment and a signature over what it received; a router     *)
(* validates all signatures with the router keys of SpkiTable, while the   *)
(* sockets change that table.                                              *)
(*                                                                         *)
(* Bytes that are hashed are a sequence of fields, each with its width, so *)
(* that offsets into them are those of the code.  A hash is the bytes      *)
(* themselves, and a signature is the key it was made with and the bytes   *)
(* it was made over: two different byte sequences have different hashes,   *)
(* and nobody signs with a key they do not have.                           *)
(***************************************************************************)
EXTENDS SpkiTable

CONSTANTS
    KeyOf,      \* KeyOf[asn]: the identifier and the key an AS signs with
    Broken,     \* public keys OpenSSL cannot load
    Receiver,   \* the AS that validates
    SigLenOf,   \* SigLenOf[asn]: the length of its signatures
    Nlri,       \* announced prefixes: length in bits, address family
    Alg,        \* algorithm suites named in updates
    Paths       \* the paths updates take, from the origin on

ASN == DOMAIN KeyOf

ASSUME PathAssumption ==
    /\ Receiver \in Nat \ ASN
    /\ \A nlri \in Nlri : nlri.nlri_len \in 0 .. 255
    /\ \A asn \in ASN : SigLenOf[asn] \in 1 .. 2^16 - 1
    /\ \A path \in Paths : path \in Seq(ASN) /\ Len(path) \in 1 .. 255

VARIABLES
    data,       \* the struct rtr_bgpsec of the update that is validated
    val,        \* the state of rtr_bgpsec_validate_as_path
    seen,       \* keys that were in the table at some time of the validation
    always      \* keys that were in the table all the time of it

pathVars == <<data, val, seen, always>>
vars == <<tableVars, pathVars>>

-----------------------------------------------------------------------------
(* Bytes                                                                   *)

SKI_SIZE == 20
SECURE_PATH_SEG_SIZE == 6
Field(w, v) == [w |-> w, v |-> v]
Width(bytes) == FoldLeft(LAMBDA sum, field : sum + field.w, 0, bytes)

\* The bytes from an offset on; from within a field, no field is whole.
read_stream_at(bytes, offset) ==
    LET at == {k \in 1 .. Len(bytes) + 1 : Width(SubSeq(bytes, 1, k - 1)) = offset}
    IN  IF at = {} THEN <<Field(Width(bytes) - offset, <<"torn", bytes>>)>>
        ELSE SubSeq(bytes, CHOOSE k \in at : TRUE, Len(bytes))

SigSegBytes(sig) ==
    <<Field(SKI_SIZE, sig.ski), Field(2, sig.sig_len), Field(sig.sig_len, sig.signature)>>
PathSegBytes(seg) == <<Field(1, seg.pcount), Field(1, seg.flags), Field(4, seg.asn)>>

NLRI_BYTE_LEN(nlri) == (nlri.nlri_len + 7) \div 8

\* The signatures that are hashed: not the one that is to be validated.
Hashed(d, type) == IF type = "VALIDATION" THEN Tail(d.sigs) ELSE d.sigs

get_sig_seg_size(sigs) ==
    FoldLeft(LAMBDA sum, sig : sum + sig.sig_len + 2 + SKI_SIZE, 0, sigs)

req_stream_size(d, type) ==
    9 + NLRI_BYTE_LEN(d.nlri) + get_sig_seg_size(Hashed(d, type))
      + SECURE_PATH_SEG_SIZE * d.path_len

align_byte_sequence(d, type) ==
    LET sigs == Hashed(d, type)
        Pair(i) == (IF i <= Len(sigs) THEN SigSegBytes(sigs[i]) ELSE <<>>)
                   \o PathSegBytes(d.path[i])
    IN  <<Field(4, d.target_as)>>
        \o FlattenSeq([i \in 1 .. Len(d.path) |-> Pair(i)])
        \o <<Field(1, d.alg), Field(2, d.afi), Field(1, "safi"), Field(1, d.nlri.nlri_len),
             Field(NLRI_BYTE_LEN(d.nlri), d.nlri)>>

-----------------------------------------------------------------------------
(* Building a path                                                         *)

rtr_bgpsec_has_algorithm_suite(alg) == alg = 1
SupportedAfi(afi) == afi \in {1, 2}

rtr_bgpsec_new(alg, afi, target_as, nlri) ==
    [alg |-> alg, afi |-> afi, target_as |-> target_as, nlri |-> nlri,
     path |-> <<>>, path_len |-> 0, sigs |-> <<>>, sigs_len |-> 0]

\* The counters are words of 8 and 16 bits.  Every signature has a length and
\* a key identifier: the code refuses segments that have not.
rtr_bgpsec_prepend_sec_path_seg(d, seg) ==
    [d EXCEPT !.path = Cons(seg, @), !.path_len = (@ + 1) % 2^8]
rtr_bgpsec_prepend_sig_seg(d, sig) ==
    [d EXCEPT !.sigs = Cons(sig, @), !.sigs_len = (@ + 1) % 2^16]
rtr_bgpsec_append_sec_path_seg(d, seg) ==
    [d EXCEPT !.path = Append(@, seg), !.path_len = (@ + 1) % 2^8]
rtr_bgpsec_append_sig_seg(d, sig) ==
    [d EXCEPT !.sigs = Append(@, sig), !.sigs_len = (@ + 1) % 2^16]
rtr_bgpsec_pop_secure_path_seg(d) ==
    IF d.path = <<>> THEN d ELSE [d EXCEPT !.path = Tail(@), !.path_len = (@ - 1) % 2^8]
rtr_bgpsec_pop_signature_seg(d) ==
    IF d.sigs = <<>> THEN d ELSE [d EXCEPT !.sigs = Tail(@), !.sigs_len = (@ - 1) % 2^16]

\* What rtr_bgpsec_generate_signature returns, and the signature it makes.
GenerateResult(d) ==
    IF d.path = <<>> THEN "INVALID_ARGUMENTS"
    ELSE IF ~ rtr_bgpsec_has_algorithm_suite(d.alg) THEN "UNSUPPORTED_ALGORITHM_SUITE"
    ELSE IF ~ SupportedAfi(d.nlri.afi) THEN "UNSUPPORTED_AFI"
    ELSE IF d.path_len # d.sigs_len + 1 THEN "WRONG_SEGMENT_COUNT"
    ELSE "SUCCESS"
rtr_bgpsec_generate_signature(d, asn) ==
    [ski |-> KeyOf[asn].ski, sig_len |-> SigLenOf[asn],
     signature |-> [by |-> KeyOf[asn].spki, over |-> align_byte_sequence(d, "SIGNING")]]

\* An AS adds its segment, names the next AS and signs.  If it cannot, the
\* segment goes on unsigned.
Extend(d, asn, target) ==
    LET seg == [pcount |-> 1, flags |-> 0, asn |-> asn]
        new == [rtr_bgpsec_prepend_sec_path_seg(d, seg) EXCEPT !.target_as = target]
    IN  IF GenerateResult(new) # "SUCCESS" THEN new
        ELSE rtr_bgpsec_prepend_sig_seg(new, rtr_bgpsec_generate_signature(new, asn))

\* The update that took a path to the receiver.
Built(alg, nlri, path) ==
    FoldLeftDomain(LAMBDA d, i : Extend(d, path[i], IF i < Len(path) THEN path[i + 1] ELSE Receiver),
                   rtr_bgpsec_new(alg, nlri.afi, Receiver, nlri), path)

\* What arrives is what was signed, or lacks a segment, or has another value
\* in some field.
Arrives(d) ==
    {d, rtr_bgpsec_pop_secure_path_seg(d),
     rtr_bgpsec_pop_signature_seg(rtr_bgpsec_pop_secure_path_seg(d))}
    \cup {[d EXCEPT !.path[i].pcount = 2] : i \in DOMAIN d.path}
    \cup {[d EXCEPT !.nlri = nlri] : nlri \in Nlri}

Update == UNION {Arrives(Built(alg, nlri, path)) : alg \in Alg, nlri \in Nlri, path \in Paths}

-----------------------------------------------------------------------------
(* Validating a path                                                       *)

\* The application builds the struct from the update, in its order.
Received(d) ==
    FoldLeft(rtr_bgpsec_append_sig_seg,
             FoldLeft(rtr_bgpsec_append_sec_path_seg,
                      rtr_bgpsec_new(d.alg, d.afi, d.target_as, d.nlri), d.path), d.sigs)

ArgumentCheck(d) ==
    IF d.path = <<>> \/ d.sigs = <<>> THEN "INVALID_ARGUMENTS"
    ELSE IF d.path_len # d.sigs_len THEN "WRONG_SEGMENT_COUNT"
    ELSE IF ~ rtr_bgpsec_has_algorithm_suite(d.alg) THEN "UNSUPPORTED_ALGORITHM_SUITE"
    ELSE IF ~ SupportedAfi(d.nlri.afi) THEN "UNSUPPORTED_AFI"
    ELSE "SUCCESS"

Done(retval) == val' = [val EXCEPT !.at = "done", !.retval = retval]

Begin(d) ==
    /\ val.at = "idle"
    /\ data' = d
    /\ IF ArgumentCheck(d) # "SUCCESS" THEN Done(ArgumentCheck(d))
       ELSE val' = [at |-> "keys", i |-> 1, offset |-> 0, retval |-> "SUCCESS"]
    /\ seen' = KeysIn(table[Shared]) /\ always' = KeysIn(table[Shared])

\* Each search takes the lock of the table for itself.
check_router_keys ==
    /\ val.at = "keys"
    /\ IF val.i > Len(data.sigs)
       THEN val' = [at |-> "rounds", i |-> 1, offset |-> 0, retval |-> "VALID"]
       ELSE IF spki_table_search_by_ski(table[Shared], data.sigs[val.i].ski) = <<>>
       THEN Done("ROUTER_KEY_NOT_FOUND")
       ELSE val' = [val EXCEPT !.i = @ + 1]
    /\ UNCHANGED <<data, seen, always>>

validate_signature(hash, sig, record) ==
    IF record.spki \in Broken THEN "ERROR"
    ELSE IF sig.signature = [by |-> record.spki, over |-> hash] THEN "VALID" ELSE "NOT_VALID"

\* Faulty variant: the loop does not stop at the first key that fits.
TryAllKeys(hash, sig, keys) ==
    FoldLeft(LAMBDA ret, key : validate_signature(hash, sig, key), "SUCCESS", keys)

\* The keys are tried until one fits; if there is none, hashing was the last
\* thing that succeeded.
TryKeys(hash, sig, keys) ==
    FoldLeft(LAMBDA ret, key : IF ret = "VALID" THEN ret ELSE validate_signature(hash, sig, key),
             "SUCCESS", keys)

StreamSize == req_stream_size(data, "VALIDATION") % 2^16
InLoop == val.at = "rounds" /\ val.offset <= StreamSize /\ val.retval = "VALID"

\* Faulty variant: the length of this signature is used instead of the next.
NextOffsetOwn(i) == data.sigs[i].sig_len + SKI_SIZE + 2 + SECURE_PATH_SEG_SIZE

next_offset(i) ==
    (IF i < Len(data.sigs) THEN data.sigs[i + 1].sig_len ELSE data.sigs[i].sig_len)
    + SKI_SIZE + 2 + SECURE_PATH_SEG_SIZE

\* One round of the loop: hash from the offset on, look the keys up, try them.
Validate ==
    LET sig == data.sigs[val.i]
        hash == read_stream_at(align_byte_sequence(data, "VALIDATION"), val.offset)
    IN  /\ InLoop
        /\ val' = [val EXCEPT !.i = @ + 1, !.offset = @ + next_offset(val.i),
              !.retval = TryKeys(hash, sig, spki_table_search_by_ski(table[Shared], sig.ski))]
        /\ UNCHANGED <<data, seen, always>>

Return ==
    /\ val.at = "rounds" /\ ~ InLoop
    /\ Done(val.retval)
    /\ UNCHANGED <<data, seen, always>>

\* Memory for the stream, a hash or the keys runs out (marked by i = 0).
OutOfMemory ==
    /\ val.at \in {"keys", "rounds"}
    /\ val' = [val EXCEPT !.at = "done", !.retval = "ERROR", !.i = 0]
    /\ UNCHANGED <<data, seen, always>>

-----------------------------------------------------------------------------

NoData == rtr_bgpsec_new(0, 0, Receiver, [nlri_len |-> 0, afi |-> 0])
NoCall == [at |-> "idle", i |-> 1, offset |-> 0, retval |-> "SUCCESS"]

Init ==
    /\ TableInit
    /\ data = NoData /\ val = NoCall
    /\ seen = {} /\ always = {}

\* The sockets change the table.  Once they do, the last verdict is history.
Change ==
    /\ TableNext
    /\ IF val.at \in {"keys", "rounds"}
       THEN /\ seen' = seen \cup KeysIn(table'[Shared])
            /\ always' = always \cap KeysIn(table'[Shared])
            /\ UNCHANGED <<data, val>>
       ELSE data' = NoData /\ val' = NoCall /\ seen' = {} /\ always' = {}

Next ==
    \/ Change
    \/ /\ UNCHANGED tableVars
       /\ \/ \E d \in Update : Begin(Received(d))
          \/ check_router_keys \/ Validate \/ Return \/ OutOfMemory

Spec == Init /\ [][Next]_vars

-----------------------------------------------------------------------------
(* Properties                                                              *)

\* What the AS of segment i signed, if the update is as it signed it.
Signed(d, i) ==
    align_byte_sequence([d EXCEPT !.path = SubSeq(@, i, Len(@)), !.sigs = SubSeq(@, i + 1, Len(@)),
                                  !.target_as = IF i = 1 THEN @ ELSE d.path[i - 1].asn],
                        "SIGNING")

(* The bytes of the stream fill the buffer that was allocated for them,    *)
(* and each round of the validation loop hashes exactly the bytes that the *)
(* AS whose signature it looks at must have signed; there is such a        *)
(* signature in every round, and no signature is left when the loop has    *)
(* run to its end with all of them valid.                                  *)
RoundsExact ==
    /\ val.at = "keys" /\ val.i = 1 =>
           Width(align_byte_sequence(data, "VALIDATION")) = StreamSize
    /\ InLoop =>
           /\ val.i \in DOMAIN data.sigs
           /\ read_stream_at(align_byte_sequence(data, "VALIDATION"), val.offset)
                 = Signed(data, val.i)
    /\ val.at = "rounds" /\ ~ InLoop /\ val.retval = "VALID" => val.i = Len(data.sigs) + 1

Fits(key, i) ==
    /\ key.ski = data.sigs[i].ski /\ key.spki \notin Broken
    /\ data.sigs[i].signature = [by |-> key.spki, over |-> Signed(data, i)]

(* The verdict, while keys come and go: VALID only if for every segment    *)
(* there was a router key that fits its signature, and always VALID if     *)
(* there was one for each all the time and memory did not run out,         *)
(* whatever other keys have the same identifier.  RTR_BGPSEC_SUCCESS,      *)
(* which is no verdict, comes out only if the keys of a segment went away  *)
(* after they had been found.                                              *)
VerdictExact ==
    val.at = "done" =>
        LET n == DOMAIN data.sigs IN
        /\ val.retval = "VALID" => \A i \in n : \E key \in seen : Fits(key, i)
        /\ val.retval # "VALID" /\ val.i # 0 /\ ArgumentCheck(data) = "SUCCESS" =>
              \E i \in n : \A key \in always : ~ Fits(key, i)
        /\ val.retval = "SUCCESS" =>
              \E i \in n : /\ \A key \in always : key.ski # data.sigs[i].ski
                           /\ \E key \in seen : key.ski = data.sigs[i].ski
=============================================================================
