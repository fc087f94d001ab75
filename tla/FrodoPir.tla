------------------------------ MODULE FrodoPir ------------------------------
(***************************************************************************)
(* frodo-pir-fast: a client fetches an element of a server's database by a *)
(* query that is a vector of numbers modulo Q (2^32 in the code).          *)
(*                                                                         *)
(* An element of the database is the set of its bits that are one; a       *)
(* Matrix is a record of its dimensions and its vector, row after row,     *)
(* numbered from 0.  The vector may be longer than rows * cols: nothing in *)
(* the code forbids it.                                                    *)
(***************************************************************************)
EXTENDS Integers, FiniteSets, FiniteSetsExt

CONSTANTS
    Q,                  \* the word: 2^32
    BYTE,               \* bits in a byte
    m,                  \* elements of the database
    elem_size, plaintext_bits, dim,
    queries,
    Elems,              \* elements a database holds
    Words,              \* the values the random matrix A takes
    Secrets             \* the ternary values s and e take: 0, 1, Q - 1

ASSUME PirAssumption ==
    /\ {Q, BYTE, m, elem_size, plaintext_bits, dim, queries} \subseteq Nat \ {0}
    /\ 2 ^ plaintext_bits <= Q /\ elem_size % BYTE = 0
    /\ \A e \in Elems : e \subseteq 0 .. elem_size - 1
    /\ Words \subseteq 0 .. Q - 1 /\ Secrets \subseteq {0, 1, Q - 1}

VARIABLES
    phase,      \* offline, served, ready, asked, answered, parsed, over
    vals,       \* the elements given to the server
    db, A, H,   \* the server's matrices
    s, e,       \* the values the client has sampled
    B, C,       \* the rows it has prepared
    used,       \* rows popped so far
    row, query, response, result

vars == <<phase, vals, db, A, H, s, e, B, C, used, row, query, response, result>>

-----------------------------------------------------------------------------
(* matrix.rs                                                               *)

with_vector(v, r, c) == [rows |-> r, cols |-> c, elements |-> v]
Size(a) == a.rows * a.cols
Vectors(len, S) == [0 .. len - 1 -> S]

transpose(a) ==
    with_vector([k \in 0 .. Size(a) - 1 |-> a.elements[(k % a.rows) * a.cols + k \div a.rows]],
                a.cols, a.rows)

\* A row of the left matrix against a row of the transposed right one.
mult_transpose(a, b) ==
    LET t == transpose(b)
    IN  with_vector([k \in 0 .. a.rows * b.cols - 1 |->
                        MapThenSumSet(LAMBDA x : a.elements[(k \div b.cols) * a.cols + x]
                                                 * t.elements[(k % b.cols) * a.cols + x],
                                      0 .. a.cols - 1) % Q],
                    a.rows, b.cols)

mult_by_vector(a, v) ==
    [i \in 0 .. a.rows - 1 |->
        MapThenSumSet(LAMBDA j : a.elements[i * a.cols + j] * v[j], 0 .. a.cols - 1) % Q]

\* The first Size(a) numbers of both.
add(a, b) ==
    with_vector([k \in DOMAIN a.elements |->
                    IF k < Size(a) THEN (a.elements[k] + b.elements[k]) % Q
                    ELSE a.elements[k]], a.rows, a.cols)

\* Mutant: the vector is cut, the number of rows is not.
PoppedKeepsRows(a) ==
    [rows |-> a.rows, cols |-> a.cols,
     elements |-> [k \in 0 .. Size(a) - a.cols - 1 |-> a.elements[k]]]

\* pop_row: the last row, and what is left.
LastRow(a) == [j \in 0 .. a.cols - 1 |-> a.elements[(a.rows - 1) * a.cols + j]]
Popped(a) ==
    [rows |-> a.rows - 1, cols |-> a.cols,
     elements |-> [k \in 0 .. Size(a) - a.cols - 1 |-> a.elements[k]]]

is_empty(a) == a.rows = 0 /\ a.elements = [k \in {} |-> 0]

-----------------------------------------------------------------------------
(* Elements and rows of plaintexts.                                        *)

RowWidth == (elem_size + plaintext_bits - 1) \div plaintext_bits
ByteLen(bits) == (bits + BYTE - 1) \div BYTE
BitsToNat(S) == MapThenSumSet(LAMBDA i : 2 ^ i, S)

\* Mutant: the last bit of each plaintext is left out.
ChunkShort(el, j) ==
    {i - j * plaintext_bits : i \in {i \in el : /\ i >= j * plaintext_bits
                                                /\ i < (j + 1) * plaintext_bits - 1}}

\* The bits of plaintext j, up to its end or that of the element.
Chunk(el, j) ==
    {i - j * plaintext_bits : i \in {i \in el : /\ i >= j * plaintext_bits
                                                /\ i < (j + 1) * plaintext_bits}}

new_from_vals(v) ==
    with_vector([k \in 0 .. m * RowWidth - 1 |->
                    BitsToNat(Chunk(v[k \div RowWidth], k % RowWidth))], m, RowWidth)

\* u32_to_bits_le: the low bits of x.
LowBits(x, n) == {i \in 0 .. n - 1 : (x \div 2 ^ i) % 2 = 1}

\* bytes_from_u32_slice: every plaintext gives plaintext_bits bits, the last one
\* the remainder of the division.
remainder == elem_size % plaintext_bits
BitsOf(i) == IF i # RowWidth - 1 THEN plaintext_bits ELSE remainder

bytes_from_u32_slice(v) ==
    [bits |-> UNION {{i * plaintext_bits + x : x \in LowBits(v[i], BitsOf(i))} :
                        i \in 0 .. RowWidth - 1},
     bytes |-> ByteLen((RowWidth - 1) * plaintext_bits + BitsOf(RowWidth - 1))]

-----------------------------------------------------------------------------
(* utils.rs, offline.rs, online.rs                                         *)

plaintext_size == 2 ^ plaintext_bits
rounding_factor == Q \div plaintext_size
rounding_floor == rounding_factor \div 2

None == with_vector([k \in {} |-> 0], 0, 1)

Init ==
    /\ phase = "offline" /\ vals = [i \in 0 .. m - 1 |-> {}]
    /\ db = None /\ A = None /\ H = None /\ B = None /\ C = None
    /\ s = [k \in {} |-> 0] /\ e = [k \in {} |-> 0]
    /\ used = 0 /\ row = 0 /\ query = [b |-> s, c |-> s] /\ response = s /\ result = s

\* BaseParams::new.
ServerOffline ==
    /\ phase = "offline" /\ phase' = "served"
    /\ vals' \in Vectors(m, Elems)
    /\ db' = new_from_vals(vals')
    /\ \E v \in Vectors(dim * m, Words) : A' = with_vector(v, dim, m)
    /\ H' = mult_transpose(A', db')
    /\ UNCHANGED <<s, e, B, C, used, row, query, response, result>>

\* A vector of zeros, extended by the sampled values: the samples come after
\* the part that the dimensions reach.
Extended(n, v) == [k \in 0 .. 2 * n - 1 |-> IF k < n THEN 0 ELSE v[k - n]]

\* ClientParams::new: A again from the seed, S, E, B = S * A + E, C = S * H.
ClientOffline ==
    /\ phase = "served" /\ phase' = "ready"
    /\ s' \in Vectors(queries * dim, Secrets)
    /\ e' \in Vectors(queries * m, Secrets)
    /\ LET S == with_vector(Extended(queries * dim, s'), queries, dim)
           E == with_vector(Extended(queries * m, e'), queries, m)
       IN  /\ B' = add(mult_transpose(S, A), E)
           /\ C' = mult_transpose(S, H)
    /\ UNCHANGED <<vals, db, A, H, used, row, query, response, result>>

\* The index lies in the row and the addition does not overflow.
Admissible(b, r) == r \in DOMAIN b /\ b[r] + rounding_factor < Q

\* Query::create: a row is gone also when the query is refused.
QueryCreate(r) ==
    /\ phase \in {"ready", "parsed"} /\ ~is_empty(B) /\ ~is_empty(C)
    /\ B' = Popped(B) /\ C' = Popped(C) /\ used' = used + 1 /\ row' = r
    /\ IF Admissible(LastRow(B), r)
       THEN /\ query' = [b |-> [LastRow(B) EXCEPT ![r] = @ + rounding_factor],
                         c |-> LastRow(C)]
            /\ phase' = "asked"
       ELSE phase' = "ready" /\ UNCHANGED query
    /\ UNCHANGED <<vals, db, A, H, s, e, response, result>>

\* ErrorQueryParamsReused.
QueryRefused ==
    /\ phase \in {"ready", "parsed"} /\ (is_empty(B) \/ is_empty(C))
    /\ phase' = "over"
    /\ UNCHANGED <<vals, db, A, H, s, e, B, C, used, row, query, response, result>>

\* Response::create.
ResponseCreate ==
    /\ phase = "asked" /\ phase' = "answered"
    /\ response' = mult_by_vector(transpose(db), query.b)
    /\ UNCHANGED <<vals, db, A, H, s, e, B, C, used, row, query, result>>

Rounded(x) ==
    (x \div rounding_factor + (IF x % rounding_factor > rounding_floor THEN 1 ELSE 0))
      % plaintext_size

\* parse_response, for a response c.
Parsed(c) == [i \in 0 .. RowWidth - 1 |-> Rounded((c[i] + Q - query.c[i]) % Q)]

ParseResponse ==
    /\ phase = "answered" /\ phase' = "parsed"
    /\ result' = Parsed(response)
    /\ UNCHANGED <<vals, db, A, H, s, e, B, C, used, row, query, response>>

Over == phase = "over" /\ UNCHANGED vars

Next ==
    \/ ServerOffline \/ ClientOffline \/ (\E r \in 0 .. m : QueryCreate(r))
    \/ QueryRefused \/ ResponseCreate \/ ParseResponse \/ Over

Spec == Init /\ [][Next]_vars

-----------------------------------------------------------------------------
\* The types of the variables.
TypeOK ==
    /\ phase \in {"offline", "served", "ready", "asked", "answered", "parsed", "over"}
    /\ \A k \in DOMAIN db.elements : db.elements[k] \in 0 .. plaintext_size - 1
    /\ \A a \in {A, H, B, C} : \A k \in DOMAIN a.elements : a.elements[k] \in 0 .. Q - 1
    /\ used \in 0 .. queries /\ row \in 0 .. m
    /\ \A i \in DOMAIN result : result[i] \in 0 .. plaintext_size - 1

\* What the client reads out of the answer and turns back into bytes is the
\* element it asked for (the test end_to_end).
Retrieved ==
    phase = "parsed" =>
        bytes_from_u32_slice(result) = [bits |-> vals[row], bytes |-> ByteLen(elem_size)]

\* The rows the client has prepared are those of its samples: row q of B is
\* s * A + e for the q-th s and e (ClientParams::new, "The `s` value for the
\* client as in the paper").  It does not hold, see ClientOffline; no run
\* checks it.
RowsSampled ==
    phase = "ready" /\ used = 0 =>
        B.elements = add(mult_transpose(with_vector(s, queries, dim), A),
                         with_vector(e, queries, m)).elements

\* The rows of both matrices are spent together, one per query, refused ones
\* included, and parameters are exhausted exactly when every row has been used.
SpentTogether ==
    phase \notin {"offline", "served"} =>
        /\ B.rows = queries - used /\ C.rows = B.rows
        /\ Cardinality(DOMAIN B.elements) = Size(B)
        /\ phase = "over" => used = queries

\* The types and the rows together: whatever queries are made, refused or
\* answered, the client's two matrices stay in step (Query::create).
PirInv == TypeOK /\ SpentTogether

=============================================================================
