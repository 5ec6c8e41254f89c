--------------------------- MODULE Reconstruction ---------------------------
(***************************************************************************)
(* The linear algebra of src/src/lsss.rs: the constants that rebuild a     *)
(* secret from the rows of a sharing matrix are found by Gaussian          *)
(* elimination over Z_Q, and shares are put together with them.  The       *)
(* elimination is a machine: one step per column of the system, as in the  *)
(* loop of solve_linear_system.                                            *)
(*                                                                         *)
(* MachineSpec is for any rows; SharingMatrix, whose rows are those of a   *)
(* policy's matrix, takes the same steps.                                  *)
(***************************************************************************)
EXTENDS Modulus, Sequences, Functions, FiniteSetsExt

CONSTANTS
    Attributes,
    MaxCoeffNorm   \* MAX_RECONSTRUCTION_COEFF_NORM

(* Constants of 1 are small enough.                                        *)
ASSUME NormAssumption == MaxCoeffNorm \in Nat \ {0}

(* Q is a prime.                                                           *)
ASSUME FieldAssumption == \A a \in 1..(Q - 1) : \E b \in 1..(Q - 1) : (a * b) % Q = 1

VARIABLES
    phase,       \* "parse", "choose", "eliminate", "none", "some" or "refused"
    rows,        \* the rows of the matrix the caller holds, in matrix order
    augmented,   \* the augmented system: one equation per matrix column
    col,         \* the column the loop is at
    pivots,      \* the columns that got a pivot so far
    omega        \* the constants returned

machine_vars == <<phase, rows, augmented, col, pivots, omega>>

(* The product of two vectors over the integers, as long as the second is. *)
Product(f, g) == SumFunctionOnSet([j \in DOMAIN g |-> f[j] * g[j]], DOMAIN g)

-----------------------------------------------------------------------------
(* The system M^T omega = (1, 0, ..., 0), restricted to the rows held.     *)

NCols == Len(augmented)      \* equations, the columns of the matrix
NRows == Len(rows)           \* unknowns, the rows held

(* Variant: the entries are not reduced.                                   *)
SystemUnreduced(rs) ==
    [i \in 1..Len(rs[1].vec) |->
        [j \in 1..(Len(rs) + 1) |->
            IF j <= Len(rs) THEN rs[j].vec[i] ELSE IF i = 1 THEN 1 ELSE 0]]

(* The augmented system of the given rows, reduced mod Q.                  *)
System(rs) ==
    [i \in 1..Len(rs[1].vec) |->
        [j \in 1..(Len(rs) + 1) |->
            IF j <= Len(rs) THEN rs[j].vec[i] % Q ELSE IF i = 1 THEN 1 ELSE 0]]

(* mod_inverse, for a modulus that is prime.                               *)
ModInverse(a) == CHOOSE b \in 1..(Q - 1) : (a * b) % Q = 1

Centered(v) == IF v <= Q \div 2 THEN v ELSE v - Q

(* Variant: the search for a pivot starts one equation too low.            *)
CandidatesOffByOne(c) == {r \in (Len(pivots) + 2)..NCols : augmented[r][c] # 0}

(* The equations in which column c is not zero, below the pivots taken.    *)
Candidates(c) == {r \in (Len(pivots) + 1)..NCols : augmented[r][c] # 0}

(* Variant: the clearing of the other equations skips their right side.    *)
ClearedWithoutTarget(system, p, c) ==
    LET normal == [j \in 1..(NRows + 1) |-> (system[p][j] * ModInverse(system[p][c])) % Q]
    IN  [r \in 1..NCols |->
            IF r = p THEN normal
            ELSE [j \in 1..(NRows + 1) |->
                    IF j > NRows THEN system[r][j]
                    ELSE (system[r][j] - system[r][c] * normal[j]) % Q]]

(* Variant: the equations above the pivot are not cleared.                 *)
ClearedBelow(system, p, c) ==
    LET normal == [j \in 1..(NRows + 1) |-> (system[p][j] * ModInverse(system[p][c])) % Q]
    IN  [r \in 1..NCols |->
            IF r = p THEN normal
            ELSE IF r < p THEN system[r]
            ELSE [j \in 1..(NRows + 1) |-> (system[r][j] - system[r][c] * normal[j]) % Q]]

(* The pivot equation p scaled to 1 in column c, and column c cleared in   *)
(* every other equation.                                                   *)
Cleared(system, p, c) ==
    LET normal == [j \in 1..(NRows + 1) |-> (system[p][j] * ModInverse(system[p][c])) % Q]
    IN  [r \in 1..NCols |->
            IF r = p THEN normal
            ELSE [j \in 1..(NRows + 1) |-> (system[r][j] - system[r][c] * normal[j]) % Q]]

(* The two equations swapped.                                              *)
Swapped(system, a, b) == [system EXCEPT ![a] = system[b], ![b] = system[a]]

(* Variant: the constants start one equation too low.                      *)
ConstantsOffByOne ==
    [i \in 1..NRows |->
        IF i < Len(pivots) THEN Centered(augmented[i + 1][NRows + 1]) ELSE 0]

(* The constants read off the reduced system: the i-th from equation i.    *)
ReadConstants ==
    [i \in 1..NRows |->
        IF i <= Len(pivots) THEN Centered(augmented[i][NRows + 1]) ELSE 0]

Abs(x) == IF x < 0 THEN -x ELSE x

(* The sum of the first column weighted by the constants, mod Q.           *)
FirstColumnSum(ws) == Product([i \in DOMAIN rows |-> rows[i].vec[1]], ws) % Q

-----------------------------------------------------------------------------
(* The machine.                                                            *)

(* Rows of one length, of at least the column of the secret.               *)
IsRows(rs) ==
    \/ rs = <<>>
    \/ /\ Len(rs[1].vec) \in Nat \ {0}
       /\ rs \in Seq([vec : [1..Len(rs[1].vec) -> Int], attr : Attributes])

MachineInit ==
    /\ phase = "parse"
    /\ rows = <<>>
    /\ augmented = <<>>
    /\ col = 1
    /\ pivots = <<>>
    /\ omega = <<>>

(* The matrix is made, or the policy refused.                              *)
Prepare ==
    /\ phase = "parse"
    /\ phase' \in {"choose", "refused"}
    /\ UNCHANGED <<rows, augmented, col, pivots, omega>>

(* get_reconstruction_constants has selected the rows of the caller's      *)
(* attributes; with none of them there is nothing to solve.                *)
Begin ==
    /\ phase = "choose"
    /\ IF rows' = <<>>
       THEN phase' = "none" /\ UNCHANGED augmented
       ELSE phase' = "eliminate" /\ augmented' = System(rows')
    /\ UNCHANGED <<col, pivots, omega>>

(* A column with a pivot.                                                  *)
Eliminate ==
    /\ phase = "eliminate"
    /\ col <= NRows
    /\ Candidates(col) # {}
    /\ LET p == Len(pivots) + 1
       IN  augmented' = Cleared(Swapped(augmented, p, Min(Candidates(col))), p, col)
    /\ pivots' = Append(pivots, col)
    /\ col' = col + 1
    /\ UNCHANGED <<phase, rows, omega>>

(* A column without one.                                                   *)
SkipColumn ==
    /\ phase = "eliminate"
    /\ col <= NRows
    /\ Candidates(col) = {}
    /\ col' = col + 1
    /\ UNCHANGED <<phase, rows, augmented, pivots, omega>>

(* An equation left without unknowns but with a right side.                *)
Inconsistent == \E r \in (Len(pivots) + 1)..NCols : augmented[r][NRows + 1] # 0

(* Variant: the equations without a pivot are not looked at.               *)
ReturnUnchecked ==
    /\ phase = "eliminate"
    /\ col > NRows
    /\ IF FirstColumnSum(ReadConstants) = 1
       THEN phase' = "some" /\ omega' = ReadConstants
       ELSE phase' = "none" /\ UNCHANGED omega
    /\ UNCHANGED <<rows, augmented, col, pivots>>

(* The end of the elimination, and the checks get_reconstruction_constants *)
(* makes of what it returns.                                               *)
Return ==
    /\ phase = "eliminate"
    /\ col > NRows
    /\ IF /\ ~Inconsistent
          /\ FirstColumnSum(ReadConstants) = 1
          /\ \A i \in 1..NRows : Abs(ReadConstants[i]) <= MaxCoeffNorm
       THEN phase' = "some" /\ omega' = ReadConstants
       ELSE phase' = "none" /\ UNCHANGED omega
    /\ UNCHANGED <<rows, augmented, col, pivots>>

-----------------------------------------------------------------------------
(* Shares.                                                                 *)

(* Variant: the random entries are drawn anew for each row.                *)
ShareRedrawn(v) ==
    [i \in DOMAIN rows |->
        Product(rows[i].vec, [j \in DOMAIN v |-> v[j] + IF j > 1 THEN i ELSE 0]) % Q]

(* share: the shares of the rows held, for a vector v whose first entry is *)
(* the secret and whose others are random.                                 *)
Share(v) == [i \in DOMAIN rows |-> Product(rows[i].vec, v) % Q]

(* reconstruct: constants and shares are paired by position.               *)
Reconstruct(ws, shares) == Product(ws, shares) % Q

MachineNext == Prepare \/ (IsRows(rows') /\ Begin) \/ Eliminate \/ SkipColumn \/ Return

MachineSpec == MachineInit /\ [][MachineNext]_machine_vars

-----------------------------------------------------------------------------
(* Properties.                                                             *)

Residues == 0..(Q - 1)

(* The system keeps its shape and its entries stay reduced.                *)
TypeOK ==
    /\ phase \in {"parse", "choose", "eliminate", "none", "some", "refused"}
    /\ IsRows(rows)
    /\ col \in 1..(NRows + 1)
    /\ NCols = IF rows = <<>> THEN 0 ELSE Len(rows[1].vec)
    /\ \A r \in 1..NCols : augmented[r] \in [1..(NRows + 1) -> Residues]
    /\ Len(pivots) <= NCols
    /\ \A i \in DOMAIN pivots : pivots[i] < col
    /\ phase = "some" => omega \in [1..NRows -> -(Q \div 2)..(Q \div 2)]

(* The value of an equation's left side.                                   *)
Weighted(equation, ws) == Product(equation, ws) % Q

Solves(system, ws) == \A r \in DOMAIN system : Weighted(system[r], ws) = system[r][NRows + 1]

(* No step of the elimination gains or loses a solution: the system it is  *)
(* at has those of the system it started from.                             *)
SolutionsKept ==
    phase = "eliminate" =>
        \A ws \in [1..NRows -> Residues] : Solves(augmented, ws) <=> Solves(System(rows), ws)

(* The columns behind the loop are those of the unit matrix: a pivot       *)
(* column is 1 in its own equation and 0 in every other, and a column      *)
(* without pivot is 0 below the pivots.                                    *)
ReducedBehind ==
    phase = "eliminate" =>
        /\ \A i \in DOMAIN pivots : \A r \in 1..NCols :
              augmented[r][pivots[i]] = IF r = i THEN 1 ELSE 0
        /\ \A c \in 1..(col - 1) : \A r \in (Len(pivots) + 1)..NCols : augmented[r][c] = 0

(* The constants rebuild the secret: they weigh the rows to (1, 0, ..., 0).*)
Rebuilds(ws) == Solves(System(rows), ws)

(* Shares of the rows held, given in the order of the matrix, rebuild      *)
(* every secret, whatever was drawn for the other columns.                 *)
OrderedSharesRebuild ==
    phase = "some" /\ (\A i \in DOMAIN pivots : pivots[i] = i) =>
        \A v \in [1..NCols -> Residues] : Reconstruct(omega, Share(v)) = v[1]

=============================================================================
