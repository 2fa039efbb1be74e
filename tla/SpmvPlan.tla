-------------------------------- MODULE SpmvPlan --------------------------------
(***************************************************************************)
(* The sparse matrix vector product of src/sparse: the conversions of      *)
(* SpmvPlan, the algorithm spmv resolves, and the kernels.  Everything is  *)
(* indexed from zero as in the code; a buffer is a function on 0 .. n - 1. *)
(***************************************************************************)
EXTENDS StreamCalls

CONSTANTS
  Warp,            \* lanes of a warp, 32
  Items,           \* kItemsPerThread of the merge kernel
  MergeBlock,      \* its kBlock
  SliceHeight,     \* kSliceHeight of SELL-C-sigma
  SigmaRegular, SigmaPowerLaw,   \* kSigmaRegular, kSigmaPowerLaw
  MaxPadded        \* kMaxPaddedEntries

BlockDims == {2, 4, 8}

-------------------------------------------------------------------------------
(* A matrix a has a.m rows, a.n columns, and ptr, col and val as CSR does. *)

Nnz(a) == a.ptr[a.m]
Row(a) == 0 .. a.m - 1
RowLen(a, r) == a.ptr[r + 1] - a.ptr[r]
RowOf(a, k) == CHOOSE r \in Row(a) : a.ptr[r] <= k /\ k < a.ptr[r + 1]

Product(a, x) == [k \in 0 .. Nnz(a) - 1 |-> Times(a.val[k], x[a.col[k]])]

-------------------------------------------------------------------------------
(* build_histogram, and the choices that follow from it.                   *)

MaxRow(a) == LET lens == {RowLen(a, r) : r \in Row(a)} IN CHOOSE l \in lens : \A k \in lens : k <= l
PowerLaw(a) == Nnz(a) > 0 /\ MaxRow(a) * a.m >= Warp * Nnz(a)

\* width_for: the narrowest group of lanes no shorter than the mean row.
WidthFor(a) ==
  LET fits == {w \in {2, 4, 8, 16} : w < Warp /\ Nnz(a) <= w * a.m}
  IN  IF fits = {} THEN Warp ELSE CHOOSE w \in fits : \A v \in fits : w <= v

-------------------------------------------------------------------------------
(* build_sell.                                                             *)

Sigma(a, opt) ==
  IF opt.sigma > 0 THEN opt.sigma ELSE IF PowerLaw(a) THEN SigmaPowerLaw ELSE SigmaRegular

\* The stable sort by descending length within windows of sigma rows: the
\* place of a row, and the row of a slot (-1 past the last).
PlaceOf(a, sigma, r) ==
  LET window == {q \in Row(a) : q \div sigma = r \div sigma}
  IN  (r \div sigma) * sigma
        + Cardinality({q \in window : \/ RowLen(a, q) > RowLen(a, r)
                                      \/ RowLen(a, q) = RowLen(a, r) /\ q < r})

SellPerm(a, sigma) ==
  [slot \in 0 .. CeilDiv(a.m, SliceHeight) * SliceHeight - 1 |->
     IF slot < a.m THEN CHOOSE r \in Row(a) : PlaceOf(a, sigma, r) = slot ELSE -1]

SellOf(a, opt) ==
  LET perm == SellPerm(a, Sigma(a, opt))
      slices == CeilDiv(a.m, SliceHeight)
      len == [slot \in DOMAIN perm |-> IF perm[slot] < 0 THEN 0 ELSE RowLen(a, perm[slot])]
      lane == 0 .. SliceHeight - 1
      longest(s) ==
        CHOOSE l \in {len[s * SliceHeight + i] : i \in lane} :
          \A i \in lane : len[s * SliceHeight + i] <= l
      ptr[s \in 0 .. slices] ==
        IF s = 0 THEN 0 ELSE ptr[s - 1] + longest(s - 1) * SliceHeight
      \* The nonzero an entry of the layout holds, -1 for padding.
      from == [at \in 0 .. ptr[slices] - 1 |->
        LET s == CHOOSE q \in 0 .. slices - 1 : ptr[q] <= at /\ at < ptr[q + 1]
            slot == s * SliceHeight + ((at - ptr[s]) % SliceHeight)
            j == (at - ptr[s]) \div SliceHeight
        IN  IF j < len[slot] THEN a.ptr[perm[slot]] + j ELSE -1]
  IN  IF ptr[slices] > MaxPadded THEN [slices |-> 0]
      ELSE [slices |-> slices, ptr |-> ptr, perm |-> perm, len |-> len,
            col |-> [at \in DOMAIN from |-> IF from[at] < 0 THEN 0 ELSE a.col[from[at]]],
            val |-> [at \in DOMAIN from |-> IF from[at] < 0 THEN 0 ELSE a.val[from[at]]]]

-------------------------------------------------------------------------------
(* build_bsr.                                                              *)

\* The nonzeros that open a block: none before them is in the same block.
Opens(a, bd) ==
  {k \in 0 .. Nnz(a) - 1 : \A j \in 0 .. k - 1 :
     ~(RowOf(a, j) \div bd = RowOf(a, k) \div bd /\ a.col[j] \div bd = a.col[k] \div bd)}

Filled(a, bd) == 2 * Nnz(a) >= Cardinality(Opens(a, bd)) * bd * bd /\ Nnz(a) > 0

\* The dimension named, or the widest that is at least half full, or the
\* narrowest; 0 when the matrix is narrower than every candidate.
BlockDim(a, opt) ==
  LET tried == {bd \in IF opt.block_dim > 1 THEN {opt.block_dim} ELSE BlockDims : bd <= a.n}
      full == {bd \in tried : Filled(a, bd)}
  IN  IF tried = {} THEN 0
      ELSE IF full = {} THEN CHOOSE bd \in tried : \A other \in tried : bd <= other
      ELSE CHOOSE bd \in full : \A other \in full : other <= bd

BsrOf(a, opt) ==
  LET bd == BlockDim(a, opt)
      opens == Opens(a, bd)
      count == Cardinality(opens)
      brows == CeilDiv(a.m, bd)
      opener == [b \in 0 .. count - 1 |->
        CHOOSE k \in opens : Cardinality({j \in opens : j < k}) = b]
      within(b, r, c) == {k \in 0 .. Nnz(a) - 1 :
        /\ RowOf(a, k) = (RowOf(a, opener[b]) \div bd) * bd + r
        /\ a.col[k] = (a.col[opener[b]] \div bd) * bd + c}
  IN  IF \/ opt.block_dim > 1 /\ opt.block_dim \notin BlockDims
         \/ bd = 0
         \/ count * bd * bd > MaxPadded
      THEN [dim |-> 0]
      ELSE [dim |-> bd, rows |-> brows,
            ptr |-> [br \in 0 .. brows |-> Cardinality({k \in opens : RowOf(a, k) \div bd < br})],
            col |-> [b \in 0 .. count - 1 |-> a.col[opener[b]] \div bd],
            val |-> [b \in 0 .. count - 1 |-> [r \in 0 .. bd - 1 |-> [c \in 0 .. bd - 1 |->
                       SumOver(a.val, within(b, r, c))]]]]

-------------------------------------------------------------------------------
(* The plan, and what spmv makes of a request.                             *)

\* spmv_merge_carry_count: the slots for the carries, in whole blocks.
CarryCount(m, nnz) ==
  IF m <= 0 THEN 0 ELSE CeilDiv(CeilDiv(m + nnz, Items), MergeBlock) * MergeBlock

EmptyMatrix(a) == a.m = 0 \/ a.n = 0

\* SpmvPlan::Impl::build.
BuildSpmv ==
  /\ input.family = "spmv"
  /\ LET a == input.a
         opt == input.opt
         threads == CarryCount(a.m, Nnz(a)) IN
     IF EmptyMatrix(a)
     THEN Construct([family |-> "spmv", slices |-> 0, dim |-> 0], [x |-> <<>>, y |-> <<>>])
     ELSE Construct(
       [family |-> "spmv", power_law |-> PowerLaw(a),
        width |-> IF opt.vector_width > 0 THEN opt.vector_width ELSE WidthFor(a),
        sell |-> IF opt.build_sell THEN SellOf(a, opt) ELSE [slices |-> 0],
        bsr |-> IF opt.build_bsr /\ opt.block_dim # 1 THEN BsrOf(a, opt) ELSE [dim |-> 0],
        merge_threads |-> threads],
       [x |-> <<>>, y |-> <<>>,
        carry_rows |-> [t \in 0 .. threads - 1 |-> NaN],
        carry_values |-> [t \in 0 .. threads - 1 |-> NaN]])

\* SpmvPlan::query.
SpmvQuery(a) ==
  IF EmptyMatrix(a) \/ Nnz(a) = 0 THEN "csr_vector"
  ELSE IF plan.power_law THEN "merge"
  ELSE IF Nnz(a) >= Warp * a.m THEN "csr_warp" ELSE "csr_vector"

\* SpmvPlan::Impl::run: the launches of a rung, or that there is no copy of
\* the matrix in its format.
SpmvLaunches(algo) ==
  CASE algo = "merge" -> <<[kernel |-> "merge"], [kernel |-> "merge_fixup"]>>
    [] OTHER -> <<[kernel |-> algo]>>
SpmvLacks(algo) ==
  \/ algo = "sell" /\ plan.sell.slices = 0
  \/ algo = "bsr" /\ plan.bsr.dim = 0

\* spmv: kAuto resolved, the choice reported, the pointers checked, and nothing
\* enqueued for a matrix with no rows or no columns.
CallSpmv(req) ==
  LET a == input.a
      algo == IF req.algo = "auto" THEN SpmvQuery(a) ELSE req.algo
      answer == IF ~EmptyMatrix(a) /\ Nnz(a) > 0 /\ req.null THEN "invalid_value"
                ELSE IF ~EmptyMatrix(a) /\ SpmvLacks(algo) THEN "not_supported" ELSE "success"
  IN  /\ input.family = "spmv"
      /\ Serve(req, algo, answer, IF EmptyMatrix(a) THEN <<>> ELSE SpmvLaunches(algo),
               [x |-> req.x, y |-> req.y])

-------------------------------------------------------------------------------
(* The kernels.                                                            *)

\* What every kernel but the merge stores, given the sum of each row.
StoreRows(sum) ==
  Execute([y |-> [r \in Row(input.a) |->
             Blend(request.alpha, sum[r], request.beta, dev.y[r])]])

\* One thread to a row.
CsrNaiveKernel ==
  /\ Launched("csr_naive")
  /\ StoreRows([r \in Row(input.a) |->
       SumOf(Product(input.a, dev.x), input.a.ptr[r], input.a.ptr[r + 1])])

\* width lanes to a row, lane l taking every width-th nonzero from l on; the
\* shuffles add the lanes up.
LaneSum(a, x, r, width, l) ==
  SumOver(Product(a, x), {k \in a.ptr[r] .. a.ptr[r + 1] - 1 : (k - a.ptr[r]) % width = l})

CsrWarpKernel ==
  /\ Launched("csr_warp")
  /\ StoreRows([r \in Row(input.a) |->
       SumOf([l \in 0 .. Warp - 1 |-> LaneSum(input.a, dev.x, r, Warp, l)], 0, Warp)])

\* spmv_csr_vector rounds the width up to one it is instantiated for.
VectorWidth(w) ==
  LET fits == {v \in {2, 4, 8, 16} : v < Warp /\ w <= v}
  IN  IF fits = {} THEN Warp ELSE CHOOSE v \in fits : \A u \in fits : v <= u

CsrVectorKernel ==
  /\ Launched("csr_vector")
  /\ LET width == VectorWidth(plan.width) IN
       StoreRows([r \in Row(input.a) |->
         SumOf([l \in 0 .. width - 1 |-> LaneSum(input.a, dev.x, r, width, l)], 0, width)])

\* A warp walks a slice, one row to a lane, as far as the row really goes.
SellKernel ==
  /\ Launched("sell")
  /\ LET f == plan.sell
         slotOf(r) == CHOOSE slot \in DOMAIN f.perm : f.perm[slot] = r
         sum(slot) ==
           LET base == f.ptr[slot \div SliceHeight] + (slot % SliceHeight)
           IN  SumOf([j \in 0 .. f.len[slot] - 1 |->
                 Times(f.val[base + j * SliceHeight], dev.x[f.col[base + j * SliceHeight]])],
                 0, f.len[slot])
     IN  StoreRows([r \in Row(input.a) |-> sum(slotOf(r))])

\* A warp to a block row, a lane to every Warp-th block; the columns of the last
\* block that lie past the matrix are not read.
BsrKernel ==
  /\ Launched("bsr")
  /\ LET f == plan.bsr
         part(r, b) ==
           SumOver([c \in 0 .. f.dim - 1 |->
                      IF f.col[b] * f.dim + c < input.a.n
                        THEN Times(f.val[b][r % f.dim][c], dev.x[f.col[b] * f.dim + c]) ELSE 0],
                   0 .. f.dim - 1)
     IN  StoreRows([r \in Row(input.a) |->
           LET br == r \div f.dim
           IN  SumOver([b \in f.ptr[br] .. f.ptr[br + 1] - 1 |-> part(r, b)],
                       f.ptr[br] .. f.ptr[br + 1] - 1)])

\* The vendor's, whatever it does.
CusparseKernel ==
  /\ Launched("cusparse")
  /\ StoreRows([r \in Row(input.a) |->
       SumOf(Product(input.a, dev.x), input.a.ptr[r], input.a.ptr[r + 1])])

\* merge_path_search: how many rows end before diagonal d of the merge.
MergeSplit(a, d) ==
  LET split[lo \in 0 .. a.m, hi \in 0 .. a.m] ==
        IF lo >= hi THEN lo
        ELSE LET mid == (lo + hi) \div 2
             IN  IF a.ptr[mid + 1] <= d - mid - 1 THEN split[mid + 1, hi] ELSE split[lo, mid]
  IN  split[Larger(0, d - Nnz(a)), Smaller(d, a.m)]

\* Thread t walks its segment of the path: the row and the nonzero it has come
\* to, the sum of the row so far, and the rows it has met the end of.
MergeWalk(a, x, t) ==
  LET begin == t * Items
      end == Smaller(begin + Items, a.m + Nnz(a))
      product == Product(a, x)
      walk[d \in begin .. end] ==
        IF d = begin
        THEN [row |-> MergeSplit(a, begin), entry |-> begin - MergeSplit(a, begin),
              sum |-> 0, ended |-> <<>>]
        ELSE LET w == walk[d - 1] IN
             IF w.row < a.m /\ a.ptr[w.row + 1] <= w.entry
             THEN [w EXCEPT !.row = @ + 1, !.sum = 0, !.ended = (w.row :> w.sum) @@ @]
             ELSE IF w.entry < Nnz(a)
             THEN [w EXCEPT !.entry = @ + 1, !.sum = Plus(@, product[w.entry])]
             ELSE w
  IN  IF begin >= a.m + Nnz(a) THEN [row |-> a.m, entry |-> 0, sum |-> 0, ended |-> <<>>]
      ELSE walk[end]

\* Every thread writes its carry, if only to say it has none, and stores the rows
\* it has met the end of; two threads that stored one row would race.
MergeKernel ==
  /\ Launched("merge")
  /\ LET a == input.a
         thread == 0 .. plan.merge_threads - 1
         walked == [t \in thread |-> MergeWalk(a, dev.x, t)]
         carries(t) == walked[t].sum # 0 /\ walked[t].row < a.m
         storers(r) == {t \in thread : r \in DOMAIN walked[t].ended}
     IN  Execute([
           y |-> [r \in Row(a) |->
             IF storers(r) = {} THEN dev.y[r]
             ELSE IF Cardinality(storers(r)) > 1 THEN NaN
             ELSE LET t == CHOOSE t \in storers(r) : TRUE
                  IN  Blend(request.alpha, walked[t].ended[r], request.beta, dev.y[r])],
           carry_rows |-> [t \in thread |-> IF carries(t) THEN walked[t].row ELSE -1],
           carry_values |-> [t \in thread |-> IF carries(t) THEN walked[t].sum ELSE 0]])

\* Adds that are not atomic: of the carries of a row, one survives.
FixupLosesCarries ==
  /\ Launched("merge_fixup")
  /\ Execute([y |-> [r \in Row(input.a) |->
       LET mine == {t \in DOMAIN dev.carry_rows : dev.carry_rows[t] = r}
       IN  IF mine = {} THEN dev.y[r]
           ELSE Plus(dev.y[r], Times(request.alpha, dev.carry_values[CHOOSE t \in mine : TRUE]))]])

\* The atomic adds of the carries.
MergeFixupKernel ==
  /\ Launched("merge_fixup")
  /\ LET mine(r) == {t \in DOMAIN dev.carry_rows : dev.carry_rows[t] = r} IN
     Execute([y |-> [r \in Row(input.a) |->
       Plus(dev.y[r], Times(request.alpha, SumOver(dev.carry_values, mine(r))))]])

SpmvKernel ==
  \/ CsrNaiveKernel \/ CsrWarpKernel \/ CsrVectorKernel \/ SellKernel \/ BsrKernel
  \/ CusparseKernel \/ MergeKernel \/ MergeFixupKernel

-------------------------------------------------------------------------------
(* Properties.                                                             *)

\* Row r has a block over a column where x is no number: the zeros that fill the
\* block are multiplied with it.
TouchesNaN(r) ==
  \E b \in plan.bsr.ptr[r \div plan.bsr.dim] .. plan.bsr.ptr[(r \div plan.bsr.dim) + 1] - 1 :
    \E c \in 0 .. input.a.n - 1 : c \div plan.bsr.dim = plan.bsr.col[b] /\ dev.x[c] = NaN

\* Whatever the algorithm, spmv leaves alpha A x + beta y, duplicates added up,
\* a number no row needs not read, an old y not read when beta is zero.
SpmvExact ==
  input.family = "spmv" /\ status = "success" =>
    IF EmptyMatrix(input.a) THEN dev.y = request.y
    ELSE \A r \in Row(input.a) :
      \/ dev.y[r] = Blend(request.alpha,
             SumOver(Product(input.a, request.x), input.a.ptr[r] .. input.a.ptr[r + 1] - 1),
             request.beta, request.y[r])
      \/ chosen = "bsr" /\ TouchesNaN(r)
===============================================================================
