------------------------------ MODULE LlvmInt ------------------------------
(* LLVM's operators on integers of w bits, as bit patterns. *)
EXTENDS Words

Trunc(v, w)   == v % 2^w
SExt(v, n, w) == IntOf(v, n) % 2^w
Add(a, b, w)  == (a + b) % 2^w
Sub(a, b, w)  == (a - b) % 2^w
Shl(v, k, w)  == (v * 2^k) % 2^w
LShr(v, k)    == v \div 2^k

\* Variants: a shift that forgets the sign; a comparison that does.
AShr_logical(v, k, w) == LShr(v, k)
SGT_unsigned(a, b, w) == a > b

AbsOf(x) == IF x < 0 THEN -x ELSE x

AShr(v, k, w) == (IntOf(v, w) \div 2^k) % 2^w
SDiv(x, y)    == IF (x < 0) = (y < 0) THEN AbsOf(x) \div AbsOf(y)
                 ELSE -(AbsOf(x) \div AbsOf(y))
UGT(a, b)     == a > b
SGT(a, b, w)  == IntOf(a, w) > IntOf(b, w)
=============================================================================
