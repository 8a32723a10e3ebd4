------------------------------ MODULE MCCloser ------------------------------
(* Small instances of Closer.  Windows are 5 units of time wide.           *)
EXTENDS Closer

(* Two vendors report identifier 1 from windows 0 and 2; a third event of  *)
(* the same shape, with an identifier of its own, shares the later window. *)
PairVendor == [f |-> "f5", c |-> "cloudflare", n |-> "cloudflare"]
PairTime == [f |-> 1, c |-> 11, n |-> 12]
PairIds == [f |-> {1}, c |-> {1}, n |-> {2}]
PairShape == [f |-> "/a", c |-> "/a", n |-> "/a"]

(* One window, three vendors, no identifiers.                              *)
ShapeVendor == [a |-> "f5", b |-> "cloudflare", c |-> "nginx"]
ShapeTime == [a |-> 1, b |-> 2, c |-> 3]
ShapeIds == [a |-> {}, b |-> {}, c |-> {}]
ShapeShape == [a |-> "/a", b |-> "/a", c |-> "/a"]

(* One vendor's two rows of one request, one unit either side of a window  *)
(* boundary; each window holds another event of the same shape.            *)
SplitVendor == [a |-> "cloudflare", b |-> "cloudflare", d |-> "f5", e |-> "f5"]
SplitTime == [a |-> 4, b |-> 5, d |-> 2, e |-> 7]
SplitIds == [a |-> {1}, b |-> {1}, d |-> {}, e |-> {}]
SplitShape == [a |-> "/a", b |-> "/a", d |-> "/a", e |-> "/a"]
=============================================================================
