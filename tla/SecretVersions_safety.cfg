\* Two requests of every operation, with a clock, on a secret of up to two
\* versions; and two that edit it, on one of up to three.
SPECIFICATION Spec
CONSTANTS
  Requests = {r1, r2}
  Nobody = Nobody
  MaxVersion = 3
  Horizon = 1
  Offered <- AllOps
CONSTRAINT ReadsOfFewer
SYMMETRY RequestSymmetry
INVARIANTS OneActive MaterialOpens
PROPERTIES RevokedForGood NoLostRotation NoGap ImplementsRegister NoBarredPlaintext
