CONSTANTS
  e1 = e1 e2 = e2 j1 = j1 j2 = j2 b1 = b1
  Events = {e1, e2}
  Jobs = {j1, j2}
  Blobs = {b1}
  Inline = Inline
  All = All
  BlobOf <- SharedBlob
  Home <- TwoUsers
  Selectors <- UserOrActor
SPECIFICATION Spec
INVARIANTS BytesOutliveReferences DetachedBytesAreGone VerifiedMissesOnlyLateRows
SYMMETRY JobSymmetry
CHECK_DEADLOCK FALSE
