SPECIFICATION Spec
CONSTANTS
  Objects = {o1, o2}
  NoObject = NoObject
  Natives = {n1, n2}
  NoNative = NoNative
  Fns = {f1}
  Args = {a1}
  NoFn = NoFn
  Codes = {0, 1}
  Garbage = Garbage
INVARIANTS
  ArgDelivered
