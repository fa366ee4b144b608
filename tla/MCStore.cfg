CONSTANTS
  Ne = Ne
  ae = ae
  de = de
  Se = Se
  Wt = Wt
  Xt = Xt
  Zt = Zt
  en = en
  sn = sn
  dn = dn
  un = un
  tn = tn
  v0 = v0
  v1 = v1
  Writables = {Ne, ae, de, Se}
  Derived = {Wt, Xt, Zt, en}
  Deps <- AppDeps
  ObjectStores = {Ne, de, Se, Wt, Xt, en}
  ReSettable = {Ne}
  Vals = {v0, v1}
  InitVal <- AppInit
  Comps = {sn, dn, un, tn}
  CompStores <- AppComps
  Permanent = {sn}
  Getters = {tn}
  NoValue = NoValue

SPECIFICATION Spec

INVARIANT TypeOK
INVARIANT NoGlitch
INVARIANT SettledConsistent
