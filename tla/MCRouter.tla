------------------------------ MODULE MCRouter ------------------------------
EXTENDS Router

\* a % ? # / . space 4 1
MCAlphabet == {97, 37, 63, 35, 47, 46, 32, 52, 49}
MCSelf == <<49>>
\* <Route path="/conversations/:contact"> then <Route path="/">
MCRoutes == << <<47, 99, 111, 110, 118, 101, 114, 115, 97, 116, 105, 111, 110, 115, 47, 58, 99, 111, 110, 116, 97, 99, 116>>,
               <<47>> >>
=============================================================================
