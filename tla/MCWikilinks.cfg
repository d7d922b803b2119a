\* Every text of MCContents, parsed to its end.
SPECIFICATION ParseSpec
CONSTANT Contents <- MCContents
INVARIANTS CodeAsMarkdown LinksAreWhole PlainLinksFound
PROPERTY Terminates
CHECK_DEADLOCK FALSE
