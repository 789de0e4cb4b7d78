CONSTANTS
    p1 = p1
    p2 = p2
    outer = outer
    inner = inner
    xs = xs
    Path = {p1, p2}
    Taken = p1
    Scope = {outer, inner}
    Tag <- MCTag
    OwnTag <- MCTag
    Assoc = 2
    Array = {xs}
    arrayTags <- MCArrayTags
    perSetSize <- MCPerSetSize
    addrlists <- MCAddrlists
    Config <- MCConditionalMust
SPECIFICATION Spec
INVARIANT ConditionalMustStaysCached
